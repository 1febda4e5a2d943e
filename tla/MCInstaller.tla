---------------------------- MODULE MCInstaller ----------------------------
(* Instances of Installer: releases and bounds are in the cfg.           *)
EXTENDS Installer
=============================================================================
