---------------------------- MODULE LayerInstall -----------------------------
(***************************************************************************)
(* What an execution of a reuse plan promises: it installs the layers in   *)
(* order, each once, and succeeds only with all of them installed.  A      *)
(* failed execution says so, wherever it got to.                           *)
(***************************************************************************)
EXTENDS Integers

CONSTANT Layers

VARIABLES
  outcome,    \* idle, running, succeeded or failed
  installed   \* the layers installed so far

installVars == <<outcome, installed>>

InstallInit == outcome = "idle" /\ installed = {}

Begin ==
  /\ outcome \in {"idle", "succeeded", "failed"}
  /\ outcome' = "running"
  /\ installed' = {}

Install ==
  /\ outcome = "running"
  /\ \E l \in 0 .. Layers - 1 : installed = 0 .. l - 1 /\ installed' = 0 .. l
  /\ UNCHANGED outcome

Succeed ==
  /\ outcome = "running"
  /\ installed = 0 .. Layers - 1
  /\ outcome' = "succeeded"
  /\ UNCHANGED installed

Fail ==
  /\ outcome = "running"
  /\ outcome' = "failed"
  /\ UNCHANGED installed

InstallNext == Begin \/ Install \/ Succeed \/ Fail

InstallSpec == InstallInit /\ [][InstallNext]_installVars
==============================================================================
