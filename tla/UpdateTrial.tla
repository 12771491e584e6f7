----------------------------- MODULE UpdateTrial -----------------------------
(***************************************************************************)
(* What an over-the-air update promises, without flash pages, boot state   *)
(* or uploads: the device runs the image it keeps or, after an update, the *)
(* new one on trial.  The trial starts once.  Either it confirms itself    *)
(* and is kept, or the next start is that of the kept image again, however *)
(* the trial ended.  Ota implements it.                                    *)
(*                                                                         *)
(* candidate and runs are empty or hold one image.                         *)
(***************************************************************************)
CONSTANT Images

VARIABLES
    kept,       \* the image to go back to
    candidate,  \* the image that is staged or on trial
    onTrial,    \* whether the candidate has been started
    runs        \* the image that runs

vars == <<kept, candidate, onTrial, runs>>

Init == kept \in Images /\ candidate = {} /\ onTrial = FALSE /\ runs = {}

\* A new image is staged, whole, by the kept one.
Stage ==
    /\ runs = {kept} /\ candidate = {}
    /\ \E image \in Images : candidate' = {image}
    /\ UNCHANGED <<kept, onTrial, runs>>

\* Nothing to try: the kept image starts.
Start ==
    /\ runs = {} /\ candidate = {}
    /\ runs' = {kept}
    /\ UNCHANGED <<kept, candidate, onTrial>>

Try ==
    /\ runs = {} /\ candidate # {} /\ ~onTrial
    /\ runs' = candidate /\ onTrial' = TRUE
    /\ UNCHANGED <<kept, candidate>>

GiveUp ==
    /\ runs = {} /\ onTrial
    /\ runs' = {kept} /\ candidate' = {} /\ onTrial' = FALSE
    /\ UNCHANGED kept

Confirm ==
    /\ onTrial /\ runs = candidate
    /\ \E image \in candidate : kept' = image
    /\ candidate' = {} /\ onTrial' = FALSE
    /\ UNCHANGED runs

\* Any reset, wanted or not.
Reset ==
    /\ runs' = {}
    /\ UNCHANGED <<kept, candidate, onTrial>>

Next == Stage \/ Start \/ Try \/ GiveUp \/ Confirm \/ Reset

SafeSpec == Init /\ [][Next]_vars

\* The device always starts something.
Spec == SafeSpec /\ (runs = {} ~> runs # {})
=============================================================================
