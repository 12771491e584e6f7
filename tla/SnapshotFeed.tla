---------------------------- MODULE SnapshotFeed ----------------------------
(***************************************************************************)
(* What the event streams promise the phones, without timers, signals or   *)
(* the Watch: a phone is sent snapshots that were current when they were   *)
(* taken, one at a time, and a phone whose last snapshot is out of date is *)
(* sent another for as long as it is connected.  EventStream implements it.*)
(*                                                                         *)
(* sending[i] and shown[i] are empty or hold one snapshot.                 *)
(***************************************************************************)
CONSTANTS Phones, Snapshots

VARIABLES
    current,    \* what a phone should see
    sending,    \* the snapshot on its way to each phone
    shown       \* the last snapshot each connected phone was sent

vars == <<current, sending, shown>>

Nothing == [i \in Phones |-> {}]

Init == current \in Snapshots /\ sending = Nothing /\ shown = Nothing

Change ==
    /\ current' \in Snapshots
    /\ UNCHANGED <<sending, shown>>

\* Taking a snapshot may first bring the current one up to date.
Take(i) ==
    /\ sending[i] = {}
    /\ current' \in Snapshots
    /\ sending' = [sending EXCEPT ![i] = {current'}]
    /\ UNCHANGED shown

Show(i) ==
    /\ sending[i] # {}
    /\ shown' = [shown EXCEPT ![i] = sending[i]]
    /\ sending' = [sending EXCEPT ![i] = {}]
    /\ UNCHANGED current

Leave(i) ==
    /\ sending' = [sending EXCEPT ![i] = {}]
    /\ shown' = [shown EXCEPT ![i] = {}]
    /\ UNCHANGED current

Next ==
    \/ Change
    \/ \E i \in Phones : Take(i) \/ Show(i) \/ Leave(i)

OutOfDate(i) == shown[i] # {} /\ shown[i] # {current}

SafeSpec == Init /\ [][Next]_vars

Spec ==
    /\ SafeSpec
    /\ \A i \in Phones : WF_vars(OutOfDate(i) /\ Take(i)) /\ WF_vars(sending[i] # {} /\ (Show(i) \/ Leave(i)))
=============================================================================
