---------------------------- MODULE ExportPromise ----------------------------
(***************************************************************************)
(* What a continuous consent export promises to the app that holds the     *)
(* token, without jobs, leases, claims, devices or retries: the copy it    *)
(* reads is never ahead of the owner's data and never goes back, a copy    *)
(* called fresh covers the last write that called it stale, it becomes     *)
(* fresh again only by a newer copy, and once closed it stays closed.      *)
(***************************************************************************)
EXTENDS Naturals

CONSTANT Tokens

VARIABLES
    content,   \* revision of the owner's data
    share,     \* what the holder of each token can read, and its standing
    owed       \* the revision the share must reach before it is fresh again

vars == <<content, share, owed>>

Open == {"fresh", "stale", "failed"}

Init ==
    /\ content = 0
    /\ share = [t \in Tokens |-> [state |-> "none", source |-> 0]]
    /\ owed = [t \in Tokens |-> 0]

(* The owner writes; the open shares the writer knew of fall behind. *)
Write(known) ==
    /\ content' = content + 1
    /\ \A t \in known : share[t].state \in Open
    /\ share' = [t \in Tokens |->
            IF t \in known THEN [state |-> "stale", source |-> share[t].source]
                           ELSE share[t]]
    /\ owed' = [t \in Tokens |-> IF t \in known THEN content + 1 ELSE owed[t]]

(* The owner approves: some copy of the data, perhaps not the latest. *)
Approve(t) ==
    /\ share[t].state = "none"
    /\ \E s \in 0..content :
         share' = [share EXCEPT ![t] = [state |-> "fresh", source |-> s]]
    /\ UNCHANGED <<content, owed>>

(* A stale share is replaced by a copy that makes up for what it missed. *)
Renew(t) ==
    /\ share[t].state = "stale"
    /\ \E s \in owed[t]..content :
         /\ s >= share[t].source
         /\ share' = [share EXCEPT ![t] = [state |-> "fresh", source |-> s]]
    /\ UNCHANGED <<content, owed>>

(* A refresh is reported failed; the report may be late. *)
GiveUp(t) ==
    /\ share[t].state \in Open
    /\ share' = [share EXCEPT ![t] = [state |-> "failed", source |-> share[t].source]]
    /\ UNCHANGED <<content, owed>>

(* The grant is revoked or runs out: nothing is owed any more. *)
Close(t) ==
    /\ share[t].state \in Open
    /\ share' = [share EXCEPT ![t] = [state |-> "gone", source |-> 0]]
    /\ owed' = [owed EXCEPT ![t] = 0]
    /\ UNCHANGED content

Next ==
    \/ \E known \in SUBSET Tokens : Write(known)
    \/ \E t \in Tokens : Approve(t) \/ Renew(t) \/ GiveUp(t) \/ Close(t)

Spec == Init /\ [][Next]_vars
=============================================================================
