---------------------------- MODULE ObjectContract ----------------------------
(***************************************************************************)
(* What the application may rely on when it assigns to an object and saves *)
(* it, whatever task queues, operation sets, retries and roll-forwards are *)
(* underneath (PFObjectSave implements this).                              *)
(*                                                                         *)
(* A getter changes only by an assignment; only fields with unconfirmed    *)
(* assignments are written; and an assignment is confirmed only when the   *)
(* row holds what the getter returns, unless the row has been overwritten  *)
(* since.  A save that fails is not visible at all.                        *)
(***************************************************************************)
CONSTANTS Keys, Values

VARIABLES
    value,       \* what the getters return
    row,         \* the row on the server
    dirty,       \* the fields with an assignment not yet confirmed
    overwritten  \* the fields of row last written by someone else, or late

vars == <<value, row, dirty, overwritten>>

Init ==
    /\ value \in [Keys -> Values]
    /\ row = value
    /\ dirty = {} /\ overwritten = {}

\* object.key = value
Assign(k) ==
    /\ value' \in [Keys -> Values]
    /\ \A j \in Keys \ {k} : value'[j] = value[j]
    /\ dirty' = dirty \cup {k}
    /\ UNCHANGED <<row, overwritten>>

\* The row changes in the fields ks and in no other.
Write(ks) ==
    /\ row' \in [Keys -> Values]
    /\ \A k \in Keys \ ks : row'[k] = row[k]
    /\ UNCHANGED <<value, dirty>>

\* The server executes a save.
Store(ks) ==
    /\ ks \subseteq dirty
    /\ overwritten' = overwritten \ ks
    /\ Write(ks)

\* Someone else writes, or a request arrives that nobody waits for any more.
Overwrite(ks) ==
    /\ overwritten' = overwritten \cup ks
    /\ Write(ks)

\* A save is reported as successful.
Confirm(ks) ==
    /\ \A k \in ks : row[k] = value[k] \/ k \in overwritten
    /\ dirty' = dirty \ ks
    /\ UNCHANGED <<value, row, overwritten>>

Next ==
    \/ \E k \in Keys : Assign(k)
    \/ \E ks \in SUBSET Keys : Store(ks) \/ Overwrite(ks) \/ Confirm(ks)

Spec == Init /\ [][Next]_vars

-----------------------------------------------------------------------------
\* A field with nothing to confirm holds what the getter returns, also while
\* saves of other fields are under way.
ConfirmedIsStored ==
    \A k \in Keys \ dirty : row[k] = value[k] \/ k \in overwritten
=============================================================================
