----------------------------- MODULE ZinaInbox -----------------------------
(***************************************************************************)
(* What the receive pipeline promises about messages on the disk, whatever *)
(* threads, retries and ends of the process do: a message that is kept is  *)
(* shown or refused some day, it goes only after that, and it is never     *)
(* both.  ZinaReceive implements this (ZinaReceive!Inbox).                 *)
(***************************************************************************)
CONSTANT Msgs

VARIABLES
    inbox,    \* messages with a row on the disk, raw or decrypted
    shown,    \* messages in the chat database of the app
    refused,  \* messages reported as undecryptable
    failed,   \* the database has failed: nothing is promised any more
    stuck     \* the app has failed to take a message: it may wait for ever

inboxVars == <<inbox, shown, refused, failed>>

Init == inbox = {} /\ shown = {} /\ refused = {} /\ failed = FALSE

\* Messages arrive; a commit may keep several at once.
Keep(S) == inbox' = inbox \cup S /\ UNCHANGED <<shown, refused>>

Show(m) == /\ m \in inbox \ (shown \cup refused)
           /\ shown' = shown \cup {m} /\ UNCHANGED <<inbox, refused>>

\* The row goes at once, unless the message was handed over twice.
Refuse(m) == /\ m \in inbox \ (shown \cup refused)
             /\ refused' = refused \cup {m} /\ UNCHANGED shown
             /\ inbox' \in {inbox, inbox \ {m}}

Clear(m) == /\ m \in inbox \cap (shown \cup refused)
            /\ inbox' = inbox \ {m} /\ UNCHANGED <<shown, refused>>

Settle(m) == Show(m) \/ Refuse(m)

Step == \/ \E S \in SUBSET Msgs : Keep(S)
        \/ \E m \in Msgs : Settle(m) \/ Clear(m)

Next == \/ Step /\ UNCHANGED failed
        \/ failed' = TRUE

MustSettle(m) == ~failed /\ ~stuck /\ Settle(m) /\ UNCHANGED failed

\* The safe part, and the whole promise.
SafeSpec == Init /\ [][Next]_inboxVars
Spec     == SafeSpec /\ \A m \in Msgs : WF_inboxVars(MustSettle(m))
============================================================================
