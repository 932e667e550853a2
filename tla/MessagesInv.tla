----------------------------- MODULE MessagesInv -----------------------------
(***************************************************************************)
(* The inductive invariant of Messages: what is stored, and what a cursor  *)
(* separates.                                                              *)
(***************************************************************************)
EXTENDS Messages

\* Every message is stamped with a time the cursor can tell from none.
Stamped ==
    /\ \A m \in messages : m.created_at # ZeroTime
    /\ \A s \in Sender : sending[s] # Idle => sending[s].msg.created_at # ZeroTime

\* What is shown live is in the history, and so is what is about to be shown.
PublishedIsStored ==
    /\ published \subseteq messages
    /\ \A s \in Sender : sending[s].at = "publish" => sending[s].msg \in messages

\* What a reader has is as young as its cursor or younger, what it will get
\* is older.  Nothing it was to find has been taken away.
CursorSeparates ==
    \A r \in Active : LET j == reading[r] IN
        /\ j.before = ZeroTime => j.read \cup j.page = {}
        /\ j.before # ZeroTime => \A m \in j.read \cup j.page : m.created_at >= j.before
        /\ j.start \subseteq messages

IInv ==
    /\ TypeOK
    /\ IsFiniteSet(messages)
    /\ Stamped
    /\ PublishedIsStored
    /\ CursorSeparates
    /\ OnlyTiesAreSkipped
=============================================================================
