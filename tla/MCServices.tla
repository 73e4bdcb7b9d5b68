------------------------------ MODULE MCServices ------------------------------
(* Two services of a process that share no state: a conversation of an agent   *)
(* and the image batches of one user, with two tasks.  A behaviour gives work  *)
(* to one of them.                                                             *)
EXTENDS Conversation, ImageBatch, TLC

CONSTANTS m1, m2, g1, g2, b1, u1, p1

Nothing == [messages |-> {}, restart |-> 0, other |-> 0, save |-> 0, cancel |-> 0]
Two == [Nothing EXCEPT !.messages = {m1, m2}]

\* A Get outside the turns meets two turns, or one turn and a failed save; two of
\* them meet one turn; two messages meet a stop or a deadline with a failed save,
\* another replica, or a restart.
Talk ==
    {[Two EXCEPT !.messages = {m1, m2, g1}],
     [Two EXCEPT !.messages = {m1, g1}, !.save = 1],
     [Two EXCEPT !.messages = {m1, g1, g2}],
     [Two EXCEPT !.cancel = 1, !.save = 1],
     [Two EXCEPT !.cancel = 1, !.other = 1],
     [Two EXCEPT !.restart = 1]}

MCSettings == Talk \cup {Nothing}

\* Two group messages meet one turn.
MCGroups == {[Two EXCEPT !.messages = {m1, g1, g2}]}

OneBatch == [k \in Tasks |-> b1]
OneUser == [b \in Batches |-> u1]
OneProcess == [w \in Slots |-> p1]

\* Messages of a kind are alike: m1 comes before m2, and g1 before g2.
InOrder ==
    /\ pc[m2] = "new" /\ pc'[m2] # "new" => pc[m1] # "new"
    /\ pc[g2] = "new" /\ pc'[g2] # "new" => pc[g1] # "new"

ServicesInit ==
    /\ ConversationInit /\ Init

\* What has no work has no step that fairness asks for.
ServicesSpec ==
    /\ ServicesInit
    /\ [][\/ trouble # Nothing /\ ConversationNext /\ InOrder /\ UNCHANGED vars
          \/ trouble = Nothing /\ Next /\ UNCHANGED conversationVars]_<<conversationVars, vars>>
    /\ ConversationFairness /\ Fairness
===============================================================================
