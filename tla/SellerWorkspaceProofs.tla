-------------------------- MODULE SellerWorkspaceProofs --------------------------
(***************************************************************************)
(* Theorems about SellerWorkspace and about the OAuth callbacks it rests   *)
(* on (AmazonOAuth): a state is exchanged once, tokens go to their owners, *)
(* and users are kept apart, for every set of users, sellers, states,      *)
(* callbacks, projects, products and requests.                             *)
(***************************************************************************)
EXTENDS SellerWorkspace, TLAPS

---------------------------------------------------------------------------
(* The callbacks and the accounts: AmazonOAuth                              *)

\* The callbacks that spent a state.
Spenders == {c \in Callbacks : cb[c].pc \notin {"new", "refused"}}

\* A spent state is spent for good.
StatesAreSpent == \A c \in Spenders : state[cb[c].state].status \in {"consumed", "void"}

\* Only a callback that connects inserts an account.
InsertingConnects == \A c \in Callbacks : cb[c].pc = "insert" => cb[c].target = None

\* A callback that inserted an account, or whose token is stored, is over.
TokensAreSettled == \A a \in Linked : cb[a].pc = "done" /\ cb[acct[a].token].pc = "done"

\* None of the properties is inductive without the others.
OAuthInv ==
    /\ TypeOK
    /\ StatesAreSpent
    /\ OneExchangePerState
    /\ InsertingConnects
    /\ TokensAreSettled
    /\ TokensBelong

---------------------------------------------------------------------------
(* Types                                                                    *)

\* What a callback that spent its state holds, and what of it goes on.
LEMMA ContinueKeeps ==
    ASSUME TypeOK, NEW c \in Spenders, NEW pc \in {"exchange", "persist", "insert", "done"},
           Continue(c, pc)
    PROVE  /\ cb' \in [Callbacks -> Handlers]
           /\ cb'[c].pc = pc /\ cb'[c].state = cb[c].state /\ cb'[c].claimed = cb[c].claimed
           /\ cb'[c].user = cb[c].user /\ cb'[c].target = cb[c].target
           /\ \A d \in Callbacks \ {c} : cb'[d] = cb[d]
           /\ Spenders' = Spenders
<1>1. cb \in [Callbacks -> Handlers] /\ c \in Callbacks /\ cb[c].pc \notin {"new", "refused"}
  BY DEF TypeOK, Spenders
<1>2. cb[c] \in [pc : {"exchange", "persist", "insert", "done"}, state : States,
                 claimed : Sellers, user : Users, target : Callbacks \cup {None}]
  BY <1>1 DEF Handlers
<1>3. [cb[c] EXCEPT !.pc = pc] \in Handlers
  BY <1>2 DEF Handlers
<1>4. cb' = [cb EXCEPT ![c] = [cb[c] EXCEPT !.pc = pc]]
  BY DEF Continue
<1>5. cb' \in [Callbacks -> Handlers]
  BY <1>1, <1>3, <1>4
<1>6. /\ cb'[c].pc = pc /\ cb'[c].state = cb[c].state /\ cb'[c].claimed = cb[c].claimed
      /\ cb'[c].user = cb[c].user /\ cb'[c].target = cb[c].target
  BY <1>1, <1>2, <1>4
<1>7. \A d \in Callbacks \ {c} : cb'[d] = cb[d]
  BY <1>1, <1>4
<1>8. Spenders' = Spenders
  BY <1>1, <1>6, <1>7 DEF Spenders
<1>9. QED
  BY <1>5, <1>6, <1>7, <1>8

\* What a spender holds, and a linked account.
LEMMA HeldTypes ==
    ASSUME TypeOK
    PROVE  /\ \A c \in Spenders : /\ cb[c].pc \in {"exchange", "persist", "insert", "done"}
                                  /\ cb[c].state \in States /\ cb[c].claimed \in Sellers
                                  /\ cb[c].user \in Users /\ cb[c].target \in Callbacks \cup {None}
           /\ \A a \in Linked : /\ acct[a].user \in Users /\ acct[a].seller \in Sellers
                                /\ acct[a].token \in Callbacks
BY DEF TypeOK, Spenders, Handlers, Linked, Accounts

\* A cascade leaves rows, and lets no state be issued or spent again.
LEMMA CascadeKeeps ==
    ASSUME TypeOK, NEW us, NEW as
    PROVE  /\ Cascaded(us, as) \in [States -> StateRows]
           /\ \A s \in States : /\ Cascaded(us, as)[s].status \in {state[s].status, "void"}
<1>1. \A s \in States : state[s] \in StateRows
  BY DEF TypeOK
<1>2. [status |-> "void"] \in StateRows
  BY DEF StateRows
<1>3. QED
  BY <1>1, <1>2 DEF Cascaded

---------------------------------------------------------------------------
(* Steps that change no account                                             *)

\* A callback that goes on, without a new state or account.
LEMMA CallbackStep ==
    ASSUME OAuthInv, NEW c \in Spenders, NEW pc \in {"exchange", "persist", "insert", "done"},
           Continue(c, pc), cb[c].pc # "done", pc = "insert" => cb[c].target = None,
           UNCHANGED <<users, state, acct, deletion>>
    PROVE  OAuthInv'
<1>1. TypeOK /\ c \in Callbacks
  BY DEF OAuthInv, Spenders
<1>2. TypeOK'
  BY <1>1, ContinueKeeps DEF TypeOK
<1>3. /\ \A d \in Callbacks : /\ cb'[d].state = cb[d].state /\ cb'[d].claimed = cb[d].claimed
                              /\ cb'[d].user = cb[d].user /\ cb'[d].target = cb[d].target
      /\ \A d \in Callbacks \ {c} : cb'[d] = cb[d]
      /\ cb'[c].pc = pc /\ Spenders' = Spenders
  BY <1>1, ContinueKeeps
<1>4. StatesAreSpent'
  BY <1>3 DEF OAuthInv, StatesAreSpent, Spenders
<1>5. OneExchangePerState'
  <2>1. \A d, e \in Spenders : cb[d].state = cb[e].state => d = e
    BY DEF OAuthInv, OneExchangePerState, Spenders
  <2>2. \A d, e \in Spenders' : cb'[d].state = cb'[e].state => d = e
    BY <1>3, <2>1 DEF Spenders
  <2>3. QED
    BY <2>2 DEF OneExchangePerState, Spenders
<1>6. InsertingConnects'
  BY <1>3 DEF OAuthInv, InsertingConnects
<1>7. Linked' = Linked /\ \A a \in Linked : a \in Callbacks /\ acct[a].token \in Callbacks
  BY <1>1, HeldTypes DEF Linked
<1>8. TokensAreSettled'
  <2>1. \A a \in Linked : acct[a].token # c /\ a # c
    BY DEF OAuthInv, TokensAreSettled
  <2>2. QED
    BY <1>3, <1>7, <2>1 DEF OAuthInv, TokensAreSettled
<1>9. TokensBelong'
  BY <1>3, <1>7 DEF OAuthInv, TokensBelong
<1>10. QED
  BY <1>2, <1>4, <1>5, <1>6, <1>8, <1>9 DEF OAuthInv

\* A state that is issued, voided or spent without a callback that goes on.
LEMMA StateStep ==
    ASSUME OAuthInv, state' \in [States -> StateRows],
           \A s \in States : state[s].status \in {"consumed", "void"}
                                => state'[s].status \in {"consumed", "void"},
           UNCHANGED <<users, acct, deletion>>,
           \/ UNCHANGED cb
           \/ \E c \in Callbacks \ Spenders : cb' = [cb EXCEPT ![c] = [pc |-> "refused"]]
    PROVE  OAuthInv'
<1>1. TypeOK /\ cb \in [Callbacks -> Handlers]
  BY DEF OAuthInv, TypeOK
<1>2. cb' \in [Callbacks -> Handlers]
  BY <1>1 DEF Handlers
<1>3. TypeOK'
  BY <1>1, <1>2 DEF TypeOK
<1>4. Spenders' = Spenders /\ \A d \in Spenders : cb'[d] = cb[d]
  BY <1>1 DEF Spenders
<1>5. StatesAreSpent'
  BY <1>1, <1>4, HeldTypes DEF OAuthInv, StatesAreSpent
<1>6. OneExchangePerState'
  BY <1>4 DEF OAuthInv, OneExchangePerState, Spenders
<1>7. \A d \in Callbacks : cb'[d].pc = "insert" => d \in Spenders
  BY <1>4 DEF Spenders
<1>8. InsertingConnects'
  BY <1>4, <1>7 DEF OAuthInv, InsertingConnects, Spenders
<1>9. Linked' = Linked /\ \A a \in Linked : acct[a].token \in Spenders /\ a \in Spenders
  BY <1>1, HeldTypes DEF Linked, OAuthInv, TokensAreSettled, Spenders
<1>10. TokensAreSettled' /\ TokensBelong'
  BY <1>4, <1>9 DEF OAuthInv, TokensAreSettled, TokensBelong
<1>11. QED
  BY <1>3, <1>5, <1>6, <1>8, <1>10 DEF OAuthInv

\* A callback that spends its state: no other has spent it, for it was pending.
LEMMA ConsumeStep ==
    ASSUME OAuthInv, NEW c \in Callbacks, NEW s \in States, NEW x \in Sellers, Consume(c, s, x)
    PROVE  OAuthInv'
<1>1. /\ TypeOK /\ cb \in [Callbacks -> Handlers] /\ state \in [States -> StateRows]
      /\ c \notin Spenders
  BY DEF OAuthInv, TypeOK, Consume, Spenders
<1>2. CASE Consumable(s)
  <2> DEFINE spent == [pc |-> "exchange", state |-> s, claimed |-> x,
                       user |-> state[s].user, target |-> state[s].target]
  <2>1. /\ state' = [state EXCEPT ![s].status = "consumed"]
        /\ cb' = [cb EXCEPT ![c] = spent]
        /\ UNCHANGED <<users, acct, deletion>>
    BY <1>2 DEF Consume
  <2>2. state[s] \in [status : {"pending", "consumed"}, user : Users,
                      target : Callbacks \cup {None}]
    BY <1>1, <1>2 DEF Consumable, StateRows
  <2>3. spent \in Handlers /\ spent.pc = "exchange" /\ spent.state = s
    BY <2>2 DEF Handlers
  <2>4. /\ state' \in [States -> StateRows]
        /\ \A t \in States : state[t].status \in {"consumed", "void"}
                                => state'[t].status \in {"consumed", "void"}
        /\ state'[s].status = "consumed"
    BY <1>1, <2>1, <2>2 DEF StateRows
  <2>5. /\ cb' \in [Callbacks -> Handlers] /\ cb'[c].pc = "exchange" /\ cb'[c].state = s
        /\ \A d \in Callbacks \ {c} : cb'[d] = cb[d]
    BY <1>1, <2>1, <2>3
  <2> HIDE DEF spent
  <2>6. Spenders' = Spenders \cup {c}
    BY <2>5 DEF Spenders
  <2>7. \A d \in Spenders : cb[d].state \in States /\ cb[d].state # s
    BY <1>1, <1>2, HeldTypes DEF OAuthInv, StatesAreSpent, Consumable
  <2>8. \A d \in Spenders : d \in Callbacks /\ cb'[d] = cb[d]
    BY <1>1, <2>5 DEF Spenders
  <2>9. TypeOK'
    BY <1>1, <2>1, <2>4, <2>5 DEF TypeOK
  <2>10. StatesAreSpent'
    <3>1. \A d \in Spenders : state'[cb'[d].state].status \in {"consumed", "void"}
      BY <2>4, <2>7, <2>8 DEF OAuthInv, StatesAreSpent
    <3>2. QED
      BY <2>4, <2>5, <2>6, <3>1 DEF StatesAreSpent
  <2>11. OneExchangePerState'
    <3>1. \A d, e \in Spenders : cb[d].state = cb[e].state => d = e
      BY DEF OAuthInv, OneExchangePerState, Spenders
    <3>2. \A d, e \in Spenders' : cb'[d].state = cb'[e].state => d = e
      BY <2>5, <2>6, <2>7, <2>8, <3>1
    <3>3. QED
      BY <3>2 DEF OneExchangePerState, Spenders
  <2>12. InsertingConnects'
    BY <2>5 DEF OAuthInv, InsertingConnects
  <2>13. Linked' = Linked /\ \A a \in Linked : acct[a].token \in Spenders /\ a \in Spenders
    BY <1>1, <2>1, HeldTypes DEF Linked, OAuthInv, TokensAreSettled, Spenders
  <2>14. TokensAreSettled' /\ TokensBelong'
    BY <2>1, <2>8, <2>13 DEF OAuthInv, TokensAreSettled, TokensBelong
  <2>15. QED
    BY <2>9, <2>10, <2>11, <2>12, <2>14 DEF OAuthInv
<1>3. CASE ~Consumable(s)
  BY <1>1, <1>3, StateStep DEF Consume, OAuthInv, TypeOK
<1>4. QED
  BY <1>2, <1>3

---------------------------------------------------------------------------
(* Steps that change an account                                             *)

\* A callback that is over stores its token in an account of its user and seller,
\* which its state named or, for a callback that connects, any such.
LEMMA RotateStep ==
    ASSUME OAuthInv, NEW c \in Spenders, NEW a \in Of(cb[c].user),
           cb[c].pc # "done", acct[a].seller = cb[c].claimed, cb[c].target \in {None, a},
           Rotate(c, a), Continue(c, "done"), UNCHANGED <<users, state, deletion>>
    PROVE  OAuthInv'
<1>1. /\ TypeOK /\ c \in Callbacks /\ acct \in [Callbacks -> Accounts \cup {None}]
      /\ a \in Linked /\ acct[a].user = cb[c].user
  BY DEF OAuthInv, TypeOK, Spenders, Of
<1>2. acct[a] \in Accounts /\ acct' = [acct EXCEPT ![a].token = c]
  BY <1>1 DEF Linked, Rotate
<1>3. /\ acct'[a].token = c
      /\ acct'[a].user = acct[a].user /\ acct'[a].seller = acct[a].seller
      /\ \A b \in Callbacks \ {a} : acct'[b] = acct[b]
      /\ acct' \in [Callbacks -> Accounts \cup {None}]
  <2>1. acct' = [acct EXCEPT ![a] = [acct[a] EXCEPT !.token = c]]
    BY <1>2
  <2>2. a \in Callbacks
    BY <1>1 DEF Linked
  <2>3. /\ [acct[a] EXCEPT !.token = c] \in Accounts
        /\ [acct[a] EXCEPT !.token = c].token = c
        /\ [acct[a] EXCEPT !.token = c].user = acct[a].user
        /\ [acct[a] EXCEPT !.token = c].seller = acct[a].seller
    BY <1>1, <1>2 DEF Accounts
  <2>4. acct'[a] = [acct[a] EXCEPT !.token = c]
    BY <1>1, <2>1, <2>2
  <2>5. acct' \in [Callbacks -> Accounts \cup {None}]
    BY <1>1, <2>1, <2>2, <2>3
  <2>6. \A b \in Callbacks \ {a} : acct'[b] = acct[b]
    BY <1>1, <2>1, <2>2
  <2>7. QED
    BY <2>3, <2>4, <2>5, <2>6
<1>4. /\ \A d \in Callbacks : /\ cb'[d].state = cb[d].state /\ cb'[d].claimed = cb[d].claimed
                              /\ cb'[d].user = cb[d].user /\ cb'[d].target = cb[d].target
      /\ \A d \in Callbacks \ {c} : cb'[d] = cb[d]
      /\ cb'[c].pc = "done" /\ Spenders' = Spenders /\ cb' \in [Callbacks -> Handlers]
  BY <1>1, ContinueKeeps
<1>5. TypeOK'
  BY <1>1, <1>3, <1>4 DEF TypeOK
<1>6. StatesAreSpent' /\ OneExchangePerState' /\ InsertingConnects'
  <2>1. \A d \in Spenders : d \in Callbacks
    BY DEF Spenders
  <2>2. \A d, e \in Spenders : cb[d].state = cb[e].state => d = e
    BY DEF OAuthInv, OneExchangePerState, Spenders
  <2>3. \A d, e \in Spenders' : cb'[d].state = cb'[e].state => d = e
    BY <1>4, <2>1, <2>2
  <2>4. OneExchangePerState'
    BY <2>3 DEF OneExchangePerState, Spenders
  <2>5. StatesAreSpent'
    BY <1>4, <2>1 DEF OAuthInv, StatesAreSpent
  <2>6. InsertingConnects'
    BY <1>4 DEF OAuthInv, InsertingConnects
  <2>7. QED
    BY <2>4, <2>5, <2>6
<1>7. Linked' \subseteq Linked /\ Linked \subseteq Callbacks
  <2>1. \A b \in Linked' : b = a \/ b \in Linked
    BY <1>3 DEF Linked
  <2>2. QED
    BY <1>1, <2>1 DEF Linked
<1>8. \A b \in Linked : acct[b].token \in Callbacks /\ acct[b].token # c /\ b # c
  BY <1>1, HeldTypes DEF OAuthInv, TokensAreSettled
<1>9. TokensAreSettled'
  <2>1. \A b \in Linked' \ {a} : cb'[acct'[b].token].pc = "done"
    BY <1>3, <1>4, <1>7, <1>8 DEF OAuthInv, TokensAreSettled
  <2>2. \A b \in Linked' : cb'[b].pc = "done"
    BY <1>4, <1>7, <1>8 DEF OAuthInv, TokensAreSettled
  <2>3. QED
    BY <1>3, <1>4, <1>7, <2>1, <2>2 DEF TokensAreSettled
<1>10. TokensBelong'
  <2>1. \A b \in Linked : acct'[b].seller = acct[b].seller /\ acct'[b].user = acct[b].user
    BY <1>3, <1>7
  <2>2. ASSUME NEW b \in Linked' \ {a}
        PROVE  /\ cb'[acct'[b].token].user = acct'[b].user
               /\ cb'[acct'[b].token].claimed = acct'[b].seller
               /\ cb'[acct'[b].token].target \in {None, b}
    BY <1>3, <1>4, <1>7, <1>8 DEF OAuthInv, TokensBelong
  <2>3. /\ cb'[acct'[a].token].user = acct'[a].user
        /\ cb'[acct'[a].token].claimed = acct'[a].seller
        /\ cb'[acct'[a].token].target \in {None, a}
    BY <1>1, <1>3, <1>4
  <2>4. \A b \in Linked : /\ acct[b].user \in users
                           /\ \A e \in Linked \ {b} : acct[e].seller # acct[b].seller
    BY DEF OAuthInv, TokensBelong
  <2>5. \A b \in Linked' : /\ acct'[b].user \in users'
                           /\ \A e \in Linked' \ {b} : acct'[e].seller # acct'[b].seller
    BY <1>7, <2>1, <2>4
  <2>6. QED
    BY <2>2, <2>3, <2>5 DEF TokensBelong
<1>11. QED
  BY <1>5, <1>6, <1>9, <1>10 DEF OAuthInv

\* A callback that connects inserts its account; the unique constraint and the
\* reference to the user stand for what was checked before the lock was lost.
LEMMA InsertStep ==
    ASSUME OAuthInv, NEW c \in Callbacks, cb[c].pc = "insert", Accepted(c),
           acct' = [acct EXCEPT ![c] = [user |-> cb[c].user, seller |-> cb[c].claimed, token |-> c]],
           Continue(c, "done"), UNCHANGED <<users, state, deletion>>
    PROVE  OAuthInv'
<1>1. /\ TypeOK /\ c \in Spenders /\ acct \in [Callbacks -> Accounts \cup {None}]
      /\ cb[c].target = None
  BY DEF OAuthInv, TypeOK, Spenders, InsertingConnects
<1>2. cb[c].user \in Users /\ cb[c].claimed \in Sellers
  BY <1>1, HeldTypes
<1> DEFINE row == [user |-> cb[c].user, seller |-> cb[c].claimed, token |-> c]
<1>3. row \in Accounts /\ row.user = cb[c].user /\ row.seller = cb[c].claimed /\ row.token = c
  BY <1>2 DEF Accounts
<1>4. /\ acct'[c] = row /\ acct' \in [Callbacks -> Accounts \cup {None}]
      /\ \A b \in Callbacks \ {c} : acct'[b] = acct[b]
  BY <1>1, <1>3
<1> HIDE DEF row
<1>5. /\ \A d \in Callbacks : /\ cb'[d].state = cb[d].state /\ cb'[d].claimed = cb[d].claimed
                              /\ cb'[d].user = cb[d].user /\ cb'[d].target = cb[d].target
      /\ \A d \in Callbacks \ {c} : cb'[d] = cb[d]
      /\ cb'[c].pc = "done" /\ Spenders' = Spenders /\ cb' \in [Callbacks -> Handlers]
  BY <1>1, ContinueKeeps
<1>6. TypeOK'
  BY <1>1, <1>4, <1>5 DEF TypeOK
<1>7. StatesAreSpent' /\ OneExchangePerState' /\ InsertingConnects'
  <2>1. \A d \in Spenders : d \in Callbacks
    BY DEF Spenders
  <2>2. \A d, e \in Spenders : cb[d].state = cb[e].state => d = e
    BY DEF OAuthInv, OneExchangePerState, Spenders
  <2>3. \A d, e \in Spenders' : cb'[d].state = cb'[e].state => d = e
    BY <1>5, <2>1, <2>2
  <2>4. OneExchangePerState'
    BY <2>3 DEF OneExchangePerState, Spenders
  <2>5. StatesAreSpent'
    BY <1>5, <2>1 DEF OAuthInv, StatesAreSpent
  <2>6. InsertingConnects'
    BY <1>5 DEF OAuthInv, InsertingConnects
  <2>7. QED
    BY <2>4, <2>5, <2>6
<1>8. /\ Linked \subseteq Callbacks /\ Linked' \subseteq Linked \cup {c}
      /\ \A b \in Linked' \ {c} : b \in Linked /\ acct'[b] = acct[b]
  BY <1>4 DEF Linked
<1>9. \A b \in Linked : acct[b].token \in Callbacks \ {c}
  BY <1>1, HeldTypes DEF OAuthInv, TokensAreSettled
<1>10. TokensAreSettled'
  <2>1. \A b \in Linked' \ {c} : cb'[acct'[b].token].pc = "done"
    BY <1>5, <1>8, <1>9 DEF OAuthInv, TokensAreSettled
  <2>2. \A b \in Linked' \ {c} : cb'[b].pc = "done"
    BY <1>5, <1>8 DEF OAuthInv, TokensAreSettled
  <2>3. QED
    BY <1>3, <1>4, <1>5, <2>1, <2>2 DEF TokensAreSettled
<1>11. TokensBelong'
  <2>1. ASSUME NEW b \in Linked' \ {c}
        PROVE  /\ acct'[b].user \in users
               /\ cb'[acct'[b].token].user = acct'[b].user
               /\ cb'[acct'[b].token].claimed = acct'[b].seller
               /\ cb'[acct'[b].token].target \in {None, b}
    BY <1>5, <1>8, <1>9 DEF OAuthInv, TokensBelong
  <2>2. /\ acct'[c].user \in users
        /\ cb'[acct'[c].token].user = acct'[c].user
        /\ cb'[acct'[c].token].claimed = acct'[c].seller
        /\ cb'[acct'[c].token].target \in {None, c}
    BY <1>1, <1>3, <1>4, <1>5 DEF Accepted
  <2>3. \A b \in Linked' \ {c} : acct'[b].seller # acct'[c].seller
    BY <1>3, <1>4, <1>8 DEF Accepted
  <2>4. \A b, e \in Linked' \ {c} : b # e => acct'[e].seller # acct'[b].seller
    BY <1>8 DEF OAuthInv, TokensBelong
  <2>5. QED
    BY <2>1, <2>2, <2>3, <2>4 DEF TokensBelong
<1>12. QED
  BY <1>6, <1>7, <1>10, <1>11 DEF OAuthInv

\* Accounts go, and users whose accounts all go, with the states that name them.
LEMMA DeletionStep ==
    ASSUME OAuthInv, NEW us, NEW as,
           users' = users \ us,
           acct' = [a \in Callbacks |-> IF a \in as THEN None ELSE acct[a]],
           \A a \in Linked : acct[a].user \in us => a \in as,
           state' = Cascaded(us, as), UNCHANGED cb,
           deletion' \in [Deletions -> Runs \cup {None}]
    PROVE  OAuthInv'
<1>1. /\ TypeOK /\ acct \in [Callbacks -> Accounts \cup {None}] /\ users \subseteq Users
      /\ cb \in [Callbacks -> Handlers]
  BY DEF OAuthInv, TypeOK
<1>2. /\ acct' \in [Callbacks -> Accounts \cup {None}]
      /\ Linked' = Linked \ as /\ \A a \in Linked' : acct'[a] = acct[a]
  BY <1>1 DEF Linked
<1>3. /\ state' \in [States -> StateRows]
      /\ \A s \in States : state'[s].status \in {state[s].status, "void"}
  BY <1>1, CascadeKeeps
<1>4. TypeOK'
  BY <1>1, <1>2, <1>3 DEF TypeOK
<1>5. Spenders' = Spenders
  BY DEF Spenders
<1>6. StatesAreSpent'
  BY <1>1, <1>3, <1>5, HeldTypes DEF OAuthInv, StatesAreSpent
<1>7. OneExchangePerState' /\ InsertingConnects'
  BY DEF OAuthInv, OneExchangePerState, InsertingConnects
<1>8. \A a \in Linked' : a \in Linked /\ acct'[a] = acct[a] /\ acct[a].user \notin us
  BY <1>2
<1>9. TokensAreSettled'
  BY <1>8 DEF OAuthInv, TokensAreSettled
<1>10. TokensBelong'
  <2>1. TokensBelong /\ cb' = cb
    BY DEF OAuthInv
  <2>2. ASSUME NEW a \in Linked'
        PROVE  /\ acct'[a].user \in users'
               /\ cb'[acct'[a].token].user = acct'[a].user
               /\ cb'[acct'[a].token].claimed = acct'[a].seller
               /\ cb'[acct'[a].token].target \in {None, a}
    <3>1. a \in Linked /\ acct'[a] = acct[a] /\ acct[a].user \notin us
      BY <1>8
    <3>2. /\ acct[a].user \in users
          /\ cb[acct[a].token].user = acct[a].user
          /\ cb[acct[a].token].claimed = acct[a].seller
          /\ cb[acct[a].token].target \in {None, a}
      BY <2>1, <3>1 DEF TokensBelong
    <3>3. acct[a].user \in users'
      BY <3>1, <3>2
    <3>4. cb'[acct[a].token] = cb[acct[a].token]
      BY <2>1
    <3>5. acct'[a].token = acct[a].token
      BY <3>1
    <3>6. QED
      BY <3>1, <3>2, <3>3, <3>4, <3>5
  <2>3. ASSUME NEW a \in Linked', NEW b \in Linked', a # b
        PROVE  acct'[b].seller # acct'[a].seller
    <3>1. a \in Linked /\ b \in Linked /\ acct'[a] = acct[a] /\ acct'[b] = acct[b]
      BY <1>8
    <3>2. acct[b].seller # acct[a].seller
      BY <2>1, <2>3, <3>1 DEF TokensBelong
    <3>3. QED
      BY <3>1, <3>2
  <2>4. \A a \in Linked' : \A b \in Linked' \ {a} : acct'[b].seller # acct'[a].seller
    BY <2>3
  <2>5. \A a \in Linked' : /\ acct'[a].user \in users'
                           /\ cb'[acct'[a].token].user = acct'[a].user
                           /\ cb'[acct'[a].token].claimed = acct'[a].seller
                           /\ cb'[acct'[a].token].target \in {None, a}
    BY <2>2
  <2>6. QED
    BY <2>4, <2>5 DEF TokensBelong
<1>11. QED
  BY <1>4, <1>6, <1>7, <1>9, <1>10 DEF OAuthInv

---------------------------------------------------------------------------
(* The invariant                                                            *)

LEMMA OAuthInit == Init => OAuthInv
<1> SUFFICES ASSUME Init PROVE OAuthInv
  OBVIOUS
<1>1. TypeOK
  BY DEF Init, TypeOK, StateRows, Handlers
<1>2. Spenders = {} /\ Linked = {} /\ \A c \in Callbacks : cb[c].pc = "new"
  BY DEF Init, Spenders, Linked
<1>3. QED
  BY <1>1, <1>2 DEF OAuthInv, StatesAreSpent, OneExchangePerState, InsertingConnects,
                    TokensAreSettled, TokensBelong

\* One step per action of Next.
LEMMA OAuthStep == OAuthInv /\ [Next]_vars => OAuthInv'
<1> SUFFICES ASSUME OAuthInv, [Next]_vars PROVE OAuthInv'
  OBVIOUS
<1>1. /\ TypeOK /\ state \in [States -> StateRows]
      /\ acct \in [Callbacks -> Accounts \cup {None}]
      /\ deletion \in [Deletions -> Runs \cup {None}]
  BY DEF OAuthInv, TypeOK
<1>2. Linked \subseteq Callbacks
  BY DEF Linked
<1>3. ASSUME NEW u \in Users, NEW s \in States, NEW target \in Callbacks \cup {None},
             Start(u, s, target)
      PROVE  OAuthInv'
  <2>1. [status |-> "pending", user |-> u, target |-> target] \in StateRows
    BY DEF StateRows
  <2>2. state' \in [States -> StateRows]
    BY <1>1, <1>3, <2>1 DEF Start, Issue
  <2>3. QED
    BY <1>1, <1>3, <2>2, StateStep DEF Start, Issue
<1>4. ASSUME NEW c \in Callbacks, NEW s \in States, NEW x \in Sellers, Consume(c, s, x)
      PROVE  OAuthInv'
  BY <1>4, ConsumeStep
<1>5. ASSUME NEW c \in Callbacks, NEW s \in States, ConsumeInDoubt(c, s) PROVE OAuthInv'
  <2>1. state[s] \in [status : {"pending", "consumed"}, user : Users,
                      target : Callbacks \cup {None}]
    BY <1>1, <1>5 DEF ConsumeInDoubt, Consumable, StateRows
  <2>2. /\ state' \in [States -> StateRows] /\ state'[s].status = "consumed"
        /\ \A t \in States \ {s} : state'[t] = state[t]
    BY <1>1, <1>5, <2>1 DEF ConsumeInDoubt, StateRows
  <2>3. c \notin Spenders
    BY <1>5 DEF ConsumeInDoubt, Spenders
  <2>4. QED
    BY <1>1, <1>5, <2>2, <2>3, StateStep DEF ConsumeInDoubt
<1>6. ASSUME NEW c \in Callbacks, Misread(c) PROVE OAuthInv'
  <2>1. c \notin Spenders
    BY <1>6 DEF Misread, Spenders
  <2>2. QED
    BY <1>1, <1>6, <2>1, StateStep DEF Misread
<1>7. ASSUME NEW c \in Callbacks, Exchange(c) PROVE OAuthInv'
  <2>1. c \in Spenders
    BY <1>7 DEF Exchange, Spenders
  <2>2. QED
    BY <1>7, <2>1, CallbackStep DEF Exchange
<1>8. ASSUME NEW c \in Callbacks, Persist(c) PROVE OAuthInv'
  <2>1. /\ c \in Spenders /\ cb[c].pc # "done"
        /\ UNCHANGED <<users, state, deletion>>
    BY <1>8 DEF Persist, Spenders
  <2>2. CASE cb[c].target = None /\ Connect(c)
    <3>1. CASE Continue(c, "insert") /\ UNCHANGED acct
      BY <2>1, <2>2, <3>1, CallbackStep
    <3>2. ASSUME NEW a \in Linked, acct[a].seller = cb[c].claimed, acct[a].user = cb[c].user,
                 Rotate(c, a), Continue(c, "done")
          PROVE  OAuthInv'
      BY <2>1, <2>2, <3>2, RotateStep DEF Of
    <3>3. QED
      BY <2>2, <3>1, <3>2 DEF Connect
  <2>3. CASE cb[c].target # None /\ Reauthorize(c)
    BY <2>1, <2>3, RotateStep DEF Reauthorize
  <2>4. CASE Continue(c, "done") /\ UNCHANGED acct
    BY <2>1, <2>4, CallbackStep
  <2>5. QED
    BY <1>8, <2>2, <2>3, <2>4 DEF Persist
<1>9. ASSUME NEW c \in Callbacks, Insert(c) PROVE OAuthInv'
  <2>1. /\ c \in Spenders /\ cb[c].pc = "insert" /\ Continue(c, "done")
        /\ UNCHANGED <<users, state, deletion>>
    BY <1>9 DEF Insert, Spenders
  <2>2. CASE UNCHANGED acct
    BY <2>1, <2>2, CallbackStep
  <2>3. CASE ~UNCHANGED acct
    BY <1>9, <2>1, <2>3, InsertStep DEF Insert
  <2>4. QED
    BY <2>2, <2>3
<1>10. ASSUME NEW a \in Linked, Remove(a), UNCHANGED <<users, cb>>,
              deletion' \in [Deletions -> Runs \cup {None}]
       PROVE  OAuthInv'
  <2>1. acct' = [b \in Callbacks |-> IF b \in {a} THEN None ELSE acct[b]]
    BY <1>1, <1>2, <1>10 DEF Remove
  <2>2. state' = Cascaded({}, {a}) /\ users' = users \ {}
    BY <1>10 DEF Remove
  <2>3. QED
    BY <1>10, <2>1, <2>2, DeletionStep
<1>11. ASSUME NEW a \in Callbacks, Disconnect(a) PROVE OAuthInv'
  BY <1>1, <1>10, <1>11 DEF Disconnect
<1>12. ASSUME NEW d \in Deletions, deletion' \in [Deletions -> Runs \cup {None}],
              UNCHANGED <<users, state, acct, cb>>
       PROVE  OAuthInv'
  <2>1. TypeOK'
    BY <1>1, <1>12 DEF TypeOK
  <2>2. QED
    BY <1>12, <2>1 DEF OAuthInv, StatesAreSpent, Spenders, OneExchangePerState,
                       InsertingConnects, TokensAreSettled, TokensBelong, Linked
<1>13. ASSUME NEW d \in Deletions, NEW u \in Users, DeleteBegin(d, u) PROVE OAuthInv'
  <2>1. [user |-> u, left |-> Of(u), locks |-> TRUE] \in Runs
    BY <1>2 DEF Of, Runs
  <2>2. deletion' \in [Deletions -> Runs \cup {None}]
    BY <1>1, <1>13, <2>1 DEF DeleteBegin
  <2>3. QED
    BY <1>12, <1>13, <2>2 DEF DeleteBegin
<1>14. ASSUME NEW d \in Deletions, NEW a \in Callbacks, DeleteAccount(d, a) PROVE OAuthInv'
  <2>1. deletion[d] \in Runs
    BY <1>1, <1>14 DEF DeleteAccount
  <2> DEFINE row == [deletion[d] EXCEPT !.left = deletion[d].left \ {a},
                                        !.locks = deletion[d].locks /\ a \notin Linked]
  <2>2. row \in Runs
    BY <2>1 DEF Runs
  <2>3. deletion' = [deletion EXCEPT ![d] = row]
    BY <1>1, <1>14 DEF DeleteAccount
  <2> HIDE DEF row
  <2>4. deletion' \in [Deletions -> Runs \cup {None}]
    BY <1>1, <2>2, <2>3
  <2>5. CASE a \in Linked
    BY <1>10, <1>14, <2>4, <2>5 DEF DeleteAccount
  <2>6. CASE a \notin Linked
    BY <1>12, <1>14, <2>4, <2>6 DEF DeleteAccount
  <2>7. QED
    BY <2>5, <2>6
<1>15. ASSUME NEW d \in Deletions, DeleteUser(d) PROVE OAuthInv'
  <2>1. deletion' \in [Deletions -> Runs \cup {None}]
    BY <1>1, <1>15 DEF DeleteUser
  <2>2. PICK u \in users :
            /\ users' = users \ {u} /\ state' = Cascaded({u}, Of(u))
            /\ acct' = [a \in Callbacks |-> IF a \in Of(u) THEN None ELSE acct[a]]
    BY <1>15 DEF DeleteUser
  <2>3. UNCHANGED cb /\ \A a \in Linked : acct[a].user \in {u} => a \in Of(u)
    BY <1>15 DEF DeleteUser, Of
  <2>4. QED
    BY <2>1, <2>2, <2>3, DeletionStep
<1>16. ASSUME NEW d \in Deletions, DeleteStops(d) PROVE OAuthInv'
  <2>1. deletion' \in [Deletions -> Runs \cup {None}]
    BY <1>1, <1>16 DEF DeleteStops
  <2>2. QED
    BY <1>12, <1>16, <2>1 DEF DeleteStops
<1>17. ASSUME NEW s \in States, Expire(s) PROVE OAuthInv'
  <2>1. [status |-> "void"] \in StateRows
    BY DEF StateRows
  <2>2. state' \in [States -> StateRows]
    BY <1>1, <1>17, <2>1 DEF Expire
  <2>3. QED
    BY <1>1, <1>17, <2>2, StateStep DEF Expire
<1>18. CASE UNCHANGED vars
  BY <1>18 DEF vars, OAuthInv, TypeOK, StatesAreSpent, Spenders, OneExchangePerState,
               InsertingConnects, TokensAreSettled, TokensBelong, Linked
<1>19. QED
  BY <1>3, <1>4, <1>5, <1>6, <1>7, <1>8, <1>9, <1>11, <1>13, <1>14, <1>15, <1>16, <1>17, <1>18
     DEF Next

\* Users only go, and an account stays its user's as long as it is there.
LEMMA AccountsKeepTheirUsers ==
    ASSUME OAuthInv, [Next]_vars
    PROVE  /\ users' \subseteq users
           /\ \A a \in Linked : acct'[a] # None => acct'[a].user = acct[a].user
<1>1. acct \in [Callbacks -> Accounts \cup {None}] /\ Linked \subseteq Callbacks
  BY DEF OAuthInv, TypeOK, Linked
<1>2. users' \subseteq users
  BY DEF Next, vars, Start, ConsumeInDoubt, Consume, Misread, Exchange, Persist, Insert, Disconnect,
         DeleteBegin, DeleteAccount, DeleteUser, DeleteStops, Expire
<1>3. ASSUME NEW a \in Linked, acct'[a] # None PROVE acct'[a].user = acct[a].user
  <2>1. acct[a] \in Accounts
    BY <1>1 DEF Linked
  <2>2. ASSUME NEW c \in Callbacks, NEW b \in Callbacks, Rotate(c, b) PROVE acct'[a].user = acct[a].user
    BY <1>1, <2>1, <2>2 DEF Rotate, Accounts
  <2>3. ASSUME NEW c \in Callbacks, Persist(c) PROVE acct'[a].user = acct[a].user
    BY <1>1, <2>2, <2>3 DEF Persist, Connect, Reauthorize, Of
  <2>4. ASSUME NEW c \in Callbacks, Insert(c) PROVE acct'[a].user = acct[a].user
    <3>1. a # c
      BY <2>4 DEF Insert, OAuthInv, TokensAreSettled
    <3>2. QED
      BY <1>1, <2>4, <3>1 DEF Insert
  <2>5. ASSUME NEW b \in Callbacks, Remove(b) PROVE acct'[a].user = acct[a].user
    BY <1>1, <1>3, <2>5 DEF Remove
  <2>6. ASSUME NEW d \in Deletions, DeleteUser(d) PROVE acct'[a].user = acct[a].user
    BY <1>1, <1>3, <2>6 DEF DeleteUser
  <2>7. CASE UNCHANGED acct
    BY <2>7
  <2>8. QED
    BY <2>3, <2>4, <2>5, <2>6, <2>7 DEF Next, vars, Start, ConsumeInDoubt, Consume, Misread, Exchange,
         Disconnect, DeleteBegin, DeleteAccount, DeleteStops, Expire
<1>4. QED
  BY <1>2, <1>3

THEOREM OAuthInvariant == Spec => []OAuthInv
BY OAuthInit, OAuthStep, PTL DEF Spec

---------------------------------------------------------------------------
(* Results                                                                  *)

\* consume_state is a compare and set under the row's lock, and the commit comes
\* before the code is exchanged: no replay of a callback exchanges twice.
THEOREM ExchangedOnce == Spec => []OneExchangePerState
<1>1. OAuthInv => OneExchangePerState
  BY DEF OAuthInv
<1>2. QED
  BY <1>1, OAuthInvariant, PTL

\* Whatever overtakes a callback between the state it spent and the account it
\* writes, an account's token came with a callback of its user that named its seller.
THEOREM TokensGoToTheirOwners == Spec => []TokensBelong
<1>1. OAuthInv => TokensBelong
  BY DEF OAuthInv
<1>2. QED
  BY <1>1, OAuthInvariant, PTL

---------------------------------------------------------------------------
(* The workspace                                                            *)

\* The rows; an account and a product that are there have their types.
WorkspaceTypes ==
    /\ project \in [Projects -> Users \cup {None, Deleted}]
    /\ product \in [Products -> ProductRows \cup {None, Deleted}]
    /\ listing \in [Callbacks -> Listings \cup {None}]
    /\ linking \in [Callbacks -> Products \cup {None}]
    /\ gen \in [Requests -> Generations]

\* A product is in a project of its user, and a project there is has a user.
ProductsHaveHomes ==
    /\ \A j \in Projects : project[j] \in users \cup {None, Deleted}
    /\ \A p \in Rows : project[product[p].project] = product[p].user

\* The project a request names was its user's, and may be deleted; its number is
\* not used again.
AskedInOwnProject ==
    \A g \in Requests : gen[g].pc \in {"model", "found", "missing", "saved"} =>
        /\ gen[g].kind = "audit" => gen[g].project = None
        /\ gen[g].kind # "audit" => /\ gen[g].project \in Projects
                                    /\ project[gen[g].project] \in {gen[g].user, Deleted}
        /\ gen[g].kind # "product" => gen[g].product = None

\* A request being filed has a user, whose lock it holds; a product it has found is,
\* if it is there still, of its user and project.
FiledUnderOwn ==
    \A g \in Requests :
        /\ gen[g].pc \in {"found", "missing"} => gen[g].user \in users
        /\ gen[g].pc = "missing" => gen[g].kind = "product"
        /\ gen[g].pc = "found" /\ gen[g].kind = "product" =>
              /\ gen[g].product \in Products /\ product[gen[g].product] # None
              /\ gen[g].product \in Rows =>
                    product[gen[g].product] = [user |-> gen[g].user, project |-> gen[g].project]

\* A listing that is being linked is there, and its lock keeps it; the product is the
\* user's, if it is there still, and its number is not used again.
LinkedToOwn ==
    \A a \in Callbacks : linking[a] # None =>
        /\ a \in Linked /\ listing[a] # None /\ product[linking[a]] # None
        /\ linking[a] \in Rows => product[linking[a]].user = acct[a].user

WorkspaceInv ==
    /\ OAuthInv
    /\ WorkspaceTypes
    /\ ProductsHaveHomes
    /\ AskedInOwnProject
    /\ FiledUnderOwn
    /\ FiledTogether
    /\ LinkedToOwn
    /\ TenantsApart

---------------------------------------------------------------------------
(* Rows                                                                     *)

\* None and Deleted are neither users nor rows, and rows have their fields.
LEMMA RowFacts ==
    ASSUME WorkspaceTypes
    PROVE  /\ None \notin Users /\ Deleted \notin Users
           /\ None \notin Projects /\ None \notin Products
           /\ \A p \in Rows : /\ p \in Products /\ product[p] \in ProductRows
                              /\ product[p].user \in Users /\ product[p].project \in Projects
           /\ \A p \in Products : product[p] \in ProductRows => p \in Rows
           /\ \A g \in Requests : gen[g].pc \in {"model", "found", "missing", "saved"} =>
                 /\ gen[g].user \in Users /\ gen[g].project \in Projects \cup {None}
                 /\ gen[g].product \in Products \cup {None}
                 /\ gen[g].kind \in {"product", "analysis", "audit"}
           /\ \A a \in Callbacks : listing[a] # None => listing[a].product \in Products \cup {None}
<1>1. None \notin Users /\ Deleted \notin Users /\ None \notin Projects /\ None \notin Products
  BY WorkspaceAssumption
<1>2. \A p \in Rows : p \in Products /\ product[p] \in ProductRows
  BY DEF Rows, WorkspaceTypes
<1>3. \A p \in Rows : product[p].user \in Users /\ product[p].project \in Projects
  BY <1>2 DEF ProductRows
<1>4. \A p \in Products : product[p] \in ProductRows => p \in Rows
  BY WorkspaceAssumption DEF Rows
<1>5. \A g \in Requests : gen[g].pc \in {"model", "found", "missing", "saved"} =>
                 /\ gen[g].user \in Users /\ gen[g].project \in Projects \cup {None}
                 /\ gen[g].product \in Products \cup {None}
                 /\ gen[g].kind \in {"product", "analysis", "audit"}
  BY DEF WorkspaceTypes, Generations
<1>6. \A a \in Callbacks : listing[a] # None => listing[a].product \in Products \cup {None}
  BY DEF WorkspaceTypes, Listings
<1>7. QED
  BY <1>1, <1>2, <1>3, <1>4, <1>5, <1>6

\* What is left after a deletion.
LEMMA PurgeLeaves ==
    ASSUME WorkspaceInv, NEW us, NEW as, NEW js, NEW ps, Purge(us, as, js, ps)
    PROVE  /\ WorkspaceTypes'
           /\ \A j \in Projects : /\ project'[j] \in {project[j], Deleted}
                                  /\ project'[j] \notin us \ {Deleted}
           /\ \A p \in Products : product'[p] \in {product[p], Deleted}
           /\ \A p \in Rows' : /\ p \in Rows /\ product'[p] = product[p]
                               /\ project'[product[p].project] = project[product[p].project]
           /\ \A a \in Callbacks : listing'[a] # None =>
                 /\ listing[a] # None /\ a \notin as
                 /\ \/ listing'[a].product = None
                    \/ listing'[a].product = listing[a].product
                       /\ (listing[a].product \in Rows => listing[a].product \in Rows')
           /\ UNCHANGED linking
           /\ \A a \in Callbacks : linking[a] # None => listing'[a] # None /\ a \notin as
           /\ \A g \in Requests :
                 \/ gen'[g] = [pc |-> "over"]
                 \/ /\ gen'[g] = gen[g]
                    /\ gen[g].pc = "saved" =>
                          /\ gen[g].user \notin us
                          /\ gen[g].project \in Projects =>
                                project'[gen[g].project] = project[gen[g].project]
                          /\ gen[g].product \in Rows => gen[g].product \in Rows'
<1> DEFINE js2 == js \cup {j \in Projects : project[j] \in us}
           ps2 == ps \cup {p \in Rows : product[p].project \in js2}
<1>1. /\ project' = [j \in Projects |-> IF j \in js2 THEN Deleted ELSE project[j]]
      /\ product' = [p \in Products |-> IF p \in ps2 THEN Deleted ELSE product[p]]
      /\ listing' = [a \in Callbacks |->
              IF a \in as THEN None
              ELSE IF listing[a] # None /\ listing[a].product \in ps2 THEN [product |-> None]
              ELSE listing[a]]
      /\ gen' = [g \in Requests |->
              IF /\ gen[g].pc = "saved"
                 /\ gen[g].user \in us \/ gen[g].project \in js2 \/ gen[g].product \in ps2
              THEN [pc |-> "over"] ELSE gen[g]]
      /\ UNCHANGED linking
      /\ \A a \in Callbacks : linking[a] # None => listing'[a] = listing[a]
  BY DEF Purge
<1>2. /\ \A j \in Projects : project[j] \in us => j \in js2
      /\ \A p \in Rows : product[p].project \in js2 => p \in ps2
  OBVIOUS
<1>3. WorkspaceTypes
  BY DEF WorkspaceInv
<1> HIDE DEF js2, ps2
<1>4. /\ \A j \in Projects : project'[j] \in {project[j], Deleted}
      /\ \A j \in Projects : j \notin js2 => project'[j] = project[j]
      /\ \A j \in Projects : project'[j] \notin us \ {Deleted}
  BY <1>1, <1>2
<1>5. \A p \in Products : product'[p] = IF p \in ps2 THEN Deleted ELSE product[p]
  BY <1>1
<1>6. \A p \in Rows' : p \in Products /\ p \in Rows /\ p \notin ps2 /\ product'[p] = product[p]
  BY <1>5 DEF Rows
<1>7. \A p \in Rows : p \notin ps2 => p \in Rows'
  BY <1>5 DEF Rows
<1>8. \A p \in Rows' : project'[product[p].project] = project[product[p].project]
  BY <1>2, <1>3, <1>4, <1>6, RowFacts
<1>9. \A a \in Callbacks : listing'[a] # None =>
                 /\ listing[a] # None /\ a \notin as
                 /\ \/ listing'[a].product = None
                    \/ listing'[a].product = listing[a].product
                       /\ (listing[a].product \in Rows => listing[a].product \in Rows')
  BY <1>1, <1>7
<1>10. \A g \in Requests :
          \/ gen'[g] = [pc |-> "over"]
          \/ /\ gen'[g] = gen[g]
             /\ gen[g].pc = "saved" => /\ gen[g].user \notin us /\ gen[g].project \notin js2
                                       /\ gen[g].product \notin ps2
  BY <1>1
<1>11. WorkspaceTypes'
  <2>1. project' \in [Projects -> Users \cup {None, Deleted}]
    BY <1>1, <1>3 DEF WorkspaceTypes
  <2>2. product' \in [Products -> ProductRows \cup {None, Deleted}]
    BY <1>1, <1>3 DEF WorkspaceTypes
  <2>3. listing' \in [Callbacks -> Listings \cup {None}]
    BY <1>1, <1>3 DEF WorkspaceTypes, Listings
  <2>4. [pc |-> "over"] \in Generations
    BY DEF Generations
  <2>5. gen' \in [Requests -> Generations]
    BY <1>1, <1>3, <2>4 DEF WorkspaceTypes
  <2>6. QED
    BY <1>1, <1>3, <2>1, <2>2, <2>3, <2>5 DEF WorkspaceTypes
<1>12. \A a \in Callbacks : linking[a] # None => listing'[a] # None /\ a \notin as
  <2>1. \A a \in Callbacks : linking[a] # None => listing[a] # None
    BY DEF WorkspaceInv, LinkedToOwn
  <2>2. QED
    BY <1>1, <2>1
<1>13. QED
  BY <1>1, <1>4, <1>5, <1>6, <1>7, <1>8, <1>9, <1>10, <1>11, <1>12

---------------------------------------------------------------------------
(* Steps                                                                    *)

\* A deletion keeps users apart, if the users that go are those deleted, no request
\* of one is being filed, and the accounts that go are those deleted.
LEMMA PurgeStep ==
    ASSUME WorkspaceInv, OAuthInv', NEW us, NEW as, NEW js, NEW ps, Purge(us, as, js, ps),
           users' = users \ us, us \subseteq Users, Filing \cap us = {},
           \A a \in Linked : a \notin as => a \in Linked' /\ acct'[a].user = acct[a].user
    PROVE  WorkspaceInv'
<1>1. WorkspaceTypes /\ WorkspaceTypes'
  BY PurgeLeaves DEF WorkspaceInv
<1>2. ProductsHaveHomes'
  <2>1. \A j \in Projects : project'[j] \in users' \cup {None, Deleted}
    <3> SUFFICES ASSUME NEW j \in Projects PROVE project'[j] \in users' \cup {None, Deleted}
      OBVIOUS
    <3>1. project[j] \in users \cup {None, Deleted}
      BY DEF WorkspaceInv, ProductsHaveHomes
    <3>2. project'[j] \in {project[j], Deleted} /\ project'[j] \notin us \ {Deleted}
      BY PurgeLeaves
    <3>3. QED
      BY <3>1, <3>2
  <2>2. \A p \in Rows' : project'[product'[p].project] = product'[p].user
    <3> SUFFICES ASSUME NEW p \in Rows' PROVE project'[product'[p].project] = product'[p].user
      OBVIOUS
    <3>1. /\ p \in Rows /\ product'[p] = product[p]
          /\ project'[product[p].project] = project[product[p].project]
      BY PurgeLeaves
    <3>2. project[product[p].project] = product[p].user
      BY <3>1 DEF WorkspaceInv, ProductsHaveHomes
    <3>3. QED
      BY <3>1, <3>2
  <2>3. QED
    BY <2>1, <2>2 DEF ProductsHaveHomes
<1>3. \A g \in Requests : gen'[g] = gen[g] \/ gen'[g].pc = "over"
  <2>1. \A g \in Requests : gen'[g] = gen[g] \/ gen'[g] = [pc |-> "over"]
    BY PurgeLeaves
  <2>2. [pc |-> "over"].pc = "over"
    OBVIOUS
  <2>3. QED
    BY <2>1, <2>2
<1>4. AskedInOwnProject'
  <2> SUFFICES ASSUME NEW g \in Requests, gen'[g] = gen[g],
                      gen[g].pc \in {"model", "found", "missing", "saved"}
               PROVE  /\ gen[g].kind = "audit" => gen[g].project = None
                      /\ gen[g].kind # "audit" =>
                            /\ gen[g].project \in Projects
                            /\ project'[gen[g].project] \in {gen[g].user, Deleted}
                      /\ gen[g].kind # "product" => gen[g].product = None
    BY <1>3 DEF AskedInOwnProject
  <2>1. /\ gen[g].kind = "audit" => gen[g].project = None
        /\ gen[g].kind # "audit" => /\ gen[g].project \in Projects
                                    /\ project[gen[g].project] \in {gen[g].user, Deleted}
        /\ gen[g].kind # "product" => gen[g].product = None
    BY DEF WorkspaceInv, AskedInOwnProject
  <2>2. \A j \in Projects : project'[j] \in {project[j], Deleted}
    BY PurgeLeaves
  <2>3. QED
    BY <2>1, <2>2
<1>5. FiledUnderOwn'
  <2> SUFFICES ASSUME NEW g \in Requests, gen'[g] = gen[g]
               PROVE  /\ gen[g].pc \in {"found", "missing"} => gen[g].user \in users'
                      /\ gen[g].pc = "missing" => gen[g].kind = "product"
                      /\ gen[g].pc = "found" /\ gen[g].kind = "product" =>
                            /\ gen[g].product \in Products /\ product'[gen[g].product] # None
                            /\ gen[g].product \in Rows' =>
                                  product'[gen[g].product]
                                      = [user |-> gen[g].user, project |-> gen[g].project]
    BY <1>3 DEF FiledUnderOwn
  <2>1. /\ gen[g].pc \in {"found", "missing"} => gen[g].user \in users
        /\ gen[g].pc = "missing" => gen[g].kind = "product"
        /\ gen[g].pc = "found" /\ gen[g].kind = "product" =>
              /\ gen[g].product \in Products /\ product[gen[g].product] # None
              /\ gen[g].product \in Rows =>
                    product[gen[g].product] = [user |-> gen[g].user, project |-> gen[g].project]
    BY DEF WorkspaceInv, FiledUnderOwn
  <2>2. gen[g].pc \in {"found", "missing"} => gen[g].user \notin us
    BY DEF Filing
  <2>3. /\ \A p \in Products : product'[p] \in {product[p], Deleted}
        /\ \A p \in Rows' : p \in Rows /\ product'[p] = product[p]
    BY PurgeLeaves
  <2>4. None # Deleted
    BY WorkspaceAssumption
  <2>5. QED
    BY <2>1, <2>2, <2>3, <2>4
<1>6. FiledTogether'
  <2> SUFFICES ASSUME NEW g \in Requests, gen'[g] = gen[g], gen[g].pc = "saved"
               PROVE  /\ gen[g].user \in users'
                      /\ gen[g].kind # "audit" => project'[gen[g].project] = gen[g].user
                      /\ gen[g].kind = "product" =>
                            /\ gen[g].product \in Owned(gen[g].user)'
                            /\ product'[gen[g].product].project = gen[g].project
    BY <1>3 DEF FiledTogether, Owned
  <2>1. /\ gen[g].user \in users
        /\ gen[g].kind # "audit" => project[gen[g].project] = gen[g].user
        /\ gen[g].kind = "product" => /\ gen[g].product \in Rows
                                      /\ product[gen[g].product].user = gen[g].user
                                      /\ product[gen[g].product].project = gen[g].project
    BY DEF WorkspaceInv, FiledTogether, Owned
  <2>2. /\ gen[g].user \notin us
        /\ gen[g].project \in Projects => project'[gen[g].project] = project[gen[g].project]
        /\ gen[g].product \in Rows => gen[g].product \in Rows'
    <3>1. gen'[g] # [pc |-> "over"]
      OBVIOUS
    <3>2. QED
      BY <3>1, PurgeLeaves
  <2>3. gen[g].kind # "audit" => gen[g].project \in Projects
    BY DEF WorkspaceInv, AskedInOwnProject
  <2>4. \A p \in Rows' : product'[p] = product[p]
    BY PurgeLeaves
  <2>5. QED
    BY <2>1, <2>2, <2>3, <2>4 DEF Owned
<1>7. TenantsApart'
  <2> SUFFICES ASSUME NEW a \in Callbacks, listing'[a] # None
               PROVE  a \in Linked' /\ \/ listing'[a].product = None
                                       \/ /\ listing'[a].product \in Rows'
                                          /\ product'[listing'[a].product].user = acct'[a].user
    BY DEF TenantsApart, Owned
  <2>1. /\ listing[a] # None /\ a \notin as
        /\ \/ listing'[a].product = None
           \/ listing'[a].product = listing[a].product
              /\ (listing[a].product \in Rows => listing[a].product \in Rows')
    BY PurgeLeaves
  <2>2. a \in Linked /\ \/ listing[a].product = None
                        \/ /\ listing[a].product \in Rows
                           /\ product[listing[a].product].user = acct[a].user
    BY <2>1 DEF WorkspaceInv, TenantsApart, Owned
  <2>3. a \in Linked' /\ acct'[a].user = acct[a].user
    BY <2>1, <2>2
  <2>4. \A p \in Rows' : product'[p] = product[p]
    BY PurgeLeaves
  <2>5. QED
    BY <2>1, <2>2, <2>3, <2>4
<1>8. LinkedToOwn'
  <2> SUFFICES ASSUME NEW a \in Callbacks, linking'[a] # None
               PROVE  /\ a \in Linked' /\ listing'[a] # None /\ product'[linking'[a]] # None
                      /\ linking'[a] \in Rows' => product'[linking'[a]].user = acct'[a].user
    BY DEF LinkedToOwn
  <2>1. linking' = linking /\ listing'[a] # None /\ a \notin as
    BY PurgeLeaves
  <2>2. /\ a \in Linked /\ product[linking[a]] # None
        /\ linking[a] \in Rows => product[linking[a]].user = acct[a].user
    BY <2>1 DEF WorkspaceInv, LinkedToOwn
  <2>3. a \in Linked' /\ acct'[a].user = acct[a].user
    BY <2>1, <2>2
  <2>4. /\ \A p \in Products : product'[p] \in {product[p], Deleted}
        /\ \A p \in Rows' : p \in Rows /\ product'[p] = product[p]
    BY PurgeLeaves
  <2>5. linking[a] \in Products
    BY <1>1, <2>1 DEF WorkspaceTypes
  <2>6. None # Deleted
    BY WorkspaceAssumption
  <2>7. QED
    BY <2>1, <2>2, <2>3, <2>4, <2>5, <2>6
<1>9. QED
  BY <1>1, <1>2, <1>4, <1>5, <1>6, <1>7, <1>8 DEF WorkspaceInv

\* What adds rows to products and projects that are free, or changes a request or a
\* link, is looked at property by property.
LEMMA WorkspaceStep == WorkspaceInv /\ [WorkspaceNext]_<<vars, workspace>> => WorkspaceInv'
<1> SUFFICES ASSUME WorkspaceInv, [WorkspaceNext]_<<vars, workspace>> PROVE WorkspaceInv'
  OBVIOUS
<1>1. /\ OAuthInv /\ WorkspaceTypes
      /\ project \in [Projects -> Users \cup {None, Deleted}]
      /\ product \in [Products -> ProductRows \cup {None, Deleted}]
      /\ listing \in [Callbacks -> Listings \cup {None}]
      /\ linking \in [Callbacks -> Products \cup {None}]
      /\ gen \in [Requests -> Generations] /\ users \subseteq Users
  BY DEF WorkspaceInv, WorkspaceTypes, OAuthInv, TypeOK
<1>2. CASE AccountStep
  <2> DEFINE us == users \ users'
             as == {a \in Linked : acct'[a] = None}
  <2>1. OAuthInv' /\ users' \subseteq users
        /\ \A a \in Linked : acct'[a] # None => acct'[a].user = acct[a].user
    BY <1>1, <1>2, OAuthStep, AccountsKeepTheirUsers DEF AccountStep
  <2>2. Purge(us, as, {}, {}) /\ Filing \cap us = {}
    BY <1>2 DEF AccountStep
  <2>3. users' = users \ us /\ us \subseteq Users
    BY <1>1, <2>1
  <2>4. \A a \in Linked : a \notin as => a \in Linked' /\ acct'[a].user = acct[a].user
    BY <2>1 DEF Linked
  <2> HIDE DEF us, as
  <2>5. QED
    BY <2>1, <2>2, <2>3, <2>4, PurgeStep
<1>3. CASE UNCHANGED vars
  <2>1. OAuthInv' /\ UNCHANGED <<users, acct, Linked>>
    BY <1>1, <1>3, OAuthStep DEF vars, Linked
  <2>2. ASSUME NEW js, NEW ps, Purge({}, {}, js, ps) PROVE WorkspaceInv'
    <3>1. users' = users \ {} /\ {} \subseteq Users /\ Filing \cap {} = {}
      BY <2>1
    <3>2. \A a \in Linked : a \notin {} => a \in Linked' /\ acct'[a].user = acct[a].user
      BY <2>1
    <3>3. QED
      BY <2>1, <2>2, <3>1, <3>2, PurgeStep
  <2>3. ASSUME NEW u \in Users, NEW p \in Products, DeleteProduct(u, p) PROVE WorkspaceInv'
    BY <2>2, <2>3 DEF DeleteProduct
  <2>4. ASSUME NEW u \in Users, NEW j \in Projects, DeleteProject(u, j) PROVE WorkspaceInv'
    BY <2>2, <2>4 DEF DeleteProject
  <2>5. ASSUME NEW u \in Users, NEW j \in Projects, CreateProject(u, j) PROVE WorkspaceInv'
    <3>1. /\ u \in users /\ project[j] = None /\ project' = [project EXCEPT ![j] = u]
          /\ UNCHANGED <<product, listing, linking, gen>>
      BY <2>5 DEF CreateProject
    <3>2. WorkspaceTypes'
      BY <1>1, <3>1 DEF WorkspaceTypes
    <3>3. \A i \in Projects : i # j => project'[i] = project[i]
      BY <1>1, <3>1
    <3>4. \A p \in Rows : product[p].project # j /\ product[p].project \in Projects
      BY <1>1, <3>1, RowFacts DEF WorkspaceInv, ProductsHaveHomes
    <3>5. ProductsHaveHomes'
      <4>1. project'[j] \in users
        BY <1>1, <3>1
      <4>2. \A i \in Projects : project'[i] \in users \cup {None, Deleted}
        BY <3>3, <4>1 DEF WorkspaceInv, ProductsHaveHomes
      <4>3. \A p \in Rows : project'[product[p].project] = product[p].user
        BY <3>3, <3>4 DEF WorkspaceInv, ProductsHaveHomes
      <4>4. QED
        BY <2>1, <3>1, <4>2, <4>3 DEF ProductsHaveHomes, Rows
    <3>6. None # Deleted /\ None \notin Users
      BY WorkspaceAssumption
    <3>7. \A g \in Requests : /\ gen[g].pc \in {"model", "found", "missing", "saved"}
                              /\ gen[g].kind # "audit"
                => gen[g].project \in Projects /\ gen[g].project # j
      BY <1>1, <3>1, <3>6, RowFacts DEF WorkspaceInv, AskedInOwnProject
    <3>8. AskedInOwnProject'
      BY <3>1, <3>3, <3>7 DEF WorkspaceInv, AskedInOwnProject
    <3>9. FiledUnderOwn' /\ LinkedToOwn' /\ TenantsApart'
      BY <2>1, <3>1 DEF WorkspaceInv, FiledUnderOwn, LinkedToOwn, TenantsApart, Rows, Owned
    <3>10. FiledTogether'
      BY <2>1, <3>1, <3>3, <3>7 DEF WorkspaceInv, FiledTogether, Rows, Owned
    <3>11. QED
      BY <2>1, <3>2, <3>5, <3>8, <3>9, <3>10 DEF WorkspaceInv
  <2>6. ASSUME NEW p \in Products, NEW u \in Users, NEW j \in Projects,
               product[p] = None, project[j] = u,
               product' = [product EXCEPT ![p] = [user |-> u, project |-> j]],
               UNCHANGED <<project, listing, linking>>, WorkspaceTypes',
               \A g \in Requests :
                  \/ gen'[g] = gen[g]
                  \/ /\ gen[g].pc = "missing" /\ gen'[g].pc = "saved" /\ gen[g].user = u
                     /\ gen'[g].kind = gen[g].kind /\ gen'[g].user = gen[g].user
                     /\ gen'[g].project = gen[g].project /\ gen[g].project = j
                     /\ gen'[g].product = p
        PROVE  WorkspaceInv'
    <3>1. /\ product'[p] = [user |-> u, project |-> j] /\ product'[p] \in ProductRows
          /\ \A q \in Products \ {p} : product'[q] = product[q]
      BY <1>1, <2>6 DEF ProductRows
    <3>2. p \notin Rows /\ Rows' = Rows \cup {p}
      BY <1>1, <2>6, <3>1, WorkspaceAssumption DEF Rows
    <3>3. \A q \in Rows : q \in Products /\ product'[q] = product[q]
      BY <3>1, <3>2 DEF Rows
    <3>4. product'[p].user = u /\ product'[p].project = j
      BY <3>1
    <3>5. ProductsHaveHomes'
      <4>1. \A q \in Rows : project'[product'[q].project] = product'[q].user
        BY <2>6, <3>3 DEF WorkspaceInv, ProductsHaveHomes
      <4>2. project'[product'[p].project] = product'[p].user
        BY <2>6, <3>4
      <4>3. QED
        BY <2>1, <2>6, <3>2, <4>1, <4>2 DEF WorkspaceInv, ProductsHaveHomes
    <3>6. \A g \in Requests : gen[g].pc = "missing" => gen[g].kind = "product"
      BY DEF WorkspaceInv, FiledUnderOwn
    <3>7. AskedInOwnProject'
      <4> SUFFICES ASSUME NEW g \in Requests, gen'[g].pc \in {"model", "found", "missing", "saved"}
                   PROVE  /\ gen'[g].kind = "audit" => gen'[g].project = None
                          /\ gen'[g].kind # "audit" =>
                                /\ gen'[g].project \in Projects
                                /\ project'[gen'[g].project] \in {gen'[g].user, Deleted}
                          /\ gen'[g].kind # "product" => gen'[g].product = None
        BY DEF AskedInOwnProject
      <4>1. CASE gen'[g] = gen[g]
        BY <2>6, <4>1 DEF WorkspaceInv, AskedInOwnProject
      <4>2. CASE gen'[g] # gen[g]
        BY <2>6, <3>6, <4>2
      <4>3. QED
        BY <4>1, <4>2
    <3>8. FiledUnderOwn'
      <4> SUFFICES ASSUME NEW g \in Requests, gen'[g] = gen[g]
                   PROVE  /\ gen[g].pc \in {"found", "missing"} => gen[g].user \in users'
                          /\ gen[g].pc = "missing" => gen[g].kind = "product"
                          /\ gen[g].pc = "found" /\ gen[g].kind = "product" =>
                                /\ gen[g].product \in Products /\ product'[gen[g].product] # None
                                /\ gen[g].product \in Rows' =>
                                      product'[gen[g].product]
                                          = [user |-> gen[g].user, project |-> gen[g].project]
        BY <2>6 DEF FiledUnderOwn
      <4>1. gen[g].pc = "found" /\ gen[g].kind = "product" =>
                  gen[g].product \in Products /\ gen[g].product # p
        BY <2>6 DEF WorkspaceInv, FiledUnderOwn
      <4>2. QED
        BY <2>1, <3>1, <3>2, <4>1 DEF WorkspaceInv, FiledUnderOwn
    <3>9. FiledTogether'
      <4> SUFFICES ASSUME NEW g \in Requests, gen'[g].pc = "saved"
                   PROVE  /\ gen'[g].user \in users'
                          /\ gen'[g].kind # "audit" => project'[gen'[g].project] = gen'[g].user
                          /\ gen'[g].kind = "product" =>
                                /\ gen'[g].product \in Rows'
                                /\ product'[gen'[g].product].user = gen'[g].user
                                /\ product'[gen'[g].product].project = gen'[g].project
        BY DEF FiledTogether, Owned
      <4>1. CASE gen'[g] = gen[g]
        BY <2>1, <2>6, <3>2, <3>3, <4>1 DEF WorkspaceInv, FiledTogether, Owned
      <4>2. CASE gen'[g] # gen[g]
        <5>1. gen[g].user \in users
          BY <2>6, <4>2 DEF WorkspaceInv, FiledUnderOwn
        <5>2. QED
          BY <2>1, <2>6, <3>2, <3>4, <4>2, <5>1
      <4>3. QED
        BY <4>1, <4>2
    <3>10. TenantsApart'
      BY <2>1, <2>6, <3>2, <3>3 DEF WorkspaceInv, TenantsApart, Owned
    <3>11. LinkedToOwn'
      <4>1. \A a \in Callbacks : linking[a] # None => linking[a] \in Products \ {p}
        BY <1>1, <2>6 DEF WorkspaceInv, LinkedToOwn
      <4>2. QED
        BY <2>1, <2>6, <3>1, <3>2, <4>1 DEF WorkspaceInv, LinkedToOwn
    <3>12. QED
      BY <2>1, <2>6, <3>5, <3>7, <3>8, <3>9, <3>10, <3>11 DEF WorkspaceInv
  <2>7. ASSUME NEW u \in Users, NEW j \in Projects, NEW p \in Products, CreateProduct(u, j, p)
        PROVE  WorkspaceInv'
    <3>1. /\ product[p] = None /\ project[j] = u
          /\ product' = [product EXCEPT ![p] = [user |-> u, project |-> j]]
          /\ UNCHANGED <<project, listing, linking, gen>>
      BY <2>7 DEF CreateProduct, Fillable
    <3>2. [user |-> u, project |-> j] \in ProductRows
      BY DEF ProductRows
    <3>3. WorkspaceTypes'
      BY <1>1, <3>1, <3>2 DEF WorkspaceTypes
    <3>4. QED
      BY <2>6, <3>1, <3>3
  <2>8. ASSUME NEW a \in Callbacks, NEW p \in Products \cup {None}, a \in Linked,
               p \in Owned(acct[a].user) \cup {None}, listing'[a] \in Listings,
               listing'[a].product = p, \A b \in Callbacks \ {a} : listing'[b] = listing[b],
               listing' \in [Callbacks -> Listings \cup {None}],
               linking' \in [Callbacks -> Products \cup {None}],
               \A b \in Callbacks : linking'[b] # None => linking[b] = linking'[b],
               UNCHANGED <<project, product, gen>>
        PROVE  WorkspaceInv'
    <3>1. WorkspaceTypes' /\ Rows' = Rows
      BY <1>1, <2>8 DEF WorkspaceTypes, Rows
    <3>2. TenantsApart'
      BY <2>1, <2>8, <3>1 DEF WorkspaceInv, TenantsApart, Owned
    <3>3. None \notin Listings
      BY WorkspaceAssumption
    <3>4. LinkedToOwn'
      BY <2>1, <2>8, <3>1, <3>3 DEF WorkspaceInv, LinkedToOwn
    <3>5. QED
      BY <2>1, <2>8, <3>1, <3>2, <3>4 DEF WorkspaceInv, ProductsHaveHomes, AskedInOwnProject,
                                          FiledUnderOwn, FiledTogether, Owned
  <2>9. ASSUME NEW a \in Callbacks, Import(a) PROVE WorkspaceInv'
    <3>1. [product |-> None] \in Listings
      BY DEF Listings
    <3>2. listing' \in [Callbacks -> Listings \cup {None}]
      BY <1>1, <2>9, <3>1 DEF Import
    <3>3. /\ listing'[a] \in Listings /\ listing'[a].product = None
          /\ \A b \in Callbacks \ {a} : listing'[b] = listing[b]
      BY <1>1, <2>9, <3>1 DEF Import
    <3>4. /\ None \in Products \cup {None} /\ None \in Owned(acct[a].user) \cup {None}
          /\ a \in Linked /\ UNCHANGED <<project, product, linking, gen>>
      BY <2>9 DEF Import
    <3>5. QED
      BY <1>1, <2>8, <3>2, <3>3, <3>4
  <2>10. ASSUME NEW u \in Users, NEW a \in Callbacks, NEW p \in Products, CheckLink(u, a, p)
         PROVE  WorkspaceInv'
    <3>1. /\ a \in Linked /\ acct[a].user = u /\ listing[a] # None
          /\ p \in Rows /\ product[p].user = u
          /\ linking' = [linking EXCEPT ![a] = p] /\ UNCHANGED <<project, product, listing, gen>>
      BY <2>10 DEF CheckLink, Of, Linkable, Owned
    <3>2. WorkspaceTypes' /\ Rows' = Rows
      BY <1>1, <3>1 DEF WorkspaceTypes, Rows
    <3>3. LinkedToOwn'
      <4>1. linking'[a] = p /\ \A b \in Callbacks \ {a} : linking'[b] = linking[b]
        BY <1>1, <3>1
      <4>2. product[p] # None
        BY <3>1 DEF Rows
      <4>3. QED
        BY <2>1, <3>1, <3>2, <4>1, <4>2 DEF WorkspaceInv, LinkedToOwn
    <3>4. QED
      BY <2>1, <3>1, <3>2, <3>3 DEF WorkspaceInv, ProductsHaveHomes, AskedInOwnProject,
                                    FiledUnderOwn, FiledTogether, TenantsApart, Owned
  <2>11. ASSUME NEW a \in Callbacks, NEW p \in Products \cup {None}, a \in Linked,
                listing[a] # None, listing' = [listing EXCEPT ![a].product = p]
         PROVE  /\ listing'[a] \in Listings /\ listing'[a].product = p
                /\ listing' \in [Callbacks -> Listings \cup {None}]
                /\ \A b \in Callbacks \ {a} : listing'[b] = listing[b]
    <3>1. listing[a] \in Listings
      BY <1>1, <2>11
    <3>2. /\ [listing[a] EXCEPT !.product = p] \in Listings
          /\ [listing[a] EXCEPT !.product = p].product = p
      BY <3>1 DEF Listings
    <3>3. listing' = [listing EXCEPT ![a] = [listing[a] EXCEPT !.product = p]]
      BY <2>11
    <3>4. QED
      BY <1>1, <3>2, <3>3
  <2>12. ASSUME NEW a \in Callbacks, Link(a) PROVE WorkspaceInv'
    <3>1. /\ linking[a] # None /\ linking' = [linking EXCEPT ![a] = None]
          /\ UNCHANGED <<project, product, gen>>
      BY <2>12 DEF Link
    <3>2. /\ linking' \in [Callbacks -> Products \cup {None}]
          /\ \A b \in Callbacks : linking'[b] # None => linking[b] = linking'[b]
      BY <1>1, <3>1
    <3>3. /\ a \in Linked /\ listing[a] # None /\ linking[a] \in Products
          /\ linking[a] \in Rows => product[linking[a]].user = acct[a].user
      BY <1>1, <3>1 DEF WorkspaceInv, LinkedToOwn
    <3>4. CASE linking[a] \in Rows /\ listing' = [listing EXCEPT ![a].product = linking[a]]
      <4>1. linking[a] \in Owned(acct[a].user)
        BY <3>3, <3>4 DEF Owned
      <4>2. QED
        BY <2>8, <2>11, <3>1, <3>2, <3>3, <3>4, <4>1
    <3>5. CASE UNCHANGED listing
      <4>1. listing[a] \in Listings /\ listing[a].product \in Products \cup {None}
        BY <1>1, <3>3 DEF Listings
      <4>2. listing[a].product \in Owned(acct[a].user) \cup {None}
        BY <3>3 DEF WorkspaceInv, TenantsApart
      <4>3. QED
        BY <1>1, <2>8, <3>1, <3>2, <3>3, <3>5, <4>1, <4>2
    <3>6. QED
      BY <2>12, <3>4, <3>5 DEF Link
  <2>13. ASSUME NEW u \in Users, NEW a \in Callbacks, Unlink(u, a) PROVE WorkspaceInv'
    <3>1. /\ a \in Linked /\ listing[a] # None /\ listing' = [listing EXCEPT ![a].product = None]
          /\ UNCHANGED <<project, product, linking, gen>>
      BY <2>13 DEF Unlink, Of
    <3>2. QED
      BY <1>1, <2>8, <2>11, <3>1
  <2>14. ASSUME NEW g \in Requests, gen' \in [Requests -> Generations],
                \A h \in Requests \ {g} : gen'[h] = gen[h],
                UNCHANGED <<project, product, listing, linking>>,
                gen'[g].pc \in {"model", "found", "missing", "saved"} =>
                   /\ gen'[g].kind = "audit" => gen'[g].project = None
                   /\ gen'[g].kind # "audit" =>
                         /\ gen'[g].project \in Projects
                         /\ project[gen'[g].project] \in {gen'[g].user, Deleted}
                   /\ gen'[g].kind # "product" => gen'[g].product = None,
                gen'[g].pc \in {"found", "missing", "saved"} => gen'[g].user \in users,
                gen'[g].pc = "missing" => gen'[g].kind = "product",
                gen'[g].pc = "found" /\ gen'[g].kind = "product" =>
                   /\ gen'[g].product \in Products /\ product[gen'[g].product] # None
                   /\ gen'[g].product \in Rows =>
                         product[gen'[g].product]
                            = [user |-> gen'[g].user, project |-> gen'[g].project],
                gen'[g].pc = "saved" =>
                   /\ gen'[g].kind # "audit" => project[gen'[g].project] = gen'[g].user
                   /\ gen'[g].kind = "product" =>
                         /\ gen'[g].product \in Rows
                         /\ product[gen'[g].product].user = gen'[g].user
                         /\ product[gen'[g].product].project = gen'[g].project
         PROVE  WorkspaceInv'
    <3>1. WorkspaceTypes' /\ Rows' = Rows
      BY <1>1, <2>14 DEF WorkspaceTypes, Rows
    <3>2. ProductsHaveHomes' /\ LinkedToOwn' /\ TenantsApart'
      BY <2>1, <2>14, <3>1 DEF WorkspaceInv, ProductsHaveHomes, LinkedToOwn, TenantsApart, Owned
    <3>3. AskedInOwnProject'
      BY <2>14 DEF WorkspaceInv, AskedInOwnProject
    <3>4. FiledUnderOwn'
      BY <2>1, <2>14, <3>1 DEF WorkspaceInv, FiledUnderOwn
    <3>5. FiledTogether'
      BY <2>1, <2>14, <3>1 DEF WorkspaceInv, FiledTogether, Owned
    <3>6. QED
      BY <2>1, <3>1, <3>2, <3>3, <3>4, <3>5 DEF WorkspaceInv
  <2>15. ASSUME NEW g \in Requests, NEW u \in Users, NEW kind \in {"product", "analysis", "audit"},
                NEW j \in Projects \cup {None}, NEW p \in Products \cup {None}, Ask(g, u, kind, j, p),
                kind = "audit" => j = None, kind # "audit" => j \in Projects /\ project[j] = u,
                kind # "product" => p = None
         PROVE  WorkspaceInv'
    <3> DEFINE row == [pc |-> "model", user |-> u, kind |-> kind, project |-> j, product |-> p]
    <3>1. gen' = [gen EXCEPT ![g] = row] /\ UNCHANGED <<project, product, listing, linking>>
      BY <2>15 DEF Ask
    <3>2. /\ row \in Generations /\ row.pc = "model" /\ row.user = u /\ row.kind = kind
          /\ row.project = j /\ row.product = p
      BY DEF Generations
    <3> HIDE DEF row
    <3>3. /\ gen' \in [Requests -> Generations] /\ gen'[g] = row
          /\ \A h \in Requests \ {g} : gen'[h] = gen[h]
      BY <1>1, <3>1, <3>2
    <3>4. QED
      BY <2>14, <2>15, <3>1, <3>2, <3>3
  <2>16. ASSUME NEW g \in Requests, NEW u \in Users, NEW j \in Projects,
                NEW p \in Products \cup {None}, NEW a \in Callbacks \cup {None},
                AskListing(g, u, j, p, a) \/ AskKeywords(g, u, j, p)
         PROVE  WorkspaceInv'
    BY <2>15, <2>16 DEF AskListing, AskKeywords
  <2>17. ASSUME NEW g \in Requests, NEW u \in Users, NEW j \in Projects, AskAnalysis(g, u, j)
         PROVE  WorkspaceInv'
    BY <2>15, <2>17 DEF AskAnalysis
  <2>18. ASSUME NEW g \in Requests, NEW u \in Users, AskAudit(g, u) PROVE WorkspaceInv'
    BY <2>15, <2>18 DEF AskAudit
  <2>19. ASSUME NEW g \in Requests, File(g) PROVE WorkspaceInv'
    <3>1. /\ gen[g].pc = "model" /\ gen[g].user \in users
          /\ gen[g].kind = "product" => project[gen[g].project] = gen[g].user
          /\ UNCHANGED <<project, product, listing, linking>>
      BY <2>19 DEF File
    <3>2. PICK pc \in {"found", "missing"} :
              /\ gen' = [gen EXCEPT ![g] = [gen[g] EXCEPT !.pc = pc]]
              /\ pc = "found" => gen[g].kind # "product" \/ gen[g].product \in Reusable(g)
              /\ pc = "missing" => gen[g].kind = "product"
      BY <2>19 DEF File
    <3>3. gen[g] \in [pc : {"model", "found", "missing", "saved"}, user : Users,
                     kind : {"product", "analysis", "audit"}, project : Projects \cup {None},
                     product : Products \cup {None}]
      BY <1>1, <3>1 DEF Generations
    <3>4. /\ [gen[g] EXCEPT !.pc = pc] \in Generations /\ [gen[g] EXCEPT !.pc = pc].pc = pc
          /\ [gen[g] EXCEPT !.pc = pc].user = gen[g].user
          /\ [gen[g] EXCEPT !.pc = pc].kind = gen[g].kind
          /\ [gen[g] EXCEPT !.pc = pc].project = gen[g].project
          /\ [gen[g] EXCEPT !.pc = pc].product = gen[g].product
      BY <3>2, <3>3 DEF Generations
    <3>5. /\ gen' \in [Requests -> Generations] /\ gen'[g] = [gen[g] EXCEPT !.pc = pc]
          /\ \A h \in Requests \ {g} : gen'[h] = gen[h]
      BY <1>1, <3>2, <3>4
    <3>6. /\ gen[g].kind = "audit" => gen[g].project = None
          /\ gen[g].kind # "audit" => /\ gen[g].project \in Projects
                                      /\ project[gen[g].project] \in {gen[g].user, Deleted}
          /\ gen[g].kind # "product" => gen[g].product = None
      BY <3>1 DEF WorkspaceInv, AskedInOwnProject
    <3>7. pc = "found" /\ gen[g].kind = "product" =>
             /\ gen[g].product \in Products /\ product[gen[g].product] # None
             /\ product[gen[g].product] = [user |-> gen[g].user, project |-> gen[g].project]
      <4> SUFFICES ASSUME pc = "found", gen[g].kind = "product"
                   PROVE  /\ gen[g].product \in Products /\ product[gen[g].product] # None
                          /\ product[gen[g].product] = [user |-> gen[g].user, project |-> gen[g].project]
        OBVIOUS
      <4>1. gen[g].product \in Rows /\ product[gen[g].product].user = gen[g].user
            /\ product[gen[g].product].project = gen[g].project
        BY <3>2 DEF Reusable, Owned
      <4>2. product[gen[g].product] \in ProductRows /\ gen[g].product \in Products
            /\ product[gen[g].product] # None
        BY <1>1, <4>1, RowFacts DEF Rows
      <4>3. QED
        BY <4>1, <4>2 DEF ProductRows
    <3>8. QED
      BY <2>14, <3>1, <3>2, <3>4, <3>5, <3>6, <3>7
  <2>20. ASSUME NEW g \in Requests, Save(g) PROVE WorkspaceInv'
    <3>1. /\ gen[g].pc \in {"found", "missing"} /\ gen[g].user \in users
          /\ gen[g].project # None => project[gen[g].project] \in users
          /\ UNCHANGED <<project, listing, linking>>
      BY <2>20 DEF Save, Referable, WorkspaceInv, FiledUnderOwn
    <3>2. gen[g] \in [pc : {"model", "found", "missing", "saved"}, user : Users,
                     kind : {"product", "analysis", "audit"}, project : Projects \cup {None},
                     product : Products \cup {None}]
      BY <1>1, <3>1 DEF Generations
    <3>3. /\ gen[g].kind = "audit" => gen[g].project = None
          /\ gen[g].kind # "audit" => /\ gen[g].project \in Projects
                                      /\ project[gen[g].project] \in {gen[g].user, Deleted}
          /\ gen[g].kind # "product" => gen[g].product = None
      BY <3>1 DEF WorkspaceInv, AskedInOwnProject
    <3>4. gen[g].kind # "audit" => project[gen[g].project] = gen[g].user
      <4>1. gen[g].kind # "audit" => gen[g].project # None /\ gen[g].project \in Projects
        BY <1>1, <3>3, RowFacts
      <4>2. Deleted \notin users
        BY <1>1, RowFacts
      <4>3. QED
        BY <3>1, <3>3, <4>1, <4>2
    <3>5. CASE gen[g].pc = "found" /\ gen' = [gen EXCEPT ![g].pc = "saved"] /\ UNCHANGED product
      <4> DEFINE row == [gen[g] EXCEPT !.pc = "saved"]
      <4>1. /\ row \in Generations /\ row.pc = "saved" /\ row.user = gen[g].user
            /\ row.kind = gen[g].kind /\ row.project = gen[g].project
            /\ row.product = gen[g].product
        BY <3>2 DEF Generations
      <4>2. gen' = [gen EXCEPT ![g] = row]
        BY <3>5
      <4> HIDE DEF row
      <4>3. /\ gen' \in [Requests -> Generations] /\ gen'[g] = row
            /\ \A h \in Requests \ {g} : gen'[h] = gen[h]
        BY <1>1, <4>1, <4>2
      <4>4. gen[g].product \in Rows \cup {None}
        BY <2>20, <3>5 DEF Save, Referable
      <4>5. gen[g].kind = "product" =>
               /\ gen[g].product \in Rows
               /\ product[gen[g].product].user = gen[g].user
               /\ product[gen[g].product].project = gen[g].project
        <5> SUFFICES ASSUME gen[g].kind = "product"
                     PROVE  /\ gen[g].product \in Rows
                            /\ product[gen[g].product].user = gen[g].user
                            /\ product[gen[g].product].project = gen[g].project
          OBVIOUS
        <5>1. gen[g].product \in Products /\ None \notin Products
          BY <1>1, <3>5, RowFacts DEF WorkspaceInv, FiledUnderOwn
        <5>2. gen[g].product \in Rows
          BY <4>4, <5>1
        <5>3. product[gen[g].product] = [user |-> gen[g].user, project |-> gen[g].project]
          BY <3>5, <5>2 DEF WorkspaceInv, FiledUnderOwn
        <5>4. QED
          BY <5>2, <5>3
      <4>6. /\ gen'[g].kind = "audit" => gen'[g].project = None
            /\ gen'[g].kind # "audit" =>
                  /\ gen'[g].project \in Projects
                  /\ project[gen'[g].project] \in {gen'[g].user, Deleted}
            /\ gen'[g].kind # "product" => gen'[g].product = None
        BY <3>3, <4>1, <4>3
      <4>7. gen'[g].pc = "saved" /\ gen'[g].user \in users
        BY <3>1, <4>1, <4>3
      <4>8. gen'[g].kind # "audit" => project[gen'[g].project] = gen'[g].user
        BY <3>4, <4>1, <4>3
      <4>9. gen'[g].kind = "product" =>
               /\ gen'[g].product \in Rows
               /\ product[gen'[g].product].user = gen'[g].user
               /\ product[gen'[g].product].project = gen'[g].project
        BY <4>1, <4>3, <4>5
      <4>10. UNCHANGED <<project, product, listing, linking>>
        BY <3>1, <3>5
      <4>11. QED
        BY <2>14, <4>3, <4>6, <4>7, <4>8, <4>9, <4>10
    <3>6. ASSUME NEW p \in Products, gen[g].pc = "missing", product[p] = None,
                 product' = [product EXCEPT ![p] = [user |-> gen[g].user, project |-> gen[g].project]],
                 gen' = [gen EXCEPT ![g].pc = "saved", ![g].product = p]
          PROVE  WorkspaceInv'
      <4> DEFINE row == [gen[g] EXCEPT !.pc = "saved", !.product = p]
      <4>1. /\ row \in Generations /\ row.pc = "saved" /\ row.user = gen[g].user
            /\ row.kind = gen[g].kind /\ row.project = gen[g].project /\ row.product = p
        BY <3>2 DEF Generations
      <4>2. gen' = [gen EXCEPT ![g] = row]
        BY <1>1, <3>6
      <4> HIDE DEF row
      <4>3. /\ gen' \in [Requests -> Generations] /\ gen'[g] = row
            /\ \A h \in Requests \ {g} : gen'[h] = gen[h]
        BY <1>1, <4>1, <4>2
      <4>4. gen[g].kind = "product"
        BY <3>6 DEF WorkspaceInv, FiledUnderOwn
      <4> DEFINE u == gen[g].user
                 j == gen[g].project
      <4>5. u \in Users /\ j \in Projects /\ project[j] = u
        BY <3>2, <3>3, <3>4, <4>4
      <4>6. [user |-> u, project |-> j] \in ProductRows
        BY <4>5 DEF ProductRows
      <4>7. WorkspaceTypes'
        BY <1>1, <3>1, <3>6, <4>3, <4>6 DEF WorkspaceTypes
      <4>8. /\ product[p] = None /\ product' = [product EXCEPT ![p] = [user |-> u, project |-> j]]
            /\ UNCHANGED <<project, listing, linking>>
        BY <3>1, <3>6
      <4>9. \A h \in Requests :
               \/ gen'[h] = gen[h]
               \/ /\ gen[h].pc = "missing" /\ gen'[h].pc = "saved" /\ gen[h].user = u
                  /\ gen'[h].kind = gen[h].kind /\ gen'[h].user = gen[h].user
                  /\ gen'[h].project = gen[h].project /\ gen[h].project = j
                  /\ gen'[h].product = p
        <5>1. /\ gen[g].pc = "missing" /\ gen'[g].pc = "saved"
              /\ gen'[g].kind = gen[g].kind /\ gen'[g].user = gen[g].user
              /\ gen'[g].project = gen[g].project /\ gen'[g].product = p
          BY <3>6, <4>1, <4>3
        <5>2. \A h \in Requests \ {g} : gen'[h] = gen[h]
          BY <4>3
        <5>3. gen[g].user = u /\ gen[g].project = j
          OBVIOUS
        <5> HIDE DEF u, j
        <5> TAKE h \in Requests
        <5>4. CASE h = g
          BY <5>1, <5>3, <5>4
        <5>5. CASE h # g
          BY <5>2, <5>5
        <5>6. QED
          BY <5>4, <5>5
      <4> HIDE DEF u, j
      <4>10. QED
        BY <2>6, <4>5, <4>7, <4>8, <4>9
    <3>7. QED
      BY <2>20, <3>5, <3>6 DEF Save
  <2>21. ASSUME NEW g \in Requests, Fail(g) PROVE WorkspaceInv'
    <3>1. /\ gen' = [gen EXCEPT ![g] = [pc |-> "over"]] /\ UNCHANGED <<project, product, listing, linking>>
      BY <2>21 DEF Fail
    <3>2. [pc |-> "over"] \in Generations
      BY DEF Generations
    <3>3. /\ gen' \in [Requests -> Generations] /\ gen'[g].pc = "over"
          /\ \A h \in Requests \ {g} : gen'[h] = gen[h]
      BY <1>1, <3>1, <3>2
    <3>4. gen'[g].pc \notin {"model", "found", "missing", "saved"}
      BY <3>3
    <3>5. QED
      BY <2>14, <3>1, <3>3, <3>4
  <2>22. CASE UNCHANGED workspace
    <3>1. WorkspaceTypes' /\ Rows' = Rows
      BY <1>1, <2>22 DEF workspace, WorkspaceTypes, Rows
    <3>2. QED
      BY <2>1, <2>22, <3>1 DEF workspace, WorkspaceInv, ProductsHaveHomes, AskedInOwnProject,
                               FiledUnderOwn, FiledTogether, LinkedToOwn, TenantsApart, Owned
  <2>23. CASE WorkspaceNext /\ ~AccountStep
    BY <2>3, <2>4, <2>5, <2>7, <2>9, <2>10, <2>12, <2>13, <2>16, <2>17, <2>18, <2>19, <2>20, <2>21, <2>23
       DEF WorkspaceNext
  <2>24. QED
    BY <1>2, <2>22, <2>23
<1>4. [WorkspaceNext]_<<vars, workspace>> => AccountStep \/ UNCHANGED vars
  <2>1. \A u, j, p : /\ DeleteProduct(u, p) => UNCHANGED vars
                     /\ DeleteProject(u, j) => UNCHANGED vars
                     /\ CreateProject(u, j) => UNCHANGED vars
                     /\ CreateProduct(u, j, p) => UNCHANGED vars
    BY DEF DeleteProduct, DeleteProject, CreateProject, CreateProduct
  <2>2. \A u, a, p : Import(a) \/ CheckLink(u, a, p) \/ Link(a) \/ Unlink(u, a) => UNCHANGED vars
    BY DEF Import, CheckLink, Link, Unlink
  <2>3. \A g, u, j, p, a : /\ AskListing(g, u, j, p, a) => UNCHANGED vars
                           /\ AskKeywords(g, u, j, p) => UNCHANGED vars
                           /\ AskAnalysis(g, u, j) => UNCHANGED vars
                           /\ AskAudit(g, u) => UNCHANGED vars
    BY DEF AskListing, AskKeywords, AskAnalysis, AskAudit, Ask
  <2>4. \A g \in Requests : File(g) \/ Save(g) \/ Fail(g) => UNCHANGED vars
    BY DEF File, Save, Fail
  <2>5. WorkspaceNext => AccountStep \/ UNCHANGED vars
    BY <2>1, <2>2, <2>3, <2>4 DEF WorkspaceNext
  <2>6. QED
    BY <2>5
<1>5. QED
  BY <1>2, <1>3, <1>4

LEMMA WorkspaceBegins == WorkspaceInit => WorkspaceInv
<1> SUFFICES ASSUME WorkspaceInit PROVE WorkspaceInv
  OBVIOUS
<1>1. OAuthInv
  BY OAuthInit DEF WorkspaceInit
<1>2. WorkspaceTypes
  BY DEF WorkspaceInit, WorkspaceTypes, Generations
<1>3. Rows = {} /\ \A g \in Requests : gen[g].pc = "new"
  BY DEF WorkspaceInit, Rows
<1>4. ProductsHaveHomes /\ LinkedToOwn /\ TenantsApart
  BY <1>3 DEF WorkspaceInit, ProductsHaveHomes, LinkedToOwn, TenantsApart
<1>5. AskedInOwnProject /\ FiledUnderOwn /\ FiledTogether
  BY <1>3 DEF AskedInOwnProject, FiledUnderOwn, FiledTogether
<1>6. QED
  BY <1>1, <1>2, <1>4, <1>5 DEF WorkspaceInv

THEOREM WorkspaceInvariant == WorkspaceSpec => []WorkspaceInv
BY WorkspaceBegins, WorkspaceStep, PTL DEF WorkspaceSpec

---------------------------------------------------------------------------
(* Results                                                                  *)

\* A listing stays linked to products of the user whose seller it comes from, whatever
\* is linked, unlinked and deleted meanwhile (link_product_for_user and the cascades).
THEOREM TenantsStayApart == WorkspaceSpec => []TenantsApart
<1>1. WorkspaceInv => TenantsApart
  BY DEF WorkspaceInv
<1>2. QED
  BY <1>1, WorkspaceInvariant, PTL

\* What a generation is filed under when it returns is its user's and of the project
\* it was asked for (resolve_or_create under the user's lock).
THEOREM GenerationsAreFiled == WorkspaceSpec => []FiledTogether
<1>1. WorkspaceInv => FiledTogether
  BY DEF WorkspaceInv
<1>2. QED
  BY <1>1, WorkspaceInvariant, PTL

\* The lists agree although each query is scoped by another join.
THEOREM ListsShowOwn == WorkspaceSpec => []ShownIsOwn
<1>1. WorkspaceInv => ShownIsOwn
  <2> SUFFICES ASSUME WorkspaceInv, NEW u \in users
               PROVE  /\ ListedProducts(u) = Viewable(u)
                      /\ \A j \in ShownProjects(u) : ProductsOf(j) \subseteq Viewable(u)
                      /\ \A p \in Viewable(u) : \A g \in GenerationsOf(p) : gen[g].user = u
                      /\ CountedFor(u) = UNION {CountedIn(j) : j \in ShownProjects(u)}
                      /\ {g \in Saved : gen[g].user = u /\ gen[g].kind # "analysis"}
                            = CountedFor(u) \cup AuditHistory(u)
                      /\ ShownLinks(u) \subseteq Viewable(u) \cup {None}
    BY DEF ShownIsOwn
  <2>1. WorkspaceTypes /\ \A p \in Rows : /\ project[product[p].project] = product[p].user
                                          /\ product[p].project \in Projects /\ p # None
    BY RowFacts DEF WorkspaceInv, ProductsHaveHomes
  <2>2. ListedProducts(u) = Owned(u) /\ Viewable(u) = Owned(u)
    BY <2>1 DEF ListedProducts, ShownProjects, Viewable, Owned
  <2>3. \A j \in ShownProjects(u) : ProductsOf(j) \subseteq Owned(u)
    BY <2>1 DEF ShownProjects, ProductsOf, Owned
  <2>4. \A g \in Saved :
           /\ g \in Requests /\ gen[g].kind \in {"product", "analysis", "audit"}
           /\ gen[g].kind # "product" => gen[g].product = None
           /\ gen[g].kind = "product" => gen[g].product \in Owned(gen[g].user)
    BY <2>1, RowFacts DEF Saved, WorkspaceInv, AskedInOwnProject, FiledTogether
  <2>5. \A g \in Saved, p \in Owned(u) : gen[g].product = p => gen[g].kind = "product" /\ gen[g].user = u
    BY <2>1, <2>4 DEF Owned
  <2>6. \A p \in Viewable(u) : \A g \in GenerationsOf(p) : gen[g].user = u
    BY <2>2, <2>5 DEF GenerationsOf
  <2>7. CountedFor(u) = UNION {CountedIn(j) : j \in ShownProjects(u)}
    <3>1. ASSUME NEW g \in CountedFor(u) PROVE \E j \in ShownProjects(u) : g \in CountedIn(j)
      <4>1. /\ g \in Saved /\ gen[g].product \in Rows /\ product[gen[g].product].user = u
        BY <3>1 DEF CountedFor, Owned
      <4>2. product[gen[g].product].project \in ShownProjects(u)
        BY <2>1, <4>1 DEF ShownProjects
      <4>3. g \in CountedIn(product[gen[g].product].project)
        BY <4>1 DEF CountedIn, ProductsOf
      <4>4. QED
        BY <4>2, <4>3
    <3>2. \A j \in ShownProjects(u) : CountedIn(j) \subseteq CountedFor(u)
      BY <2>3 DEF CountedIn, CountedFor
    <3>3. QED
      BY <3>1, <3>2
  <2>8. {g \in Saved : gen[g].user = u /\ gen[g].kind # "analysis"}
           = CountedFor(u) \cup AuditHistory(u)
    BY <2>4, <2>5 DEF CountedFor, AuditHistory
  <2>9. ShownLinks(u) \subseteq Owned(u) \cup {None}
    BY DEF ShownLinks, WorkspaceInv, TenantsApart, Of, Linked
  <2>10. QED
    BY <2>2, <2>3, <2>6, <2>7, <2>8, <2>9
<1>2. QED
  BY <1>1, WorkspaceInvariant, PTL
==================================================================================
