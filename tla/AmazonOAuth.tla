------------------------------ MODULE AmazonOAuth ------------------------------
(***************************************************************************)
(* How sellers are linked to users (services/amazon_oauth_service.py,      *)
(* amazon_oauth_state_store.py, amazon_account_service.py) and unlinked,   *)
(* also by the deletion of a user (user_account_deletion_service.py).  A   *)
(* callback spends its state in one transaction, awaits Amazon, and stores *)
(* the token in another.  An action is a transaction, or what of one runs  *)
(* up to a statement that others may overtake.  An account is named after  *)
(* the callback that created it, a refresh token after the one that got    *)
(* it.  Regions and the leases of syncs only refuse: see Persist.          *)
(***************************************************************************)

CONSTANTS
    Users, Sellers,
    States,     \* the states that can be issued
    Callbacks,  \* requests of /oauth/callback
    Deletions,  \* runs of delete_user_account, of any user and also of the same
    None        \* no account, no target, no deletion

ASSUME OAuthAssumption == None \notin Callbacks \cup [user : Users, left : SUBSET Callbacks, locks : BOOLEAN]

VARIABLES
    users,     \* the rows of users
    state,     \* amazon_oauth_states
    acct,      \* amazon_accounts
    cb,        \* per callback: where it is and what its handler holds
    deletion   \* per run of a deletion: whose, what it is still to disconnect, its lock

vars == <<users, state, acct, cb, deletion>>

\* A void state has expired or was deleted.
StateRows ==
    [status : {"pending", "consumed"}, user : Users, target : Callbacks \cup {None}]
    \cup [status : {"unused", "void"}]

Accounts == [user : Users, seller : Sellers, token : Callbacks]

Handlers ==
    [pc : {"new", "refused"}]
    \cup [pc : {"exchange", "persist", "insert", "done"}, state : States, claimed : Sellers,
          user : Users, target : Callbacks \cup {None}]

\* locks: it holds the row of the user, until a commit.
Runs == [user : Users, left : SUBSET Callbacks, locks : BOOLEAN]

Init ==
    /\ users = Users
    /\ state = [s \in States |-> [status |-> "unused"]]
    /\ acct = [a \in Callbacks |-> None]
    /\ cb = [c \in Callbacks |-> [pc |-> "new"]]
    /\ deletion = [d \in Deletions |-> None]

Running == {d \in Deletions : deletion[d] # None}

\* The users that a deletion has locked.
Held == {deletion[d].user : d \in {e \in Running : deletion[e].locks}}

Linked == {a \in Callbacks : acct[a] # None}

Of(u) == {a \in Linked : acct[a].user = u}

\* The state rows that remain when accounts, or a user, go: ON DELETE CASCADE.
Cascaded(us, as) ==
    [s \in States |->
        IF state[s].status \in {"pending", "consumed"} /\ (state[s].user \in us \/ state[s].target \in as)
        THEN [status |-> "void"] ELSE state[s]]

---------------------------------------------------------------------------
(* Start of an authorization                                                *)

\* What an intent may name: nothing to connect, an account of one's own to reauthorize.
Targets(u) == {None} \cup Of(u)

\* create_state: the row of a state whose token no other has.
Issue(u, s, target) ==
    /\ u \in users
    /\ state[s].status = "unused"
    /\ state' = [state EXCEPT ![s] =
          [status |-> "pending", user |-> u, target |-> target]]

\* start_authorization, whose reference to the user waits for a deletion's lock.
Start(u, s, target) ==
    /\ target \in Targets(u)
    /\ Issue(u, s, target) /\ u \notin Held
    /\ UNCHANGED <<users, acct, cb, deletion>>

---------------------------------------------------------------------------
(* The callback                                                             *)

\* Mutant of Consumable: only the time is compared.
ConsumableTwice(s) == state[s].status \in {"pending", "consumed"}

Consumable(s) == state[s].status = "pending"

\* consume_state and its commit.  The seller is the one the callback names.
Consume(c, s, seller) ==
    /\ cb[c].pc = "new"
    /\ IF Consumable(s)
       THEN /\ state' = [state EXCEPT ![s].status = "consumed"]
            /\ cb' = [cb EXCEPT ![c] =
                  [pc |-> "exchange", state |-> s, claimed |-> seller,
                   user |-> state[s].user, target |-> state[s].target]]
       ELSE cb' = [cb EXCEPT ![c] = [pc |-> "refused"]] /\ UNCHANGED state
    /\ UNCHANGED <<users, acct, deletion>>

\* Parameters that are missing or given twice, or an answer that says "error": the
\* callback is sent away before its state is looked at.
Misread(c) ==
    /\ cb[c].pc = "new"
    /\ cb' = [cb EXCEPT ![c] = [pc |-> "refused"]]
    /\ UNCHANGED <<users, state, acct, deletion>>

\* The commit raises although it took effect.
ConsumeInDoubt(c, s) ==
    /\ cb[c].pc = "new"
    /\ Consumable(s)
    /\ state' = [state EXCEPT ![s].status = "consumed"]
    /\ cb' = [cb EXCEPT ![c] = [pc |-> "refused"]]
    /\ UNCHANGED <<users, acct, deletion>>

\* What follows the callback that is over, or waits for its insertion.
Continue(c, pc) == cb' = [cb EXCEPT ![c].pc = pc]

\* exchange_authorization_code, or its failure.  Amazon does not say whose the token
\* is, and nothing asks: it is filed under the seller the callback names.
Exchange(c) ==
    /\ cb[c].pc = "exchange"
    /\ \E pc \in {"persist", "done"} : Continue(c, pc)
    /\ UNCHANGED <<users, state, acct, deletion>>

Rotate(c, a) == acct' = [acct EXCEPT ![a].token = c]

\* connect_account_from_oauth: the seller's account is locked, if there is one.
Connect(c) ==
    LET existing == {a \in Linked : acct[a].seller = cb[c].claimed}
    IN  \/ cb[c].user \in users /\ existing = {} /\ Continue(c, "insert") /\ UNCHANGED acct
        \/ /\ cb[c].user \in users
           /\ \E a \in existing : acct[a].user = cb[c].user /\ Rotate(c, a)
           /\ Continue(c, "done")

\* reauthorize_account_from_oauth: the target, still the user's and of that seller.
Reauthorize(c) ==
    LET a == cb[c].target
    IN  /\ a \in Of(cb[c].user) /\ acct[a].seller = cb[c].claimed
        /\ Rotate(c, a)
        /\ Continue(c, "done")
    /\ Continue(c, "done")

\* The second transaction.  It may also be refused: no user, somebody else's
\* account or none, another region, a sync that holds the lease, a failed commit.
Persist(c) ==
    /\ cb[c].pc = "persist"
    /\ \/ cb[c].target = None /\ Connect(c)
       \/ cb[c].target # None /\ Reauthorize(c)
       \/ Continue(c, "done") /\ UNCHANGED acct
    /\ UNCHANGED <<users, state, deletion>>

\* Mutant of Accepted: without the unique constraint.
AcceptedTwice(c) == cb[c].user \in users

\* uq_amazon_accounts_selling_partner_id and the reference to the user.
Accepted(c) ==
    /\ cb[c].user \in users
    /\ \A a \in Linked : acct[a].seller # cb[c].claimed

\* The insertion, with its commit.  The reference waits for a deletion's lock.
Insert(c) ==
    /\ cb[c].pc = "insert"
    /\ cb[c].user \notin Held
    /\ \/ /\ Accepted(c)
          /\ acct' = [acct EXCEPT ![c] =
                [user |-> cb[c].user, seller |-> cb[c].claimed, token |-> c]]
       \/ UNCHANGED acct
    /\ Continue(c, "done")
    /\ UNCHANGED <<users, state, deletion>>

---------------------------------------------------------------------------
(* Disconnection, and the deletion of a user                                *)

\* disconnect_account, a row that is there.
Remove(a) ==
    /\ acct' = [acct EXCEPT ![a] = None]
    /\ state' = Cascaded({}, {a})

Disconnect(a) ==
    /\ a \in Linked
    /\ Remove(a)
    /\ UNCHANGED <<users, cb, deletion>>

\* delete_user_account: the lock and the list of accounts.
DeleteBegin(d, u) ==
    /\ deletion[d] = None
    /\ u \in users \ Held
    /\ deletion' = [deletion EXCEPT ![d] = [user |-> u, left |-> Of(u), locks |-> TRUE]]
    /\ UNCHANGED <<users, state, acct, cb>>

\* Each disconnection commits, and gives the lock back: another run may take it.  An
\* account that is gone already is skipped without a commit.
DeleteAccount(d, a) ==
    /\ deletion[d] # None /\ a \in deletion[d].left
    /\ deletion' = [deletion EXCEPT ![d].left = @ \ {a}, ![d].locks = @ /\ a \notin Linked]
    /\ IF a \in Linked THEN Remove(a) ELSE UNCHANGED <<acct, state>>
    /\ UNCHANGED <<users, cb>>

\* The user goes, with what was linked meanwhile, unless another run was faster or
\* has the lock.
DeleteUser(d) ==
    /\ deletion[d] # None /\ deletion[d].left = {}
    /\ \E u \in users :
          /\ u = deletion[d].user
          /\ deletion[d].locks \/ u \notin Held
          /\ users' = users \ {u}
          /\ acct' = [a \in Callbacks |-> IF a \in Of(u) THEN None ELSE acct[a]]
          /\ state' = Cascaded({u}, Of(u))
    /\ deletion' = [deletion EXCEPT ![d] = None]
    /\ UNCHANGED cb

\* The script dies or a statement fails, as it does when the user is gone: it can be
\* run again.
DeleteStops(d) ==
    /\ deletion[d] # None
    /\ deletion' = [deletion EXCEPT ![d] = None]
    /\ UNCHANGED <<users, state, acct, cb>>

\* The time to live of a state is over.
Expire(s) ==
    /\ state[s].status = "pending"
    /\ state' = [state EXCEPT ![s] = [status |-> "void"]]
    /\ UNCHANGED <<users, acct, cb, deletion>>

Next ==
    \/ \E u \in Users, s \in States, t \in Callbacks \cup {None} : Start(u, s, t)
    \/ \E c \in Callbacks :
          \/ \E s \in States : ConsumeInDoubt(c, s) \/ \E x \in Sellers : Consume(c, s, x)
          \/ Misread(c) \/ Exchange(c) \/ Persist(c) \/ Insert(c)
    \/ \E a \in Callbacks : Disconnect(a)
    \/ \E d \in Deletions :
          \/ DeleteUser(d) \/ DeleteStops(d)
          \/ \E u \in Users : DeleteBegin(d, u)
          \/ \E a \in Callbacks : DeleteAccount(d, a)
    \/ \E s \in States : Expire(s)

Spec == Init /\ [][Next]_vars

---------------------------------------------------------------------------
(* Properties                                                               *)

TypeOK ==
    /\ users \subseteq Users
    /\ state \in [States -> StateRows]
    /\ acct \in [Callbacks -> Accounts \cup {None}]
    /\ cb \in [Callbacks -> Handlers]
    /\ deletion \in [Deletions -> Runs \cup {None}]

\* However often a callback is repeated, whatever fails after its state was
\* spent and whatever is deleted, a state pays for one exchange.
OneExchangePerState ==
    \A c, d \in {b \in Callbacks : cb[b].pc \notin {"new", "refused"}} :
        cb[c].state = cb[d].state => c = d

\* A seller has one account, of a user who exists.  Its token was exchanged by a
\* callback that named this seller, for a state that this very user had started, to
\* connect or to reauthorize this very account: whatever callbacks, disconnections and
\* deletions overlap, no token ends up with an account it was not asked for.  Which
\* seller granted the token is not known to the code, and nothing is said of it.
TokensBelong ==
    \A a \in Linked :
        LET token == cb[acct[a].token]
        IN  /\ acct[a].user \in users
            /\ token.user = acct[a].user
            /\ token.claimed = acct[a].seller
            /\ token.target \in {None, a}
            /\ \A b \in Linked \ {a} : acct[b].seller # acct[a].seller
================================================================================
