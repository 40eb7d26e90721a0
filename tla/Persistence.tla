---------------------------- MODULE Persistence -----------------------------
(***************************************************************************)
(* PersistenceCoordinator.execute over RepositoryCoordinator and           *)
(* TransactionManager (packages/rss/src/persistence): calls that share one *)
(* coordinator, and with it one stack of transaction contexts.             *)
(*                                                                         *)
(* A call awaits its event listeners and its repositories, and other calls *)
(* run meanwhile.  Repositories and listeners are the caller's.  The       *)
(* repositories are executed one after the other, in the order of          *)
(* orderTargets; a target is its place in that order.  Commit and rollback *)
(* reach no repository, so what one has written stays written.             *)
(***************************************************************************)
EXTENDS Naturals, Sequences

CONSTANTS
    Calls,
    Targets,       \* the number of repositories of a call
    IdOf,          \* transactionOptions.id, or a UUID of the call's own
    Within,        \* the call whose repository makes this call, or NoCall
    NoCall

ASSUME TargetAssumption == Targets \in Nat \ {0}
ASSUME WithinAssumption ==
    /\ NoCall \notin Calls
    /\ Within \in [Calls -> Calls \cup {NoCall}]
\* Bound: a call made in a repository makes none itself.
ASSUME DepthAssumption ==
    \A c \in Calls : Within[c] # NoCall => Within[Within[c]] = NoCall

VARIABLES
    stack,   \* the calls whose contexts are on the stack, innermost last
    pc,      \* what each call awaits, or how it ended
    parent,  \* the call whose context a call's context names as its parent
    wrote,   \* the number of repositories a call has executed
    log,     \* history: the contexts opened and committed, in order
    serene   \* history: no call has begun beside another, and no listener rejected

callVars == <<stack, pc, parent, wrote, log, serene>>

Ended == {"invalid", "thrown", "failure", "success"}

CallTypeOK ==
    /\ stack \in Seq(Calls)
    /\ pc \in [Calls -> {"new", "opened", "started", "event", "repository",
                         "commit", "committed", "rollback", "rolledback"} \cup Ended]
    /\ parent \in [Calls -> Calls \cup {NoCall}]
    /\ wrote \in [Calls -> 0..Targets]
    /\ log \in Seq({"begin", "commit"} \X Calls)
    /\ serene \in BOOLEAN

CallInit ==
    /\ stack = <<>>
    /\ pc = [c \in Calls |-> "new"]
    /\ parent = [c \in Calls |-> NoCall]
    /\ wrote = [c \in Calls |-> 0]
    /\ log = <<>>
    /\ serene = TRUE

Goto(c, label) == pc' = [pc EXCEPT ![c] = label]

Running(c) == pc[c] \notin {"new"} \cup Ended

\* A call from within a repository is made while that repository executes.
MayCall(c) == Within[c] # NoCall => pc[Within[c]] = "repository"

\* TransactionManager's check of commit and rollback
IsTop(c) == stack # <<>> /\ IdOf[stack[Len(stack)]] = IdOf[c]

Pop == stack' = SubSeq(stack, 1, Len(stack) - 1)

Top == IF stack = <<>> THEN NoCall ELSE stack[Len(stack)]

------------------------------------------------------------------------------

\* No plan or no repositories
Invalid(c) ==
    /\ pc[c] = "new"
    /\ MayCall(c)
    /\ Goto(c, "invalid")
    /\ UNCHANGED <<stack, parent, wrote, log, serene>>

\* TransactionManager.begin, and the event 'transaction-opened'.  A call from
\* within a repository hands on the context the repository was given.
Begin(c) ==
    /\ pc[c] = "new"
    /\ MayCall(c)
    /\ stack' = Append(stack, c)
    /\ parent' = [parent EXCEPT ![c] = IF Within[c] # NoCall THEN Within[c] ELSE Top]
    /\ log' = Append(log, <<"begin", c>>)
    /\ Goto(c, "opened")
    /\ serene' = (serene /\ \A d \in Calls : Running(d) => d = Within[c])
    /\ UNCHANGED wrote

\* That event is delivered before the try.
OpenedThrows(c) ==
    /\ pc[c] = "opened"
    /\ Goto(c, "thrown")
    /\ serene' = FALSE
    /\ UNCHANGED <<stack, parent, wrote, log>>

\* A listener returns from 'transaction-opened', 'persistence-started' or
\* 'repository-executed'.
Delivered(c) ==
    /\ \/ pc[c] = "opened" /\ Goto(c, "started")
       \/ pc[c] = "started" /\ Goto(c, "event")
       \/ pc[c] = "event" /\ Goto(c, "repository")
    /\ UNCHANGED <<stack, parent, wrote, log, serene>>

\* A listener rejects 'persistence-started', 'repository-executed',
\* 'commit-completed' or 'persistence-completed'.
ListenerThrows(c) ==
    /\ pc[c] \in {"started", "event", "committed"}
    /\ Goto(c, "rollback")
    /\ serene' = FALSE
    /\ UNCHANGED <<stack, parent, wrote, log>>

\* A repository answers when the calls it has made have.
Answers(c) ==
    /\ pc[c] = "repository"
    /\ \A d \in Calls : Within[d] = c => ~Running(d)

Execute(c) ==
    /\ Answers(c)
    /\ wrote' = [wrote EXCEPT ![c] = wrote[c] + 1]
    /\ Goto(c, IF wrote[c] + 1 = Targets THEN "commit" ELSE "event")
    /\ UNCHANGED <<stack, parent, log, serene>>

\* Mutant: the repositories after the one that fails are executed.
ExecuteGoesOn(c) ==
    /\ Answers(c)
    /\ Goto(c, IF wrote[c] + 1 = Targets THEN "commit" ELSE "event")
    /\ UNCHANGED <<stack, parent, wrote, log, serene>>

\* The loop is left and the report says which entity failed.
ExecuteFails(c) ==
    /\ Answers(c)
    /\ Goto(c, "rollback")
    /\ UNCHANGED <<stack, parent, wrote, log, serene>>

\* Mutant: the innermost context is taken for the call's.
CommitTop(c) ==
    /\ pc[c] = "commit"
    /\ IF stack # <<>>
       THEN Pop /\ log' = Append(log, <<"commit", c>>) /\ Goto(c, "committed")
       ELSE UNCHANGED <<stack, log>> /\ Goto(c, "rollback")
    /\ UNCHANGED <<parent, wrote, serene>>

Commit(c) ==
    /\ pc[c] = "commit"
    /\ IF IsTop(c)
       THEN Pop /\ log' = Append(log, <<"commit", c>>) /\ Goto(c, "committed")
       ELSE UNCHANGED <<stack, log>> /\ Goto(c, "rollback")
    /\ UNCHANGED <<parent, wrote, serene>>

\* Mutant: the rollback waits its turn.
RollbackWaits(c) ==
    /\ pc[c] = "rollback"
    /\ IsTop(c)
    /\ Pop
    /\ Goto(c, "rolledback")
    /\ UNCHANGED <<parent, wrote, log, serene>>

\* The catch: RollbackFailureError leaves it if another context is innermost.
Rollback(c) ==
    /\ pc[c] = "rollback"
    /\ IF IsTop(c) THEN Pop /\ Goto(c, "rolledback")
                   ELSE UNCHANGED stack /\ Goto(c, "thrown")
    /\ UNCHANGED <<parent, wrote, log, serene>>

\* The last events, and the result
Answer(c) ==
    /\ \/ pc[c] = "committed" /\ Goto(c, "success") /\ UNCHANGED serene
       \/ pc[c] = "rolledback" /\ Goto(c, "failure") /\ UNCHANGED serene
       \/ pc[c] = "rolledback" /\ Goto(c, "thrown") /\ serene' = FALSE
    /\ UNCHANGED <<stack, parent, wrote, log>>

\* The steps of a call that has begun
Proceed(c) ==
    \/ Delivered(c) \/ OpenedThrows(c) \/ ListenerThrows(c)
    \/ Execute(c) \/ ExecuteFails(c)
    \/ Commit(c) \/ Rollback(c) \/ Answer(c)

CallsAtRest ==
    /\ \A c \in Calls : ~Running(c)
    /\ UNCHANGED callVars

CallNext ==
    \/ \E c \in Calls : Invalid(c) \/ Begin(c) \/ Proceed(c)
    \/ CallsAtRest

CallSpec == CallInit /\ [][CallNext]_callVars

\* Node resumes every call whose promise is settled, and the repositories and
\* listeners settle theirs.
FairCallSpec == CallSpec /\ \A c \in Calls : WF_callVars(Proceed(c))

------------------------------------------------------------------------------
(* Properties *)

\* As long as calls do not overlap and listeners do not reject, a call answers
\* what it wrote: success if every repository was executed, a failure with a
\* rollback summary if not, and no exception.
ExactAnswers ==
    serene => \A c \in Calls :
        /\ pc[c] # "thrown"
        /\ pc[c] = "success" <=> pc[c] \in Ended /\ wrote[c] = Targets

\* As long as they do not, a context names as its parent the call it was made
\* in, and no other: the calls before it took their contexts with them.
ParentEncloses ==
    serene => \A c \in Calls :
                  pc[c] \notin {"new", "invalid"} => parent[c] = Within[c]

\* However calls overlap, the transactions that commit are nested or one after
\* the other: none commits between the begin and the commit of another that
\* began before the begin of the first.
SuccessesNest ==
    \A c, d \in Calls : \A i, j, k, l \in DOMAIN log :
        ~ /\ i < j /\ j < k /\ k < l
          /\ log[i] = <<"begin", c>> /\ log[j] = <<"begin", d>>
          /\ log[k] = <<"commit", c>> /\ log[l] = <<"commit", d>>

\* A call that answers success has executed all its repositories, whatever
\* rejected in the calls around it.
SuccessIsWhole ==
    \A c \in Calls : pc[c] \in {"committed", "success"} => wrote[c] = Targets

\* A refused commit or rollback never leaves a call waiting: each call that
\* begins ends.
CallsEnd == \A c \in Calls : pc[c] = "opened" ~> pc[c] \in Ended

\* Whatever rejects and however calls overlap, the manager's one stack makes no
\* success of a call that did not write all it was given; and as long as they do
\* not, the answers are exact and the contexts nest as the calls do.
CallsAreWhole == CallTypeOK /\ ExactAnswers /\ ParentEncloses /\ SuccessesNest /\ SuccessIsWhole
==============================================================================
