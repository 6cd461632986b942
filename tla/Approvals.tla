----------------------------- MODULE Approvals -----------------------------
(***************************************************************************)
(* The approval ledger and the gate it guards.  Every supervising process  *)
(* reads approvals.json once, when it starts; requests, confirmations,     *)
(* rejections and expiries then change its own copy; the supervised run    *)
(* starts only if that copy holds a valid approval; and when the run has   *)
(* been finalized the copy is written over the file, not atomically and    *)
(* without looking at what is there.  A process may be killed at any step. *)
(*                                                                         *)
(* The gate is that of one scope which the permission set does not grant   *)
(* outright; each process supervises one run, of the same name.            *)
(***************************************************************************)
EXTENDS Naturals

CONSTANTS
    Processes, \* the supervising processes, and their runs
    Requests,  \* the request ids there may be
    AnyRun,    \* the run_id of a request that is pinned to no run
    Never,     \* the expires_at of a request without one
    Blank,     \* a ledger that one process has emptied to write it
    Torn,      \* any other ledger that is not whole JSON
    MaxNeed,   \* bound: required_confirmations
    MaxClock,  \* bound: the clock
    MaxLives   \* bound: starts of a process

Statuses == {"pending", "approved", "rejected", "expired"}
Request == [confirmed : 0..MaxNeed, status : Statuses]
Books == UNION {[S -> Request] : S \in SUBSET Requests}
NoRequests == [r \in {} |-> [confirmed |-> 0, status |-> "pending"]]

ASSUME ApprovalsAssumption ==
    /\ MaxNeed \in Nat \ {0}
    /\ MaxClock \in Nat
    /\ MaxLives \in Nat
    /\ Never \notin Nat
    /\ AnyRun \notin Processes
    /\ Blank # Torn
    /\ Books \cap {Blank, Torn} = {}

VARIABLES
    ledger,  \* what approvals.json holds
    book,    \* book[p]: the requests p knows of
    terms,   \* what each request there is asks for, which never changes
    stage,   \* stage[p]: where p is
    lives,   \* lives[p]: starts of p
    clock,
    given,   \* history: given[r]: confirmations operators have given to r
    began,   \* history: the runs that began, on which approval and when
    refused, \* history: the requests rejected in a copy that was saved whole
    shared   \* history: two processes have held a copy at once

history == <<given, began, refused, shared>>
vars == <<ledger, book, terms, stage, lives, clock, history>>

Times == 0..MaxClock
Terms == [need : 1..MaxNeed, until : Times \cup {Never}, pin : Processes \cup {AnyRun}]
Beginning == [run : Processes, backing : Requests, at : Times, late : BOOLEAN]
Stages == {"off", "open", "finalizing", "writing"}

Init ==
    /\ ledger = NoRequests
    /\ book = [p \in Processes |-> NoRequests]
    /\ terms = [r \in {} |-> {}]
    /\ stage = [p \in Processes |-> "off"]
    /\ lives = [p \in Processes |-> 0]
    /\ clock = 0
    /\ given = [r \in Requests |-> 0]
    /\ began = {} /\ refused = {}
    /\ shared = FALSE

Become(p, st) == stage' = [stage EXCEPT ![p] = st]
Forget(p) == book' = [book EXCEPT ![p] = NoRequests]

-----------------------------------------------------------------------------
(* The registry in memory. *)

IsExpired(r) == terms[r].until # Never /\ clock >= terms[r].until

\* The request with another status.
As(request, status) == [confirmed |-> request.confirmed, status |-> status]

\* Slip: what has been approved does not expire.
ExpirePending(requests) ==
    [r \in DOMAIN requests |->
        IF requests[r].status = "pending" /\ IsExpired(r)
        THEN As(requests[r], "expired")
        ELSE requests[r]]

\* expire_stale, over the requests of a copy.
Expire(requests) ==
    [r \in DOMAIN requests |->
        IF requests[r].status \in {"pending", "approved"} /\ IsExpired(r)
        THEN As(requests[r], "expired")
        ELSE requests[r]]

\* Slip: the ledger that exists is not loaded.
OpenUnread(p) ==
    /\ stage[p] = "off"
    /\ lives[p] < MaxLives
    /\ ledger \notin {Blank, Torn}
    /\ Forget(p)
    /\ lives' = [lives EXCEPT ![p] = @ + 1]
    /\ shared' = (shared \/ \E q \in Processes : stage[q] # "off")
    /\ Become(p, "open")
    /\ UNCHANGED <<ledger, terms, clock, given, began, refused>>

\* __post_init__ and load; a ledger that is not whole raises, and no process
\* starts on it.
Open(p) ==
    /\ stage[p] = "off"
    /\ lives[p] < MaxLives
    /\ ledger \notin {Blank, Torn}
    /\ book' = [book EXCEPT ![p] = ledger]
    /\ lives' = [lives EXCEPT ![p] = @ + 1]
    /\ shared' = (shared \/ \E q \in Processes : stage[q] # "off")
    /\ Become(p, "open")
    /\ UNCHANGED <<ledger, terms, clock, given, began, refused>>

\* request_approval, under a fresh id.
RequestApproval(p, r) ==
    /\ stage[p] = "open"
    /\ r \notin DOMAIN terms
    /\ \E asked \in Terms : terms' = [q \in DOMAIN terms \cup {r} |-> IF q = r THEN asked ELSE terms[q]]
    /\ LET fresh == [confirmed |-> 0, status |-> "pending"]
       IN  book' = [book EXCEPT ![p] = [q \in DOMAIN @ \cup {r} |-> IF q = r THEN fresh ELSE @[q]]]
    /\ UNCHANGED <<ledger, stage, lives, clock, history>>

\* approve adds a confirmation, which is the decision when none is missing.
Confirmed(r, request) ==
    [confirmed |-> request.confirmed + 1,
     status |-> IF request.confirmed + 1 >= terms[r].need THEN "approved" ELSE request.status]

\* _pending expires first; what is then no longer pending is refused.
Approve(p, r) ==
    LET requests == Expire(book[p])
    IN  /\ stage[p] = "open"
        /\ r \in DOMAIN requests
        /\ \/ /\ requests[r].status = "pending"
              /\ book' = [book EXCEPT ![p] = [requests EXCEPT ![r] = Confirmed(r, requests[r])]]
              /\ given' = [given EXCEPT ![r] = @ + 1]
           \/ /\ requests[r].status # "pending"
              /\ book' = [book EXCEPT ![p] = requests]
              /\ UNCHANGED given
        /\ UNCHANGED <<ledger, terms, stage, lives, clock, began, refused, shared>>

\* reject: the same, and one word is enough.
Reject(p, r) ==
    LET requests == Expire(book[p])
    IN  /\ stage[p] = "open"
        /\ r \in DOMAIN requests
        /\ book' = [book EXCEPT ![p] =
                      IF requests[r].status = "pending"
                      THEN [requests EXCEPT ![r] = As(@, "rejected")] ELSE requests]
        /\ UNCHANGED <<ledger, terms, stage, lives, clock, history>>

-----------------------------------------------------------------------------
(* The gate, and the end of the run. *)

\* is_approved: an approved request, for this run or for none in particular.
Backing(p, requests) ==
    {r \in DOMAIN requests : requests[r].status = "approved" /\ terms[r].pin \in {p, AnyRun}}

\* _governance_pre_run: with a valid approval the run begins, and is later
\* finalized; without one it is finalized at once.
Gate(p) ==
    LET requests == Expire(book[p])
        backing == Backing(p, requests)
    IN  /\ stage[p] = "open"
        /\ book' = [book EXCEPT ![p] = requests]
        /\ \/ backing = {} /\ UNCHANGED began
           \/ \E r \in backing :
                began' = began \cup {[run |-> p, backing |-> r, at |-> clock, late |-> r \in refused]}
        /\ Become(p, "finalizing")
        /\ UNCHANGED <<ledger, terms, lives, clock, given, refused, shared>>

\* save, by _governance_post_run, which has listed the approvals in use and
\* so expired the stale ones, or by an operator's tool: open(target, "w") ...
OpenLedger(p) ==
    /\ stage[p] \in {"open", "finalizing"}
    /\ book' = IF stage[p] = "open" THEN book ELSE [book EXCEPT ![p] = Expire(@)]
    /\ ledger' = IF \E q \in Processes : stage[q] = "writing" THEN Torn ELSE Blank
    /\ Become(p, "writing")
    /\ UNCHANGED <<terms, lives, clock, history>>

Rejected(requests) == {r \in DOMAIN requests : requests[r].status = "rejected"}

\* ... and the dump, which may end up among what another process has written.
WriteLedger(p) ==
    /\ stage[p] = "writing"
    /\ \/ /\ ledger' = book[p]
          /\ refused' = refused \cup Rejected(book[p])
       \/ /\ ledger # Blank
          /\ ledger' = Torn
          /\ UNCHANGED refused
    /\ Forget(p)
    /\ Become(p, "off")
    /\ UNCHANGED <<terms, lives, clock, given, began, shared>>

Kill(p) ==
    /\ stage[p] # "off"
    /\ Forget(p)
    /\ Become(p, "off")
    /\ UNCHANGED <<ledger, terms, lives, clock, history>>

Tick ==
    /\ clock < MaxClock
    /\ clock' = clock + 1
    /\ UNCHANGED <<ledger, book, terms, stage, lives, history>>

Process(p) ==
    \/ Open(p)
    \/ \E r \in Requests : RequestApproval(p, r) \/ Approve(p, r) \/ Reject(p, r)
    \/ Gate(p) \/ OpenLedger(p) \/ WriteLedger(p) \/ Kill(p)

Next == Tick \/ \E p \in Processes : Process(p)

Spec == Init /\ [][Next]_vars

-----------------------------------------------------------------------------
(* Properties. *)

\* Every variable has its type.
TypeOK ==
    /\ ledger \in Books \cup {Blank, Torn}
    /\ book \in [Processes -> Books]
    /\ DOMAIN terms \subseteq Requests
    /\ terms \in [DOMAIN terms -> Terms]
    /\ stage \in [Processes -> Stages]
    /\ lives \in [Processes -> 0..MaxLives]
    /\ clock \in Times
    /\ given \in [Requests -> Nat]
    /\ began \subseteq Beginning
    /\ refused \subseteq Requests
    /\ shared \in BOOLEAN

\* Whatever copies overwrite each other, a run only ever begins on a request
\* that operators have confirmed as often as it asks for, before it expired,
\* and that is pinned to no other run (is_approved at the gate).
RunsBacked ==
    \A b \in began :
        LET asked == terms[b.backing]
        IN  /\ b.backing \in DOMAIN terms
            /\ given[b.backing] >= asked.need
            /\ asked.until # Never => b.at < asked.until
            /\ asked.pin \in {b.run, AnyRun}

\* As long as no two processes hold a copy at once, a rejection that was saved
\* stands: the ledger, whenever it can be read, says so, and no run begins on
\* the request any more, wherever a process is killed.
RejectionStands ==
    ~shared =>
        /\ ledger \notin {Blank, Torn} =>
              \A r \in refused : r \in DOMAIN ledger /\ ledger[r].status = "rejected"
        /\ \A b \in began : ~b.late
=============================================================================
