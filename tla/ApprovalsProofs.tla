-------------------------- MODULE ApprovalsProofs --------------------------
(***************************************************************************)
(* Proofs about Approvals, for any number of processes and requests.       *)
(***************************************************************************)
EXTENDS Approvals, TLAPS

\* What a copy says of its requests agrees with what they ask for and with
\* what operators have given them.
Agrees(copy) ==
    \A r \in DOMAIN copy :
        /\ r \in DOMAIN terms
        /\ copy[r].confirmed <= given[r]
        /\ copy[r].status = "pending" => copy[r].confirmed < terms[r].need
        /\ copy[r].status = "approved" => copy[r].confirmed >= terms[r].need

CopiesAgree ==
    /\ ledger \in Books => Agrees(ledger)
    /\ \A p \in Processes : Agrees(book[p])

\* A copy that tells of every rejection that was saved.
Firm(copy) == \A r \in refused : r \in DOMAIN copy /\ copy[r].status = "rejected"

Rejections ==
    ~shared =>
        /\ \A p, q \in Processes : stage[p] # "off" /\ stage[q] # "off" => p = q
        /\ \A p \in Processes : stage[p] # "off" => Firm(book[p])
        /\ ledger \in Books => Firm(ledger)
        /\ \A b \in began : ~b.late

IInv == TypeOK /\ CopiesAgree /\ RunsBacked /\ Rejections

-----------------------------------------------------------------------------
(* Books, and what expiry leaves of them. *)

LEMMA BooksHaveRequests ==
    ASSUME NEW b \in Books
    PROVE  /\ DOMAIN b \subseteq Requests
           /\ b \in [DOMAIN b -> Request]
           /\ \A r \in DOMAIN b : b[r].confirmed \in 0..MaxNeed /\ b[r].status \in Statuses
BY DEF Books, Request

LEMMA FunctionsAreBooks ==
    ASSUME NEW S \in SUBSET Requests, NEW b \in [S -> Request]
    PROVE  b \in Books
BY DEF Books

LEMMA NoRequestsAreABook ==
    NoRequests \in Books /\ DOMAIN NoRequests = {}
<1>1. NoRequests \in [{} -> Request] /\ DOMAIN NoRequests = {}
    BY DEF NoRequests
<1> QED
    BY <1>1, FunctionsAreBooks

\* expire_stale changes no confirmation and takes back nothing but requests
\* that are pending or approved; what it leaves approved has not run out.
LEMMA ExpireOnlyExpires ==
    ASSUME NEW b \in Books
    PROVE  /\ Expire(b) \in Books
           /\ DOMAIN Expire(b) = DOMAIN b
           /\ \A r \in DOMAIN b :
                /\ Expire(b)[r].confirmed = b[r].confirmed
                /\ Expire(b)[r].status \in {b[r].status, "expired"}
                /\ b[r].status = "rejected" => Expire(b)[r].status = "rejected"
                /\ Expire(b)[r].status = "approved" => ~IsExpired(r)
<1> DEFINE e == Expire(b)
<1>1. /\ DOMAIN b \subseteq Requests
      /\ b \in [DOMAIN b -> Request]
    BY BooksHaveRequests
<1>2. DOMAIN e = DOMAIN b
    BY DEF Expire
<1>3. ASSUME NEW r \in DOMAIN b
      PROVE  /\ e[r] \in Request
             /\ e[r].confirmed = b[r].confirmed
             /\ e[r].status \in {b[r].status, "expired"}
             /\ b[r].status = "rejected" => e[r].status = "rejected"
             /\ e[r].status = "approved" => ~IsExpired(r)
    <2>1. b[r] \in Request
        BY <1>1
    <2>2. CASE b[r].status \in {"pending", "approved"} /\ IsExpired(r)
        <3>1. e[r] = As(b[r], "expired")
            BY <2>2 DEF Expire
        <3> QED
            BY <2>1, <2>2, <3>1 DEF As, Request, Statuses
    <2>3. CASE ~(b[r].status \in {"pending", "approved"} /\ IsExpired(r))
        <3>1. e[r] = b[r]
            BY <2>3 DEF Expire
        <3> QED
            BY <2>1, <2>3, <3>1
    <2> QED
        BY <2>2, <2>3
<1>4. e \in [DOMAIN b -> Request]
    BY <1>3 DEF Expire
<1>5. e \in Books
    BY <1>1, <1>4, FunctionsAreBooks
<1> QED
    BY <1>2, <1>3, <1>5

\* A copy that agrees does so after its requests have expired.
LEMMA ExpiredAgrees ==
    ASSUME NEW b \in Books, Agrees(b)
    PROVE  Agrees(Expire(b))
BY ExpireOnlyExpires DEF Agrees

LEMMA ExpiredFirm ==
    ASSUME NEW b \in Books, Firm(b)
    PROVE  Firm(Expire(b))
BY ExpireOnlyExpires DEF Firm

-----------------------------------------------------------------------------
(* Types. *)

\* A change of one copy by a step of its process.
LEMMA OneBookTypes ==
    ASSUME TypeOK, NEW p \in Processes, NEW b \in Books, book' = [book EXCEPT ![p] = b]
    PROVE  book' \in [Processes -> Books] /\ book'[p] = b /\ \A q \in Processes : q # p => book'[q] = book[q]
BY DEF TypeOK

\* What a confirmation or a rejection makes of a copy whose stale requests are expired.
LEMMA SetRequest ==
    ASSUME NEW b \in Books, NEW r \in DOMAIN b, NEW request \in Request
    PROVE  /\ [b EXCEPT ![r] = request] \in Books
           /\ DOMAIN [b EXCEPT ![r] = request] = DOMAIN b
           /\ [b EXCEPT ![r] = request][r] = request
           /\ \A q \in DOMAIN b : q # r => [b EXCEPT ![r] = request][q] = b[q]
<1>1. DOMAIN b \subseteq Requests /\ b \in [DOMAIN b -> Request]
    BY BooksHaveRequests
<1>2. [b EXCEPT ![r] = request] \in [DOMAIN b -> Request]
    BY <1>1
<1>3. [b EXCEPT ![r] = request] \in Books
    BY <1>1, <1>2, FunctionsAreBooks
<1> QED
    BY <1>1, <1>3

\* The request a confirmation leaves is one, as long as one was missing.
LEMMA ConfirmedIsRequest ==
    ASSUME NEW request \in Request, NEW r, terms[r] \in Terms, request.confirmed < terms[r].need
    PROVE  /\ Confirmed(r, request) \in Request
           /\ Confirmed(r, request).confirmed = request.confirmed + 1
           /\ Confirmed(r, request).status = IF request.confirmed + 1 >= terms[r].need THEN "approved" ELSE request.status
<1>1. /\ request.confirmed \in 0..MaxNeed /\ request.status \in Statuses
      /\ terms[r].need \in 1..MaxNeed
    BY DEF Request, Terms
<1>2. request.confirmed + 1 \in 0..MaxNeed
    BY <1>1, ApprovalsAssumption
<1> QED
    BY <1>1, <1>2 DEF Confirmed, Request, Statuses

LEMMA InitTypes == Init => TypeOK
<1> SUFFICES ASSUME Init PROVE TypeOK
    OBVIOUS
<1>1. book \in [Processes -> Books] /\ ledger \in Books
    BY NoRequestsAreABook DEF Init
<1>2. DOMAIN terms = {} /\ terms \in [{} -> Terms]
    BY DEF Init
<1>3. clock \in Times /\ lives \in [Processes -> 0..MaxLives]
    BY ApprovalsAssumption DEF Init, Times
<1>4. given \in [Requests -> Nat] /\ stage \in [Processes -> Stages]
    BY DEF Init, Stages
<1> QED
    BY <1>1, <1>2, <1>3, <1>4 DEF Init, TypeOK

LEMMA RequestTypes ==
    ASSUME TypeOK, NEW p \in Processes, NEW r \in Requests, RequestApproval(p, r)
    PROVE  TypeOK'
<1>1. PICK asked \in Terms : terms' = [q \in DOMAIN terms \cup {r} |-> IF q = r THEN asked ELSE terms[q]]
    BY DEF RequestApproval
<1>2. DOMAIN terms' = DOMAIN terms \cup {r} /\ terms' \in [DOMAIN terms' -> Terms]
    BY <1>1 DEF TypeOK
<1> DEFINE fresh == [confirmed |-> 0, status |-> "pending"]
           b == [q \in DOMAIN book[p] \cup {r} |-> IF q = r THEN fresh ELSE book[p][q]]
<1>3. fresh \in Request
    BY ApprovalsAssumption DEF Request, Statuses
<1>4. book[p] \in Books
    BY DEF TypeOK
<1>5. b \in [DOMAIN book[p] \cup {r} -> Request]
    BY <1>3, <1>4, BooksHaveRequests
<1>6. b \in Books
    BY <1>4, <1>5, BooksHaveRequests, FunctionsAreBooks
<1>7. book' = [book EXCEPT ![p] = b]
    BY DEF RequestApproval
<1>8. book' \in [Processes -> Books]
    BY <1>6, <1>7, OneBookTypes
<1> QED
    BY <1>2, <1>8 DEF TypeOK, RequestApproval, history

\* What approve does to a copy, in either case.
LEMMA ApproveBook ==
    ASSUME TypeOK, CopiesAgree, NEW p \in Processes, NEW r \in Requests, Approve(p, r)
    PROVE  LET b == Expire(book[p])
           IN  /\ b \in Books /\ r \in DOMAIN b /\ b[r] \in Request /\ Agrees(b)
               /\ \/ /\ b[r].status = "pending" /\ b[r].confirmed < terms[r].need /\ terms[r] \in Terms
                     /\ book' = [book EXCEPT ![p] = [b EXCEPT ![r] = Confirmed(r, b[r])]]
                     /\ given' = [given EXCEPT ![r] = @ + 1]
                  \/ book' = [book EXCEPT ![p] = b] /\ given' = given
<1> DEFINE b == Expire(book[p])
<1>1. book[p] \in Books
    BY DEF TypeOK
<1>2. b \in Books /\ DOMAIN b = DOMAIN book[p]
    BY <1>1, ExpireOnlyExpires
<1>3. r \in DOMAIN b
    BY DEF Approve
<1>4. b[r] \in Request
    BY <1>2, <1>3, BooksHaveRequests
<1>5. Agrees(b)
    BY <1>1, ExpiredAgrees DEF CopiesAgree
<1>6. r \in DOMAIN terms /\ terms[r] \in Terms /\ (b[r].status = "pending" => b[r].confirmed < terms[r].need)
    BY <1>3, <1>5 DEF Agrees, TypeOK
<1> HIDE DEF b
<1>7. \/ /\ b[r].status = "pending"
         /\ book' = [book EXCEPT ![p] = [b EXCEPT ![r] = Confirmed(r, b[r])]]
         /\ given' = [given EXCEPT ![r] = @ + 1]
      \/ /\ book' = [book EXCEPT ![p] = b]
         /\ given' = given
    BY DEF Approve, b
<1>8. /\ b \in Books /\ r \in DOMAIN b /\ b[r] \in Request /\ Agrees(b)
      /\ \/ /\ b[r].status = "pending" /\ b[r].confirmed < terms[r].need /\ terms[r] \in Terms
            /\ book' = [book EXCEPT ![p] = [b EXCEPT ![r] = Confirmed(r, b[r])]]
            /\ given' = [given EXCEPT ![r] = @ + 1]
         \/ book' = [book EXCEPT ![p] = b] /\ given' = given
    BY <1>2, <1>3, <1>4, <1>5, <1>6, <1>7
<1> QED
    BY <1>8 DEF b

\* And what reject does.
LEMMA RejectBook ==
    ASSUME TypeOK, NEW p \in Processes, NEW r \in Requests, Reject(p, r)
    PROVE  LET b == Expire(book[p])
           IN  /\ b \in Books /\ r \in DOMAIN b /\ b[r] \in Request /\ As(b[r], "rejected") \in Request
               /\ book' = [book EXCEPT ![p] =
                             IF b[r].status = "pending" THEN [b EXCEPT ![r] = As(b[r], "rejected")] ELSE b]
<1> DEFINE b == Expire(book[p])
<1>1. b \in Books
    BY ExpireOnlyExpires DEF TypeOK
<1>2. r \in DOMAIN b
    BY DEF Reject
<1>3. b[r] \in Request
    BY <1>1, <1>2, BooksHaveRequests
<1>4. As(b[r], "rejected") \in Request
    BY <1>3 DEF As, Request, Statuses
<1> QED
    BY <1>1, <1>2, <1>3, <1>4 DEF Reject

LEMMA TypesKept == TypeOK /\ CopiesAgree /\ [Next]_vars => TypeOK'
<1> SUFFICES ASSUME TypeOK, CopiesAgree, [Next]_vars PROVE TypeOK'
    OBVIOUS
<1>1. CASE UNCHANGED vars
    BY <1>1 DEF vars, history, TypeOK
<1>2. CASE Tick
    BY <1>2, ApprovalsAssumption DEF Tick, history, TypeOK, Times
<1>3. ASSUME NEW p \in Processes, Process(p) PROVE TypeOK'
    <2>1. CASE Open(p)
        <3>1. ledger \in Books
            BY <2>1 DEF Open, TypeOK
        <3>2. book' \in [Processes -> Books]
            BY <2>1, <3>1 DEF Open, TypeOK
        <3>3. lives' \in [Processes -> 0..MaxLives]
            BY <2>1, ApprovalsAssumption DEF Open, TypeOK
        <3>4. stage' \in [Processes -> Stages]
            BY <2>1 DEF Open, TypeOK, Become, Stages
        <3> QED
            BY <2>1, <3>2, <3>3, <3>4 DEF Open, TypeOK
    <2>2. ASSUME NEW r \in Requests, RequestApproval(p, r) PROVE TypeOK'
        BY <2>2, RequestTypes
    <2>3. ASSUME NEW r \in Requests, Approve(p, r) PROVE TypeOK'
        <3> DEFINE b == Expire(book[p])
        <3>1. /\ b \in Books /\ r \in DOMAIN b /\ b[r] \in Request
              /\ \/ /\ b[r].confirmed < terms[r].need /\ terms[r] \in Terms
                    /\ book' = [book EXCEPT ![p] = [b EXCEPT ![r] = Confirmed(r, b[r])]]
                    /\ given' = [given EXCEPT ![r] = @ + 1]
                 \/ book' = [book EXCEPT ![p] = b] /\ given' = given
            BY <2>3, ApproveBook
        <3> HIDE DEF b
        <3>2. b[r].confirmed < terms[r].need /\ terms[r] \in Terms => Confirmed(r, b[r]) \in Request
            BY <3>1, ConfirmedIsRequest
        <3>3. book' \in [Processes -> Books]
            BY <3>1, <3>2, SetRequest, OneBookTypes
        <3>4. given' \in [Requests -> Nat]
            BY <3>1 DEF TypeOK
        <3> QED
            BY <2>3, <3>3, <3>4 DEF Approve, TypeOK
    <2>4. ASSUME NEW r \in Requests, Reject(p, r) PROVE TypeOK'
        <3>1. book' \in [Processes -> Books]
            BY <2>4, RejectBook, SetRequest, OneBookTypes
        <3> QED
            BY <2>4, <3>1 DEF Reject, TypeOK, history
    <2>5. CASE Gate(p)
        <3>1. Expire(book[p]) \in Books
            BY ExpireOnlyExpires DEF TypeOK
        <3>2. book' \in [Processes -> Books]
            BY <2>5, <3>1, OneBookTypes DEF Gate
        <3>3. stage' \in [Processes -> Stages]
            BY <2>5 DEF Gate, TypeOK, Become, Stages
        <3>4. Backing(p, Expire(book[p])) \subseteq Requests
            BY <3>1, BooksHaveRequests DEF Backing
        <3>5. began' \subseteq Beginning
            <4>1. ASSUME NEW r \in Requests
                  PROVE  [run |-> p, backing |-> r, at |-> clock, late |-> r \in refused] \in Beginning
                <5>1. (r \in refused) \in BOOLEAN
                    OBVIOUS
                <5>2. clock \in Times
                    BY DEF TypeOK
                <5> QED
                    BY <4>1, <5>1, <5>2, Zenon DEF Beginning
            <4>2. began \subseteq Beginning
                BY DEF TypeOK
            <4>3. \/ began' = began
                  \/ \E r \in Backing(p, Expire(book[p])) :
                        began' = began \cup {[run |-> p, backing |-> r, at |-> clock, late |-> r \in refused]}
                BY <2>5, Zenon DEF Gate
            <4>4. CASE began' = began
                BY <4>2, <4>4
            <4>5. ASSUME NEW r \in Backing(p, Expire(book[p])),
                         began' = began \cup {[run |-> p, backing |-> r, at |-> clock, late |-> r \in refused]}
                  PROVE  began' \subseteq Beginning
                <5>1. [run |-> p, backing |-> r, at |-> clock, late |-> r \in refused] \in Beginning
                    BY <3>4, <4>1, Zenon
                <5> QED
                    BY <4>2, <4>5, <5>1, Zenon
            <4> QED
                BY <4>3, <4>4, <4>5, Zenon
        <3> QED
            BY <2>5, <3>2, <3>3, <3>5 DEF Gate, TypeOK
    <2>6. CASE OpenLedger(p)
        <3>1. Expire(book[p]) \in Books
            BY ExpireOnlyExpires DEF TypeOK
        <3>2. book' \in [Processes -> Books]
            BY <2>6, <3>1, OneBookTypes DEF OpenLedger, TypeOK
        <3>3. stage' \in [Processes -> Stages]
            BY <2>6 DEF OpenLedger, TypeOK, Become, Stages
        <3> QED
            BY <2>6, <3>2, <3>3 DEF OpenLedger, TypeOK, history
    <2>7. CASE WriteLedger(p)
        <3>1. book' \in [Processes -> Books]
            BY <2>7, NoRequestsAreABook, OneBookTypes DEF WriteLedger, Forget
        <3>2. stage' \in [Processes -> Stages]
            BY <2>7 DEF WriteLedger, TypeOK, Become, Stages
        <3>3. Rejected(book[p]) \subseteq Requests /\ book[p] \in Books
            BY BooksHaveRequests DEF TypeOK, Rejected
        <3>4. ledger' \in Books \cup {Blank, Torn} /\ refused' \subseteq Requests
            BY <2>7, <3>3 DEF WriteLedger, TypeOK
        <3> QED
            BY <2>7, <3>1, <3>2, <3>4 DEF WriteLedger, TypeOK
    <2>8. CASE Kill(p)
        <3>1. book' \in [Processes -> Books]
            BY <2>8, NoRequestsAreABook, OneBookTypes DEF Kill, Forget
        <3>2. stage' \in [Processes -> Stages]
            BY <2>8 DEF Kill, TypeOK, Become, Stages
        <3> QED
            BY <2>8, <3>1, <3>2 DEF Kill, TypeOK, history
    <2> QED
        BY <1>3, <2>1, <2>2, <2>3, <2>4, <2>5, <2>6, <2>7, <2>8 DEF Process
<1> QED
    BY <1>1, <1>2, <1>3 DEF Next

-----------------------------------------------------------------------------
(* Copies agree with what was asked and given. *)

\* The same of a copy after a step.
AgreesAfter(copy) ==
    \A r \in DOMAIN copy :
        /\ r \in DOMAIN terms'
        /\ copy[r].confirmed <= given'[r]
        /\ copy[r].status = "pending" => copy[r].confirmed < terms'[r].need
        /\ copy[r].status = "approved" => copy[r].confirmed >= terms'[r].need

\* What a request asks for never changes and nothing given is taken back.
Grows ==
    /\ DOMAIN terms \subseteq DOMAIN terms'
    /\ \A r \in DOMAIN terms : terms'[r] = terms[r]
    /\ \A r \in Requests : given'[r] >= given[r]

LEMMA StillAgrees ==
    ASSUME TypeOK, TypeOK', Grows, NEW copy \in Books, Agrees(copy)
    PROVE  AgreesAfter(copy)
<1> SUFFICES ASSUME NEW r \in DOMAIN copy
             PROVE  /\ r \in DOMAIN terms'
                    /\ copy[r].confirmed <= given'[r]
                    /\ copy[r].status = "pending" => copy[r].confirmed < terms'[r].need
                    /\ copy[r].status = "approved" => copy[r].confirmed >= terms'[r].need
    BY DEF AgreesAfter
<1>1. r \in DOMAIN terms /\ r \in Requests /\ terms'[r] = terms[r] /\ given'[r] >= given[r]
    BY DEF Grows, Agrees, TypeOK
<1>2. copy[r].confirmed \in Nat /\ given[r] \in Nat /\ given'[r] \in Nat
    BY <1>1, BooksHaveRequests DEF TypeOK
<1> QED
    BY <1>1, <1>2 DEF Grows, Agrees

LEMMA StepsGrow ==
    ASSUME TypeOK, [Next]_vars
    PROVE  Grows
<1>1. CASE UNCHANGED <<terms, given>>
    BY <1>1 DEF Grows, TypeOK
<1>2. ASSUME NEW p \in Processes, NEW r \in Requests, RequestApproval(p, r) PROVE Grows
    BY <1>2 DEF RequestApproval, history, Grows, TypeOK
<1>3. ASSUME NEW p \in Processes, NEW r \in Requests, Approve(p, r) PROVE Grows
    BY <1>3 DEF Approve, Grows, TypeOK
<1> QED
    BY <1>1, <1>2, <1>3
       DEF Next, vars, history, Tick, Process, Open, Reject, Gate, OpenLedger, WriteLedger, Kill

\* A step in which one process changes its copy and the ledger stays or takes it.
LEMMA OneCopyChanges ==
    ASSUME TypeOK, TypeOK', CopiesAgree, Grows, NEW p \in Processes,
           \A q \in Processes : q # p => book'[q] = book[q],
           AgreesAfter(book'[p]),
           ledger' \in Books => ledger' = ledger \/ ledger' = book[p]
    PROVE  CopiesAgree'
<1>1. \A q \in Processes : AgreesAfter(book'[q])
    <2> SUFFICES ASSUME NEW q \in Processes, q # p PROVE AgreesAfter(book'[q])
        OBVIOUS
    <2>1. book'[q] = book[q] /\ book[q] \in Books /\ Agrees(book[q])
        BY DEF TypeOK, CopiesAgree
    <2> QED
        BY <2>1, StillAgrees
<1>2. ledger' \in Books => AgreesAfter(ledger')
    <2> SUFFICES ASSUME ledger' \in Books PROVE AgreesAfter(ledger')
        OBVIOUS
    <2>1. Agrees(book[p]) /\ book[p] \in Books /\ (ledger \in Books => Agrees(ledger))
        BY DEF TypeOK, CopiesAgree
    <2>2. AgreesAfter(book[p])
        BY <2>1, StillAgrees
    <2>3. ledger \in Books => AgreesAfter(ledger)
        BY <2>1, StillAgrees
    <2> QED
        BY <2>2, <2>3
<1> QED
    BY <1>1, <1>2 DEF CopiesAgree, Agrees, AgreesAfter

LEMMA AgreementKept == TypeOK /\ TypeOK' /\ CopiesAgree /\ [Next]_vars => CopiesAgree'
<1> SUFFICES ASSUME TypeOK, TypeOK', CopiesAgree, [Next]_vars PROVE CopiesAgree'
    OBVIOUS
<1>0. Grows
    BY StepsGrow
<1>a. AgreesAfter(NoRequests)
    BY NoRequestsAreABook DEF AgreesAfter
<1>1. CASE UNCHANGED vars \/ Tick
    BY <1>1 DEF vars, history, Tick, CopiesAgree, Agrees
<1>3. ASSUME NEW p \in Processes, Process(p) PROVE CopiesAgree'
    <2>a. /\ book[p] \in Books /\ Agrees(book[p])
          /\ Expire(book[p]) \in Books /\ Agrees(Expire(book[p]))
        BY ExpireOnlyExpires, ExpiredAgrees DEF TypeOK, CopiesAgree
    <2>b. AgreesAfter(Expire(book[p])) /\ AgreesAfter(book[p])
        BY <1>0, <2>a, StillAgrees
    <2>1. CASE Open(p)
        <3>1. ledger \in Books /\ Agrees(ledger)
            BY <2>1 DEF Open, TypeOK, CopiesAgree
        <3>2. book'[p] = ledger /\ \A q \in Processes : q # p => book'[q] = book[q]
            BY <2>1 DEF Open, TypeOK
        <3>3. AgreesAfter(book'[p])
            BY <1>0, <3>1, <3>2, StillAgrees
        <3> QED
            BY <1>0, <2>1, <3>2, <3>3, OneCopyChanges DEF Open
    <2>2. ASSUME NEW r \in Requests, RequestApproval(p, r) PROVE CopiesAgree'
        <3> DEFINE fresh == [confirmed |-> 0, status |-> "pending"]
        <3>1. /\ DOMAIN book'[p] = DOMAIN book[p] \cup {r}
              /\ book'[p] = [q \in DOMAIN book[p] \cup {r} |-> IF q = r THEN fresh ELSE book[p][q]]
            BY <2>2 DEF RequestApproval, TypeOK
        <3>2. \A q \in DOMAIN book[p] : q # r
            BY <2>2 DEF RequestApproval, CopiesAgree, Agrees
        <3>3. book'[p][r] = fresh /\ \A q \in DOMAIN book[p] : book'[p][q] = book[p][q]
            BY <3>1, <3>2
        <3>4. r \in DOMAIN terms' /\ terms'[r].need \in 1..MaxNeed /\ given'[r] \in Nat
            <4>1. r \in DOMAIN terms'
                BY <2>2 DEF RequestApproval
            <4>2. terms'[r] \in Terms
                BY <4>1 DEF TypeOK
            <4> QED
                BY <4>1, <4>2 DEF TypeOK, Terms
        <3>5. AgreesAfter(book'[p])
            <4>1. fresh.confirmed = 0 /\ fresh.status = "pending"
                OBVIOUS
            <4> HIDE DEF fresh
            <4> QED
                BY <2>b, <3>1, <3>3, <3>4, <4>1, ApprovalsAssumption DEF AgreesAfter
        <3>6. \A q \in Processes : q # p => book'[q] = book[q]
            BY <2>2 DEF RequestApproval, TypeOK
        <3> QED
            BY <1>0, <2>2, <3>5, <3>6, OneCopyChanges DEF RequestApproval
    <2>3. ASSUME NEW r \in Requests, Approve(p, r) PROVE CopiesAgree'
        <3> DEFINE b == Expire(book[p])
        <3>1. /\ b \in Books /\ r \in DOMAIN b /\ b[r] \in Request
              /\ \/ /\ b[r].status = "pending" /\ b[r].confirmed < terms[r].need /\ terms[r] \in Terms
                    /\ book' = [book EXCEPT ![p] = [b EXCEPT ![r] = Confirmed(r, b[r])]]
                    /\ given' = [given EXCEPT ![r] = @ + 1]
                 \/ book' = [book EXCEPT ![p] = b] /\ given' = given
            BY <2>3, ApproveBook
        <3>2. AgreesAfter(b) /\ b[r].confirmed <= given[r]
            BY <2>a, <2>b, <3>1 DEF Agrees
        <3> HIDE DEF b
        <3>3. \A q \in Processes : q # p => book'[q] = book[q]
            BY <3>1 DEF TypeOK
        <3>4. CASE /\ b[r].status = "pending" /\ b[r].confirmed < terms[r].need /\ terms[r] \in Terms
                   /\ book' = [book EXCEPT ![p] = [b EXCEPT ![r] = Confirmed(r, b[r])]]
                   /\ given' = [given EXCEPT ![r] = @ + 1]
            <4> DEFINE c == Confirmed(r, b[r])
            <4>1. /\ c \in Request
                  /\ c.confirmed = b[r].confirmed + 1
                  /\ c.status = IF b[r].confirmed + 1 >= terms[r].need THEN "approved" ELSE b[r].status
                BY <3>1, <3>4, ConfirmedIsRequest
            <4> HIDE DEF c
            <4>2. /\ DOMAIN book'[p] = DOMAIN b
                  /\ book'[p][r] = c
                  /\ \A q \in DOMAIN b : q # r => book'[p][q] = b[q]
                BY <3>1, <3>4, <4>1, SetRequest DEF TypeOK, c
            <4>3. given'[r] = given[r] + 1 /\ terms' = terms
                BY <2>3, <3>4 DEF Approve, TypeOK
            <4>4. b[r].confirmed \in Nat /\ given[r] \in Nat /\ terms[r].need \in Nat
                BY <3>1, <3>4 DEF Request, Terms, TypeOK
            <4>5. AgreesAfter(book'[p])
                <5>1. /\ r \in DOMAIN terms'
                      /\ c.confirmed <= given'[r]
                      /\ c.status = "pending" => c.confirmed < terms'[r].need
                      /\ c.status = "approved" => c.confirmed >= terms'[r].need
                    BY <3>1, <3>2, <3>4, <4>1, <4>3, <4>4 DEF AgreesAfter
                <5> QED
                    BY <3>2, <4>2, <5>1 DEF AgreesAfter
            <4> QED
                BY <1>0, <2>3, <3>3, <4>5, OneCopyChanges DEF Approve
        <3>5. CASE book' = [book EXCEPT ![p] = b] /\ given' = given
            <4>1. book'[p] = b
                BY <3>5 DEF TypeOK
            <4> QED
                BY <1>0, <2>3, <3>2, <3>3, <4>1, OneCopyChanges DEF Approve
        <3> QED
            BY <3>1, <3>4, <3>5
    <2>4. ASSUME NEW r \in Requests, Reject(p, r) PROVE CopiesAgree'
        <3> DEFINE b == Expire(book[p])
                   c == As(b[r], "rejected")
        <3>1. /\ b \in Books /\ r \in DOMAIN b /\ b[r] \in Request /\ c \in Request
              /\ book' = [book EXCEPT ![p] = IF b[r].status = "pending" THEN [b EXCEPT ![r] = c] ELSE b]
            BY <2>4, RejectBook
        <3>2. AgreesAfter(b)
            BY <2>b
        <3>3. c.confirmed = b[r].confirmed /\ c.status = "rejected"
            BY DEF As
        <3> HIDE DEF b, c
        <3>4. \A q \in Processes : q # p => book'[q] = book[q]
            BY <3>1 DEF TypeOK
        <3>5. book'[p] = b \/ book'[p] = [b EXCEPT ![r] = c]
            BY <3>1 DEF TypeOK
        <3>6. AgreesAfter([b EXCEPT ![r] = c])
            BY <3>1, <3>2, <3>3, SetRequest DEF AgreesAfter
        <3> QED
            BY <1>0, <2>4, <3>2, <3>4, <3>5, <3>6, OneCopyChanges DEF Reject
    <2>5. CASE Gate(p)
        <3>1. book'[p] = Expire(book[p]) /\ \A q \in Processes : q # p => book'[q] = book[q]
            BY <2>5 DEF Gate, TypeOK
        <3> QED
            BY <1>0, <2>5, <2>b, <3>1, OneCopyChanges DEF Gate
    <2>6. CASE OpenLedger(p)
        <3>1. /\ book'[p] \in {book[p], Expire(book[p])}
              /\ \A q \in Processes : q # p => book'[q] = book[q]
            BY <2>6 DEF OpenLedger, TypeOK
        <3>2. ledger' \notin Books
            BY <2>6, ApprovalsAssumption DEF OpenLedger
        <3> QED
            BY <1>0, <2>b, <3>1, <3>2, OneCopyChanges
    <2>7. CASE WriteLedger(p)
        <3>1. /\ book'[p] = NoRequests
              /\ \A q \in Processes : q # p => book'[q] = book[q]
            BY <2>7 DEF WriteLedger, Forget, TypeOK
        <3>2. ledger' = book[p] \/ ledger' \notin Books
            BY <2>7, ApprovalsAssumption DEF WriteLedger
        <3> QED
            BY <1>0, <1>a, <3>1, <3>2, OneCopyChanges
    <2>8. CASE Kill(p)
        <3>1. /\ book'[p] = NoRequests
              /\ \A q \in Processes : q # p => book'[q] = book[q]
            BY <2>8 DEF Kill, Forget, TypeOK
        <3> QED
            BY <1>0, <1>a, <2>8, <3>1, OneCopyChanges DEF Kill
    <2> QED
        BY <1>3, <2>1, <2>2, <2>3, <2>4, <2>5, <2>6, <2>7, <2>8 DEF Process
<1> QED
    BY <1>1, <1>3 DEF Next

-----------------------------------------------------------------------------
(* What a run begins on. *)

\* What backed a run goes on backing it: nothing a request asks for changes.
LEMMA BackingStands ==
    ASSUME TypeOK, TypeOK', Grows, RunsBacked, UNCHANGED began
    PROVE  RunsBacked'
<1> SUFFICES ASSUME NEW b \in began
             PROVE  /\ b.backing \in DOMAIN terms'
                    /\ given'[b.backing] >= terms'[b.backing].need
                    /\ terms'[b.backing].until # Never => b.at < terms'[b.backing].until
                    /\ terms'[b.backing].pin \in {b.run, AnyRun}
    BY DEF RunsBacked
<1>1. b.backing \in DOMAIN terms /\ b.backing \in Requests
    BY DEF RunsBacked, TypeOK
<1>2. terms'[b.backing] = terms[b.backing] /\ b.backing \in DOMAIN terms' /\ given'[b.backing] >= given[b.backing]
    BY <1>1 DEF Grows
<1>3. terms[b.backing].need \in Nat /\ given[b.backing] \in Nat /\ given'[b.backing] \in Nat
    BY <1>1 DEF TypeOK, Terms
<1> QED
    BY <1>1, <1>2, <1>3 DEF RunsBacked

\* The gate opens on nothing that is not confirmed, or has run out.
LEMMA GateBacks ==
    ASSUME TypeOK, TypeOK', CopiesAgree, RunsBacked, NEW p \in Processes, Gate(p)
    PROVE  RunsBacked'
<1> DEFINE e == Expire(book[p])
<1>1. terms' = terms /\ given' = given
    BY DEF Gate
<1>2. ASSUME NEW r \in Backing(p, e)
      PROVE  /\ r \in DOMAIN terms
             /\ given[r] >= terms[r].need
             /\ terms[r].until # Never => clock < terms[r].until
             /\ terms[r].pin \in {p, AnyRun}
    <2>1. book[p] \in Books /\ Agrees(book[p])
        BY DEF TypeOK, CopiesAgree
    <2>2. r \in DOMAIN e /\ e[r].status = "approved" /\ terms[r].pin \in {p, AnyRun}
        BY DEF Backing
    <2>3. e \in Books /\ Agrees(e) /\ ~IsExpired(r)
        BY <2>1, <2>2, ExpireOnlyExpires, ExpiredAgrees
    <2>4. r \in DOMAIN terms /\ e[r].confirmed <= given[r] /\ e[r].confirmed >= terms[r].need
        BY <2>2, <2>3 DEF Agrees
    <2>5. /\ terms[r].need \in Nat /\ given[r] \in Nat /\ e[r].confirmed \in Nat
          /\ terms[r].until \in Nat \cup {Never} /\ clock \in Nat
        <3>1. r \in Requests /\ terms[r] \in Terms
            BY <2>4 DEF TypeOK
        <3>2. e[r].confirmed \in Nat
            BY <2>2, <2>3, BooksHaveRequests
        <3> QED
            BY <3>1, <3>2, ApprovalsAssumption DEF TypeOK, Terms, Times
    <2>6. terms[r].until # Never => clock < terms[r].until
        BY <2>3, <2>5 DEF IsExpired
    <2> QED
        BY <2>2, <2>4, <2>5, <2>6
<1> HIDE DEF e
<1>3. \/ began' = began
      \/ \E r \in Backing(p, e) :
            began' = began \cup {[run |-> p, backing |-> r, at |-> clock, late |-> r \in refused]}
    BY Zenon DEF Gate, e
<1>4. CASE began' = began
    BY <1>1, <1>4 DEF RunsBacked
<1>5. ASSUME NEW r \in Backing(p, e), NEW late,
             began' = began \cup {[run |-> p, backing |-> r, at |-> clock, late |-> late]}
      PROVE  RunsBacked'
    BY <1>1, <1>2, <1>5 DEF RunsBacked
<1> QED
    BY <1>3, <1>4, <1>5, Zenon

LEMMA BackingKept == TypeOK /\ TypeOK' /\ CopiesAgree /\ RunsBacked /\ [Next]_vars => RunsBacked'
<1> SUFFICES ASSUME TypeOK, TypeOK', CopiesAgree, RunsBacked, [Next]_vars PROVE RunsBacked'
    OBVIOUS
<1>1. ASSUME NEW p \in Processes, Gate(p) PROVE RunsBacked'
    BY <1>1, GateBacks
<1>2. CASE UNCHANGED began
    BY <1>2, StepsGrow, BackingStands
<1> QED
    BY <1>1, <1>2
       DEF Next, vars, history, Tick, Process, Open, RequestApproval, Approve, Reject, OpenLedger, WriteLedger, Kill

-----------------------------------------------------------------------------
(* Rejections. *)

\* A process that has the ledger to itself changes its copy, and keeps what
\* the copy says of rejections.
LEMMA CopyStaysFirm ==
    ASSUME Rejections, NEW p \in Processes, stage[p] # "off",
           UNCHANGED <<refused, shared>>,
           \A q \in Processes : q # p => book'[q] = book[q],
           \A q \in Processes : stage'[q] # "off" => stage[q] # "off",
           ~shared /\ Firm(book[p]) => Firm(book'[p]),
           ledger' \in Books => ledger' = ledger,
           ~shared => \A b \in began' : b \in began \/ ~b.late
    PROVE  Rejections'
<1> SUFFICES ASSUME ~shared
             PROVE  /\ \A q, s \in Processes : stage'[q] # "off" /\ stage'[s] # "off" => q = s
                    /\ \A q \in Processes : stage'[q] # "off" => Firm(book'[q])
                    /\ ledger' \in Books => Firm(ledger')
                    /\ \A b \in began' : ~b.late
    BY DEF Rejections, Firm
<1>1. /\ \A q, s \in Processes : stage[q] # "off" /\ stage[s] # "off" => q = s
      /\ \A q \in Processes : stage[q] # "off" => Firm(book[q])
      /\ ledger \in Books => Firm(ledger)
      /\ \A b \in began : ~b.late
    BY DEF Rejections
<1> QED
    BY <1>1

LEMMA RejectionsKept == TypeOK /\ CopiesAgree /\ Rejections /\ [Next]_vars => Rejections'
<1> SUFFICES ASSUME TypeOK, CopiesAgree, Rejections, [Next]_vars PROVE Rejections'
    OBVIOUS
<1>1. CASE UNCHANGED vars \/ Tick
    BY <1>1 DEF vars, history, Tick, Rejections, Firm
<1>3. ASSUME NEW p \in Processes, Process(p) PROVE Rejections'
    <2>a. book[p] \in Books /\ (Firm(book[p]) => Firm(Expire(book[p])))
        BY ExpiredFirm DEF TypeOK
    <2>1. CASE Open(p)
        <3> SUFFICES ASSUME ~shared'
                     PROVE  /\ \A q, s \in Processes : stage'[q] # "off" /\ stage'[s] # "off" => q = s
                            /\ \A q \in Processes : stage'[q] # "off" => Firm(book'[q])
                            /\ ledger' \in Books => Firm(ledger')
                            /\ \A b \in began' : ~b.late
            BY <2>1 DEF Rejections, Firm, Open
        <3>1. ~shared /\ \A q \in Processes : stage[q] = "off"
            BY <2>1 DEF Open
        <3>2. \A q \in Processes : stage'[q] # "off" => q = p
            BY <2>1, <3>1 DEF Open, Become, TypeOK
        <3>3. book'[p] = ledger /\ ledger \in Books
            BY <2>1 DEF Open, TypeOK
        <3> QED
            BY <2>1, <3>1, <3>2, <3>3 DEF Open, Rejections
    <2>2. ASSUME NEW r \in Requests, RequestApproval(p, r) PROVE Rejections'
        <3>1. \A q \in DOMAIN book[p] : q # r
            BY <2>2 DEF RequestApproval, CopiesAgree, Agrees
        <3>2. /\ DOMAIN book[p] \subseteq DOMAIN book'[p]
              /\ \A q \in DOMAIN book[p] : book'[p][q] = book[p][q]
            BY <2>2, <3>1 DEF RequestApproval, TypeOK
        <3>3. \A q \in Processes : q # p => book'[q] = book[q]
            BY <2>2 DEF RequestApproval, TypeOK
        <3>4. Firm(book[p]) => Firm(book'[p])
            BY <3>2 DEF Firm
        <3> QED
            BY <2>2, <3>3, <3>4, CopyStaysFirm DEF RequestApproval, history
    <2>3. ASSUME NEW r \in Requests, Approve(p, r) PROVE Rejections'
        <3> DEFINE b == Expire(book[p])
        <3>1. /\ b \in Books /\ r \in DOMAIN b /\ b[r] \in Request
              /\ \/ /\ b[r].status = "pending" /\ b[r].confirmed < terms[r].need /\ terms[r] \in Terms
                    /\ book' = [book EXCEPT ![p] = [b EXCEPT ![r] = Confirmed(r, b[r])]]
                 \/ book' = [book EXCEPT ![p] = b]
            BY <2>3, ApproveBook
        <3>2. Firm(book[p]) => Firm(b)
            BY <2>a
        <3> HIDE DEF b
        <3>3. \A q \in Processes : q # p => book'[q] = book[q]
            BY <3>1 DEF TypeOK
        <3>4. /\ DOMAIN book'[p] = DOMAIN b
              /\ \A q \in DOMAIN b : b[q].status = "rejected" => book'[p][q] = b[q]
            <4>1. CASE book' = [book EXCEPT ![p] = b]
                BY <4>1 DEF TypeOK
            <4>2. CASE /\ b[r].status = "pending" /\ b[r].confirmed < terms[r].need /\ terms[r] \in Terms
                       /\ book' = [book EXCEPT ![p] = [b EXCEPT ![r] = Confirmed(r, b[r])]]
                <5>1. Confirmed(r, b[r]) \in Request
                    BY <3>1, <4>2, ConfirmedIsRequest
                <5>2. book'[p] = [b EXCEPT ![r] = Confirmed(r, b[r])]
                    BY <4>2 DEF TypeOK
                <5> QED
                    BY <3>1, <4>2, <5>1, <5>2, SetRequest
            <4> QED
                BY <3>1, <4>1, <4>2
        <3>5. Firm(book[p]) => Firm(book'[p])
            BY <3>2, <3>4 DEF Firm
        <3> QED
            BY <2>3, <3>3, <3>5, CopyStaysFirm DEF Approve
    <2>4. ASSUME NEW r \in Requests, Reject(p, r) PROVE Rejections'
        <3> DEFINE b == Expire(book[p])
                   c == As(b[r], "rejected")
        <3>1. /\ b \in Books /\ r \in DOMAIN b /\ b[r] \in Request /\ c \in Request
              /\ book' = [book EXCEPT ![p] = IF b[r].status = "pending" THEN [b EXCEPT ![r] = c] ELSE b]
            BY <2>4, RejectBook
        <3>2. Firm(book[p]) => Firm(b)
            BY <2>a
        <3>3. c.status = "rejected"
            BY DEF As
        <3> HIDE DEF b, c
        <3>4. \A q \in Processes : q # p => book'[q] = book[q]
            BY <3>1 DEF TypeOK
        <3>5. book'[p] = b \/ book'[p] = [b EXCEPT ![r] = c]
            BY <3>1 DEF TypeOK
        <3>6. Firm(b) => Firm([b EXCEPT ![r] = c])
            BY <3>1, <3>3, SetRequest DEF Firm
        <3>7. Firm(book[p]) => Firm(book'[p])
            BY <3>2, <3>5, <3>6
        <3> QED
            BY <2>4, <3>4, <3>7, CopyStaysFirm DEF Reject, history
    <2>5. CASE Gate(p)
        <3>1. book'[p] = Expire(book[p]) /\ \A q \in Processes : q # p => book'[q] = book[q]
            BY <2>5 DEF Gate, TypeOK
        <3>2. \A q \in Processes : stage'[q] # "off" => stage[q] # "off"
            BY <2>5 DEF Gate, Become, TypeOK
        <3>3. ASSUME ~shared, NEW b \in began' PROVE b \in began \/ ~b.late
            <4>1. Firm(Expire(book[p]))
                BY <2>a, <2>5, <3>3 DEF Rejections, Gate
            <4>2. \A r \in Backing(p, Expire(book[p])) : r \notin refused
                BY <4>1 DEF Backing, Firm
            <4>3. \/ began' = began
                  \/ \E r \in Backing(p, Expire(book[p])) :
                        began' = began \cup {[run |-> p, backing |-> r, at |-> clock, late |-> r \in refused]}
                BY <2>5, Zenon DEF Gate
            <4>4. CASE began' = began
                BY <3>3, <4>4
            <4>5. ASSUME NEW r \in Backing(p, Expire(book[p])),
                         began' = began \cup {[run |-> p, backing |-> r, at |-> clock, late |-> r \in refused]}
                  PROVE  b \in began \/ ~b.late
                <5>1. b \in began \/ b = [run |-> p, backing |-> r, at |-> clock, late |-> r \in refused]
                    BY <3>3, <4>5, Zenon
                <5>2. [run |-> p, backing |-> r, at |-> clock, late |-> r \in refused].late = (r \in refused)
                    BY Zenon
                <5>3. r \notin refused
                    BY <4>2
                <5> QED
                    BY <5>1, <5>2, <5>3, Zenon
            <4> QED
                BY <4>3, <4>4, <4>5, Zenon
        <3> QED
            BY <2>5, <2>a, <3>1, <3>2, <3>3, CopyStaysFirm DEF Gate
    <2>6. CASE OpenLedger(p)
        <3>1. /\ book'[p] \in {book[p], Expire(book[p])}
              /\ \A q \in Processes : q # p => book'[q] = book[q]
            BY <2>6 DEF OpenLedger, TypeOK
        <3>2. ledger' \notin Books
            BY <2>6, ApprovalsAssumption DEF OpenLedger
        <3>3. \A q \in Processes : stage'[q] # "off" => stage[q] # "off"
            BY <2>6 DEF OpenLedger, Become, TypeOK
        <3> QED
            BY <2>6, <2>a, <3>1, <3>2, <3>3, CopyStaysFirm DEF OpenLedger, history
    <2>7. CASE WriteLedger(p)
        <3> SUFFICES ASSUME ~shared
                     PROVE  /\ \A q, s \in Processes : stage'[q] # "off" /\ stage'[s] # "off" => q = s
                            /\ \A q \in Processes : stage'[q] # "off" => Firm(book[q])'
                            /\ ledger' \in Books => Firm(ledger)'
                            /\ \A b \in began' : ~b.late
            BY <2>7 DEF Rejections, WriteLedger
        <3>1. /\ \A q, s \in Processes : stage[q] # "off" /\ stage[s] # "off" => q = s
              /\ Firm(book[p])
              /\ \A b \in began : ~b.late
            BY <2>7 DEF Rejections, WriteLedger
        <3>2. \A q \in Processes : stage'[q] = "off"
            BY <2>7, <3>1 DEF WriteLedger, Become, TypeOK
        <3>3. ledger' \in Books => ledger' = book[p] /\ refused' = refused \cup Rejected(book[p])
            BY <2>7, ApprovalsAssumption DEF WriteLedger
        <3>4. ledger' \in Books => Firm(ledger)'
            BY <3>1, <3>3 DEF Firm, Rejected
        <3> QED
            BY <2>7, <3>1, <3>2, <3>4 DEF WriteLedger
    <2>8. CASE Kill(p)
        <3> SUFFICES ASSUME ~shared
                     PROVE  /\ \A q, s \in Processes : stage'[q] # "off" /\ stage'[s] # "off" => q = s
                            /\ \A q \in Processes : stage'[q] # "off" => Firm(book[q])'
                            /\ ledger' \in Books => Firm(ledger)'
                            /\ \A b \in began' : ~b.late
            BY <2>8 DEF Rejections, Kill, history
        <3>1. \A q, s \in Processes : stage[q] # "off" /\ stage[s] # "off" => q = s
            BY <2>8 DEF Rejections, Kill
        <3>2. \A q \in Processes : stage'[q] = "off"
            BY <2>8, <3>1 DEF Kill, Become, TypeOK
        <3> QED
            BY <2>8, <3>2 DEF Rejections, Kill, history, Firm
    <2> QED
        BY <1>3, <2>1, <2>2, <2>3, <2>4, <2>5, <2>6, <2>7, <2>8 DEF Process
<1> QED
    BY <1>1, <1>3 DEF Next

-----------------------------------------------------------------------------
(* What holds of every behavior. *)

LEMMA InitIInv == Init => IInv
<1> SUFFICES ASSUME Init PROVE IInv
    OBVIOUS
<1>1. CopiesAgree
    BY NoRequestsAreABook DEF Init, CopiesAgree, Agrees
<1>2. RunsBacked
    BY DEF Init, RunsBacked
<1>3. Rejections
    BY DEF Init, Rejections, Firm
<1> QED
    BY <1>1, <1>2, <1>3, InitTypes DEF IInv

THEOREM Invariant == Spec => []IInv
<1>1. IInv /\ [Next]_vars => IInv'
    BY TypesKept, AgreementKept, BackingKept, RejectionsKept DEF IInv
<1> QED
    BY <1>1, InitIInv, PTL DEF Spec

\* Every variable has its type; above all no request is confirmed more often
\* than it asks for.
THEOREM TypeCorrect == Spec => []TypeOK
<1>1. IInv => TypeOK
    BY DEF IInv
<1> QED
    BY <1>1, Invariant, PTL

\* However copies overwrite each other, a run begins only on what was confirmed
\* in full and has not run out.
THEOREM RunsAreBacked == Spec => []RunsBacked
<1>1. IInv => RunsBacked
    BY DEF IInv
<1> QED
    BY <1>1, Invariant, PTL

\* With one process at a time a rejection that was saved stands.
THEOREM RejectionsStand == Spec => []RejectionStands
<1>1. IInv => RejectionStands
    <2> SUFFICES ASSUME IInv, ~shared
                 PROVE  /\ ledger \notin {Blank, Torn} =>
                              \A r \in refused : r \in DOMAIN ledger /\ ledger[r].status = "rejected"
                        /\ \A b \in began : ~b.late
        BY DEF RejectionStands
    <2>1. ledger \notin {Blank, Torn} => ledger \in Books
        BY DEF IInv, TypeOK
    <2> QED
        BY <2>1 DEF IInv, Rejections, Firm
<1> QED
    BY <1>1, Invariant, PTL
=============================================================================
