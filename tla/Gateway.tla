------------------------------- MODULE Gateway -------------------------------
(***************************************************************************)
(* The doors to the operations facade: the HTTP gateway (lsbx-gateway) and *)
(* the console routes mounted beside it (lsbx-stream), which lsbx serve    *)
(* opens, and the MCP tools (lsbx-mcp) of an lsbx mcp beside it, on the    *)
(* same store.  A request is a task of its own and passes the layers of    *)
(* its router one by one: rate limit, audit log, extractors, handler.      *)
(* Tasks interleave at every await.  A client that hangs up drops its task *)
(* wherever it stands.                                                     *)
(*                                                                         *)
(* A facade call is one opaque step here (SandboxLifecycle and GuestAccess *)
(* model what it does), a renewal two; of its effects only the records in  *)
(* the store are kept, with the door that made each: the creation gate     *)
(* counts them.                                                            *)
(***************************************************************************)
EXTENDS Integers, FiniteSets, Sequences

CONSTANTS
    Requests,       \* slots for requests in flight; a slot is reused
    Token,          \* the configured credential
    Wrong,          \* another one
    NoCred,         \* no Authorization and no X-Api-Key header
    Ip,             \* the one source address
    Rpm, Burst,     \* RateLimitConfig
    MaxSandboxes,   \* GatewayConfig.max_sandboxes
    Routes,         \* the routes the run sends requests to
    Creds,          \* the credentials it presents
    Configs,        \* the deployments the run starts from
    MaxTime,        \* bound on the seconds that pass
    MaxArrivals,    \* bound on the requests sent
    MaxFaults,      \* bound on crashes, hang-ups and failing calls
    None

ASSUME RateAssumption == Rpm \in Nat \ {0} /\ Burst \in Nat
ASSUME CapAssumption  == MaxSandboxes \in Nat
ASSUME BoundAssumption ==
    /\ MaxTime \in Nat /\ MaxFaults \in Nat /\ MaxArrivals \in Nat
    /\ IsFiniteSet(Requests)
ASSUME CredAssumption ==
    Cardinality({Token, Wrong, NoCred, Ip}) = 4 /\ Creds \subseteq {Token, Wrong, NoCred}

DoorNames == {"rest", "merged", "bare", "mcp"}
Request   == [door : DoorNames, route : Routes, cred : Creds]

ASSUME NoneAssumption ==
    /\ None \notin Requests /\ None \notin Request
    /\ None \notin Nat /\ None \notin [tokens : Nat, last : Nat]
    /\ None \notin {"rest", "mcp"} \X Nat

VARIABLES
    config,    \* [dual, token, local]: --stream-port, is a token set, allow_local_files
    now,       \* Instant::now, in seconds
    bucket,    \* TokenBucket.buckets; tokens are kept in sixtieths
    stamp,     \* check's local now: the clock as read before the lock was taken
    pc,        \* where the task of the request stands
    req,       \* [door, route, cred]
    body,      \* what the handler will read: None, "whole" or "empty"
    temp,      \* the requests that have a temporary file on disk
    litter,    \* temporary files a crash left behind
    gate,      \* creation_gate: the request that holds it, or None
    store,     \* the records in the store: <<the door that made it, a number>>
    born,      \* records made so far
    copy,      \* the record a renewal has loaded
    arrivals, faults,
    admitted,  \* history: the checks of each key that admitted, see Admission
    rewound,   \* history: the seconds by which late checks moved last_refill back
    promised,  \* history: per key, when a Retry-After named since runs out
    back       \* history: records a renewal wrote back after their deletion

limiter  == <<bucket, admitted, rewound, promised>>
pipeline == <<stamp, body, temp, gate>>
records  == <<store, born, copy, back>>
vars == <<config, now, limiter, pc, req, pipeline, litter, records, arrivals, faults>>

Record == {"rest", "mcp"} \X Nat

\* The clock of the check, and the seconds the key's bucket had been moved back by.
Admission == [at : Nat, again : Nat]

-----------------------------------------------------------------------------
(* Routes, by the facade call behind them                                  *)

\* One route stands for those whose handlers only differ in the call's name.
ReadRoutes  == {"read"}         \* health, images, profiles, capabilities, consoles, list, get
QueryRoutes == {"query"}        \* POST check, info, console: audited, though nothing changes
LocalRoutes == {"put", "get"}   \* by a path on the gateway's host
RestRoutes  == ReadRoutes \cup QueryRoutes \cup LocalRoutes
                 \cup {"create", "delete", "renew", "exec", "upload", "artifacts"}
StreamRoutes == {"page", "detail", "stream"}

Mutating(route)   == route \notin ReadRoutes \cup {"artifacts"} \cup StreamRoutes
TakesJson(route)  == route \in {"create", "exec", "renew"} \cup LocalRoutes
TakesQuery(route) == route \in {"upload", "artifacts", "page"}

\* The doors a route can be reached through.  With one listener the console
\* routes are those of lsbx-stream, behind auth_middleware; with two, the
\* gateway's port serves its own page and detail, and the stream port serves
\* lsbx-stream's routes as they are: no layer of the gateway is in front of them.
Doors(route) ==
    IF route \in {"upload", "artifacts"} THEN {"rest"}
    ELSE IF route \in RestRoutes THEN {"rest", "mcp"}
    ELSE IF ~config.dual THEN {"merged"}
    ELSE {"bare"} \cup (IF route = "stream" THEN {} ELSE {"rest"})

\* Whether a handler of the route takes an AuthedRequest, or sits behind
\* auth_middleware.  (The page is "the sole route this extractor is never applied
\* to", says auth.rs; the routes of a stream port of its own have none either.)
Guarded(r) == req[r].door \in {"rest", "merged"} /\ req[r].route # "page"

Authorized(r) == config.token /\ req[r].cred = Token

-----------------------------------------------------------------------------
(* TokenBucket                                                             *)

Capacity == 60 * (IF Burst > 1 THEN Burst ELSE 1)

\* rate_limit_key: whatever was presented, valid or not, else the address.
KeyOf(r) == IF req[r].cred = NoCred THEN Ip ELSE req[r].cred
Keys     == {Token, Wrong, Ip}

\* What the bucket of the key holds after its refill, for a check that read the
\* clock at s; saturating_duration_since takes an earlier s for no time at all.
Tokens(k, s) ==
    IF bucket[k] = None THEN Capacity
    ELSE LET elapsed == IF s > bucket[k].last THEN s - bucket[k].last ELSE 0
             t       == bucket[k].tokens + elapsed * Rpm
         IN  IF t < Capacity THEN t ELSE Capacity

\* How far the check moves last_refill back.
Rewind(k, s) ==
    IF bucket[k] # None /\ bucket[k].last > s THEN bucket[k].last - s ELSE 0

\* Mutant: the wait is rounded down.
RetryAfter_Floor(t) == LET s == (60 - t) \div Rpm IN IF s > 1 THEN s ELSE 1

\* ceil(shortfall / refill_per_sec), at least a second.
RetryAfter(t) == LET s == (60 - t + Rpm - 1) \div Rpm IN IF s > 1 THEN s ELSE 1

\* The answer of check, and the history it makes.  The wait counts from now on.
Allow(k, s) ==
    /\ admitted' = [admitted EXCEPT ![k] = Append(@, [at |-> s, again |-> rewound'[k]])]
    /\ promised' = [promised EXCEPT ![k] = None]

Deny(k, t) ==
    LET p == now + RetryAfter(t) IN
    /\ promised' = [promised EXCEPT ![k] = IF @ # None /\ @ < p THEN @ ELSE p]
    /\ UNCHANGED admitted

\* Mutant: a refill does not move last_refill.
Take_NoStamp(k, s) ==
    LET t    == Tokens(k, s)
        last == IF bucket[k] = None THEN s ELSE bucket[k].last
    IN  /\ UNCHANGED rewound
        /\ IF t >= 60
           THEN bucket' = [bucket EXCEPT ![k] = [tokens |-> t - 60, last |-> last]] /\ Allow(k, s)
           ELSE bucket' = [bucket EXCEPT ![k] = [tokens |-> t, last |-> last]] /\ Deny(k, t)

\* Mutant: any rest of a token admits.
Take_Debt(k, s) ==
    LET t == Tokens(k, s)
    IN  /\ rewound' = [rewound EXCEPT ![k] = @ + Rewind(k, s)]
        /\ IF t > 0
           THEN bucket' = [bucket EXCEPT ![k] = [tokens |-> t - 60, last |-> s]] /\ Allow(k, s)
           ELSE bucket' = [bucket EXCEPT ![k] = [tokens |-> t, last |-> s]] /\ Deny(k, t)

\* TokenBucket::check under its lock: refill, then take a token or name the wait.
\* last_refill becomes the check's own reading of the clock, be it older.
Take(k, s) ==
    LET t == Tokens(k, s)
    IN  /\ rewound' = [rewound EXCEPT ![k] = @ + Rewind(k, s)]
        /\ IF t >= 60
           THEN bucket' = [bucket EXCEPT ![k] = [tokens |-> t - 60, last |-> s]] /\ Allow(k, s)
           ELSE bucket' = [bucket EXCEPT ![k] = [tokens |-> t, last |-> s]] /\ Deny(k, t)

-----------------------------------------------------------------------------
(* A request                                                               *)

\* The store is empty or has a record from an earlier life of the server.
Init ==
    /\ config \in Configs
    /\ now = 0 /\ bucket = [k \in Keys |-> None]
    /\ pc = [r \in Requests |-> "idle"]
    /\ req = [r \in Requests |-> None]
    /\ stamp = [r \in Requests |-> None] /\ body = [r \in Requests |-> None]
    /\ temp = {} /\ litter = 0 /\ gate = None
    /\ store \in {{}, {<<"rest", 0>>}} /\ Cardinality(store) <= MaxSandboxes
    /\ born = 0 /\ copy = [r \in Requests |-> None] /\ back = {}
    /\ arrivals = 0 /\ faults = 0
    /\ admitted = [k \in Keys |-> <<>>] /\ rewound = [k \in Keys |-> 0]
    /\ promised = [k \in Keys |-> None]

Goto(r, label) == pc' = [pc EXCEPT ![r] = label]

\* What is left of a task that ends: its guard of the gate and its temporary
\* file are dropped with it.
Ended(r) ==
    /\ Goto(r, "idle")
    /\ req' = [req EXCEPT ![r] = None]
    /\ stamp' = [stamp EXCEPT ![r] = None] /\ body' = [body EXCEPT ![r] = None]
    /\ temp' = temp \ {r}
    /\ gate' = IF gate = r THEN None ELSE gate

\* success_response, error_response, or the rejection of an extractor: every
\* early return of a handler ends its task.
Answer(r) == Ended(r) /\ UNCHANGED <<config, now, litter, faults, arrivals>>

Failure == faults < MaxFaults /\ faults' = faults + 1

\* A request reaches its router; of the three only rest has the limiter, its
\* outermost layer, which reads the clock at once and then waits for the lock.
Arrive(r, route, cred, door) ==
    /\ pc[r] = "idle" /\ arrivals < MaxArrivals
    /\ door \in Doors(route)
    /\ door = "mcp" => cred = NoCred
    /\ arrivals' = arrivals + 1
    /\ req' = [req EXCEPT ![r] = [door |-> door, route |-> route, cred |-> cred]]
    /\ body' = [body EXCEPT ![r] = "whole"]
    /\ stamp' = [stamp EXCEPT ![r] = IF door = "rest" THEN now ELSE None]
    /\ Goto(r, CASE door = "rest" -> "limit" [] door = "mcp" -> "tool" [] OTHER -> "extract")
    /\ UNCHANGED <<config, now, limiter, temp, litter, gate, records, faults>>

\* rate_limit_middleware: the lock is free, and check decides.
Limit(r) ==
    /\ pc[r] = "limit"
    /\ Take(KeyOf(r), stamp[r])
    /\ IF Tokens(KeyOf(r), stamp[r]) >= 60
       THEN /\ Goto(r, IF Mutating(req[r].route) THEN "audit" ELSE "extract")
            /\ UNCHANGED <<config, now, req, pipeline, litter, arrivals, faults>>
       ELSE Answer(r)
    /\ UNCHANGED records

\* audit_log_middleware: read the body to its end, log its hash, hand it on.
\* A body that breaks off is replaced by an empty one.
Audit(r) ==
    /\ pc[r] = "audit"
    /\ \/ UNCHANGED <<body, faults>>
       \/ Failure /\ body' = [body EXCEPT ![r] = "empty"]
    /\ Goto(r, "extract")
    /\ UNCHANGED <<config, now, limiter, req, stamp, temp, litter, gate, records, arrivals>>

\* An extractor refuses: the query (it comes before the credential), the
\* credential, the JSON body (it comes last; an empty body is none, and an empty
\* command is refused by the handler the same way).
BadRequest(r) ==
    /\ pc[r] = "extract"
    /\ \/ TakesQuery(req[r].route)
       \/ Guarded(r) /\ ~Authorized(r)
       \/ TakesJson(req[r].route) /\ Authorized(r)
    /\ Answer(r)
    /\ UNCHANGED <<limiter, records>>

\* Every extractor of the handler succeeded.
Vetted(r) ==
    /\ Guarded(r) => Authorized(r)
    /\ TakesJson(req[r].route) => body[r] = "whole"

\* The first line of the handler.  The page is static on lsbx-stream's router;
\* a disabled local route and a cap of zero are refused.
Handle(r) ==
    LET route == req[r].route IN
    /\ pc[r] = "extract" /\ Vetted(r)
    /\ \/ /\ \/ route = "page" /\ req[r].door # "rest"
             \/ route \in LocalRoutes /\ ~config.local
             \/ route = "create" /\ MaxSandboxes = 0
          /\ Answer(r) /\ UNCHANGED <<limiter, records>>
       \/ /\ ~(route = "page" /\ req[r].door # "rest")
          /\ route \in LocalRoutes => config.local
          /\ route = "create" => MaxSandboxes > 0
          /\ Goto(r, CASE route = "create" -> "gate"
                       [] route = "upload" -> "stage"
                       [] OTHER -> "call")
          /\ temp' = IF route = "artifacts" THEN temp \cup {r} ELSE temp
          /\ UNCHANGED <<config, now, limiter, req, stamp, body, litter, gate, records,
                         arrivals, faults>>

\* An MCP tool: its own checks for empty arguments, then the facade.
Tool(r) ==
    /\ pc[r] = "tool"
    /\ \/ req[r].route # "create" /\ Answer(r) /\ UNCHANGED <<limiter, records>>
       \/ /\ Goto(r, "call")
          /\ UNCHANGED <<config, now, limiter, req, pipeline, litter, records, arrivals, faults>>

\* The length of ops.list().
Records == Cardinality(store)

\* Mutant: the guard of the gate is not kept for the length of the create.
Admit_Unguarded(r) ==
    /\ pc[r] = "gate" /\ gate = None
    /\ IF Records >= MaxSandboxes
       THEN Answer(r)
       ELSE /\ Goto(r, "call")
            /\ UNCHANGED <<config, now, req, pipeline, litter, arrivals, faults>>
    /\ UNCHANGED <<limiter, records>>

\* create_sandbox takes the gate and counts the records, without an await in
\* between; a full house or an error of the count ends the request, else the
\* gate is held to its end.
Admit(r) ==
    /\ pc[r] = "gate" /\ gate = None
    /\ \/ Records >= MaxSandboxes /\ Answer(r)
       \/ Failure /\ Ended(r) /\ UNCHANGED <<config, now, litter, arrivals>>
       \/ /\ Records < MaxSandboxes
          /\ Goto(r, "call") /\ gate' = r
          /\ UNCHANGED <<config, now, req, stamp, body, temp, litter, arrivals, faults>>
    /\ UNCHANGED <<limiter, records>>

\* upload_to_sandbox: a blocking task makes the temporary file and writes the
\* body to it.  It runs on when the handler is dropped, before or after the file
\* was made, and the file goes with its unclaimed result.
Stage(r) ==
    /\ \/ pc[r] = "stage" /\ Goto(r, "staged")
       \/ pc[r] = "orphan" /\ r \notin temp /\ UNCHANGED pc
    /\ temp' = temp \cup {r}
    /\ UNCHANGED <<config, now, limiter, req, stamp, body, litter, gate, records,
                   arrivals, faults>>

Staged(r) ==
    /\ pc[r] = "staged"
    /\ \/ Goto(r, "call") /\ UNCHANGED <<req, pipeline, faults>>
       \/ Failure /\ Ended(r)
    /\ UNCHANGED <<config, now, limiter, litter, records, arrivals>>

\* Mutant: the unclaimed temporary file is kept.
Unclaimed_Kept(r) ==
    /\ pc[r] = "orphan" /\ r \in temp
    /\ Goto(r, "idle") /\ req' = [req EXCEPT ![r] = None]
    /\ UNCHANGED <<config, now, limiter, pipeline, litter, records, arrivals, faults>>

Unclaimed(r) ==
    /\ pc[r] = "orphan" /\ r \in temp
    /\ Ended(r)
    /\ UNCHANGED <<config, now, limiter, litter, records, arrivals, faults>>

\* The facade call returns, well or not, and the handler answers.  A create
\* that returns well saved a record, a delete removed one; a stream goes on as a
\* relay, and a renewal has loaded a record and has it to save.
Call(r) ==
    /\ pc[r] = "call"
    /\ \/ /\ req[r].route \notin {"stream", "create"}
          /\ Answer(r) /\ UNCHANGED records
       \/ /\ req[r].route = "create"
          /\ born' = born + 1 /\ store' = store \cup {<<req[r].door, born'>>}
          /\ Answer(r) /\ UNCHANGED <<copy, back>>
       \/ /\ req[r].route = "delete"
          /\ \E x \in store : store' = store \ {x}
          /\ Answer(r) /\ UNCHANGED <<born, copy, back>>
       \/ /\ req[r].route = "renew"
          /\ \E x \in store : copy' = [copy EXCEPT ![r] = x]
          /\ Goto(r, "renew")
          /\ UNCHANGED <<config, now, req, pipeline, litter, store, born, back, arrivals, faults>>
       \/ /\ req[r].route = "stream"
          /\ Goto(r, "relay")
          /\ UNCHANGED <<config, now, req, pipeline, litter, records, arrivals, faults>>
       \/ Failure /\ Ended(r) /\ UNCHANGED <<config, now, litter, records, arrivals>>
    /\ UNCHANGED limiter

\* renew saves the record it loaded, whatever became of it.
Renew(r) ==
    /\ pc[r] = "renew"
    /\ store' = store \cup {copy[r]}
    /\ back' = IF copy[r] \in store THEN back ELSE back \cup {copy[r]}
    /\ copy' = [copy EXCEPT ![r] = None]
    /\ Answer(r)
    /\ UNCHANGED <<limiter, born>>

\* The relay of a stream ends when either side closes (ConsoleRelay).
RelayEnds(r) ==
    /\ pc[r] = "relay" /\ Answer(r)
    /\ UNCHANGED <<limiter, records>>

\* The client hangs up: the task is dropped at the await it stands at (a
\* call that took effect first is Call, answered to nobody).  Neither check nor
\* renew has one between its two steps.
HangUp(r) ==
    /\ pc[r] \notin {"idle", "limit", "renew", "orphan"} /\ req[r].door # "mcp"
    /\ Failure
    /\ IF pc[r] \in {"stage", "staged"}
       THEN /\ Goto(r, "orphan")
            /\ UNCHANGED <<req, pipeline>>
       ELSE Ended(r)
    /\ UNCHANGED <<config, now, limiter, litter, records, arrivals>>

\* A process dies and is started again: buckets and gate are memory, records
\* and temporary files are not.  lsbx mcp also ends when its client does.
Crash(doors) ==
    LET gone == {r \in Requests : pc[r] # "idle" /\ req[r].door \in doors}
        Lose(f, v) == [r \in Requests |-> IF r \in gone THEN v ELSE f[r]]
    IN
    /\ Failure
    /\ pc' = Lose(pc, "idle") /\ req' = Lose(req, None)
    /\ stamp' = Lose(stamp, None) /\ body' = Lose(body, None) /\ copy' = Lose(copy, None)
    /\ temp' = temp \ gone /\ litter' = litter + Cardinality(temp \cap gone)
    /\ IF doors = {"mcp"} THEN UNCHANGED <<gate, limiter>>
       ELSE /\ gate' = None /\ bucket' = [k \in Keys |-> None]
            /\ admitted' = [k \in Keys |-> <<>>] /\ rewound' = [k \in Keys |-> 0]
            /\ promised' = [k \in Keys |-> None]
    /\ UNCHANGED <<config, now, store, born, back, arrivals>>

Tick ==
    /\ now < MaxTime /\ now' = now + 1
    /\ UNCHANGED <<config, limiter, pc, req, pipeline, litter, records, arrivals, faults>>

\* What a task does by itself.
Step(r) ==
    \/ Limit(r) \/ Audit(r) \/ BadRequest(r) \/ Handle(r) \/ Tool(r) \/ Admit(r)
    \/ Stage(r) \/ Staged(r) \/ Unclaimed(r) \/ Call(r) \/ Renew(r)

Next ==
    \/ \E r \in Requests :
        \/ \E route \in Routes, cred \in Creds, door \in DoorNames :
             Arrive(r, route, cred, door)
        \/ Step(r) \/ RelayEnds(r) \/ HangUp(r)
    \/ \E doors \in {{"mcp"}, {"rest", "merged", "bare"}} : Crash(doors)
    \/ Tick

Spec == Init /\ [][Next]_vars

-----------------------------------------------------------------------------
(* Properties                                                              *)

Labels == {"idle", "limit", "audit", "extract", "tool", "gate", "stage", "staged",
           "orphan", "call", "renew", "relay"}

TypeOK ==
    /\ config \in Configs /\ now \in 0..MaxTime
    /\ bucket \in [Keys -> {None} \cup [tokens : 0..Capacity, last : 0..MaxTime]]
    /\ admitted \in [Keys -> Seq(Admission)] /\ rewound \in [Keys -> Nat]
    /\ promised \in [Keys -> {None} \cup Nat]
    /\ pc \in [Requests -> Labels]
    /\ req \in [Requests -> {None} \cup Request]
    /\ \A r \in Requests : req[r] = None <=> pc[r] = "idle"
    /\ stamp \in [Requests -> {None} \cup 0..MaxTime]
    /\ body \in [Requests -> {None, "whole", "empty"}]
    /\ temp \subseteq Requests /\ litter \in Nat
    /\ gate \in Requests \cup {None}
    /\ store \subseteq Record /\ back \subseteq Record /\ born \in Nat
    /\ copy \in [Requests -> {None} \cup Record]
    /\ \A r \in Requests : copy[r] # None <=> pc[r] = "renew"
    /\ faults \in 0..MaxFaults /\ arrivals \in 0..MaxArrivals

\* In no span of time are more requests of one key admitted than the burst, what
\* the rate refills in that span, and what the seconds refill which a late check
\* put in front of the bucket a second time (within one life of the server:
\* buckets are memory).  Times are those the checks read.  About
\* TokenBucket::check, which reads the clock before it takes the lock.
RateBound ==
    \A k \in Keys : \A i, j \in 1..Len(admitted[k]) :
        LET a == admitted[k][i]
            b == admitted[k][j]
        IN  i <= j => 60 * (j - i + 1)
                        <= Capacity + ((b.at + b.again) - (a.at + a.again)) * Rpm

\* "Sustained rate plus how many requests can burst above that rate before
\* throttling kicks in" (RateLimitConfig): RateBound without what late checks
\* add.  TLC refutes it: a check that waits for the lock moves last_refill back
\* behind a refill already made, and the next one is given the same seconds again
\* (README, section 4).
SustainedRate ==
    \A k \in Keys : \A i, j \in 1..Len(admitted[k]) :
        LET a == admitted[k][i].at
            b == admitted[k][j].at
        IN  i <= j => 60 * (j - i + 1) <= Capacity + (IF a < b THEN b - a ELSE a - b) * Rpm

\* A client that waits as long as any Retry-After says finds a token, unless
\* another request of its key took it meanwhile; denied ones take none, and late
\* ones delay none.  About TokenBucket::check.
RetryAfterHonest ==
    \A k \in Keys : promised[k] # None /\ now >= promised[k] => Tokens(k, now) >= 60

\* What a request holds is released with it, however it ends, answered, refused
\* or dropped: a temporary file on disk and a place at the creation gate always
\* belong to a request in flight (or to the staging task it left behind), so no
\* later create waits for a guard nobody holds.
NothingLeftBehind ==
    /\ \A r \in temp : pc[r] \in {"staged", "orphan", "call"}
    /\ gate # None => pc[gate] = "call" /\ req[gate].route = "create" /\ req[gate].door = "rest"

\* The records that creates of the gateway saved and no renewal wrote back.
Share == {x \in store \ back : x[1] = "rest"}

\* Of the records in the store, at most max_sandboxes came through the gateway's
\* gate, whatever requests overlap, are dropped or die; a record that a renewal
\* wrote back after its deletion (create.rs, renew) is not counted.  The house as a
\* whole may be fuller: creates through lsbx mcp pass no gate.
ShareBounded == Cardinality(Share) <= MaxSandboxes
=============================================================================
