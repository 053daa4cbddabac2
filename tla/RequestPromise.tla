--------------------------- MODULE RequestPromise ---------------------------
(***************************************************************************)
(* What the core promises a client of its archive methods: one reply per   *)
(* request, one archive worker at a time, no reply while the request's own *)
(* worker runs, and no result for a request whose cancellation it accepted.*)
(* The promise ends when the core is told to stop.  CoreRequests keeps it. *)
(***************************************************************************)
CONSTANT Req

VARIABLES
  status,  \* of each request: idle, live, or the reply it got
  busy,    \* requests that have a worker running
  doomed,  \* requests whose cancellation was accepted
  open     \* the core has not been told to stop

serveVars == <<status, busy, doomed>>
promiseVars == <<serveVars, open>>

Answers == {"result", "error", "cancelled"}

PromiseInit ==
  /\ status = [r \in Req |-> "idle"]
  /\ busy = {}
  /\ doomed = {}
  /\ open = TRUE

Accept(r) ==
  /\ status[r] = "idle"
  /\ status' = [status EXCEPT ![r] = "live"]
  /\ UNCHANGED <<busy, doomed>>

Doom(r) ==
  /\ status[r] = "live"
  /\ doomed' = doomed \cup {r}
  /\ UNCHANGED <<status, busy>>

BeginWork(r) ==
  /\ status[r] = "live"
  /\ busy = {}
  /\ busy' = {r}
  /\ UNCHANGED <<status, doomed>>

EndWork(r) ==
  /\ busy = {r}
  /\ busy' = {}
  /\ UNCHANGED <<status, doomed>>

Answer(r, answer) ==
  /\ status[r] = "live"
  /\ r \notin busy
  /\ r \in doomed => answer # "result"
  /\ status' = [status EXCEPT ![r] = answer]
  /\ UNCHANGED <<busy, doomed>>

Serve ==
  \E r \in Req :
    \/ Accept(r) \/ Doom(r) \/ BeginWork(r) \/ EndWork(r)
    \/ \E answer \in Answers : Answer(r, answer)

Close == open' = FALSE /\ UNCHANGED serveVars

PromiseNext ==
  \/ open /\ Serve /\ UNCHANGED open
  \/ open /\ Close
  \/ ~open /\ UNCHANGED open

PromiseSpec == PromiseInit /\ [][PromiseNext]_promiseVars
=============================================================================
