---------------------------- MODULE HttpPipeline ----------------------------
(***************************************************************************)
(* One HTTP connection whose requests are pipelined: the worker thread     *)
(* runs them at the same time and answers them in order                    *)
(* (http-server/client/index.js, worker-handler/worker-thread.js), the     *)
(* parent thread owns the socket and delivers what the worker posts        *)
(* through a queue (worker-handler/index.js, client-delivery-queue.js,     *)
(* server-client.js).  A file is streamed by the parent, which reports the *)
(* transfer's result back; the client may go away at any moment.           *)
(***************************************************************************)
EXTENDS Naturals, Sequences, FiniteSets, SequencesExt

CONSTANTS
    RequestMax, \* bound on the requests of the connection
    NoRequest

ASSUME PipelineAssumption == RequestMax \in Nat /\ NoRequest \notin Nat

Requests == 1..RequestMax

\* What the worker posts, and what the delivery queue holds: a head with its
\* body, a head, a file, the answer to a malformed request, an end.
Posts == [op : {"whole", "head", "file"}, req : Requests] \cup [op : {"bad", "end"}]

VARIABLES
    parsed,     \* requests read so far
    isFile,     \* requests answered with a file
    closing,    \* requests after which the connection closes
    finished,   \* requests whose runner is done
    runners,    \* requestRunners
    drain,      \* where _drainDoneRequests is
    again,      \* _doneRequestsDrainPending
    current,    \* the request whose response it sends
    unsettled,  \* pendingFileResponses
    transfers,  \* fileTransfers
    outcome,    \* outcome[r]: what onFinished was told, a sequence of calls
    served,     \* does the worker still list the client
    toParent, toWorker, \* the two directions of the message port
    known,      \* does the parent still list the client
    tasks, active,      \* the delivery queue and its active task
    socket,     \* "open", "ended" or "closed"
    strays,     \* files whose transfer the queue gave up and that still run
    written     \* what went out on the socket

worker == <<parsed, isFile, closing, finished, runners, drain, again, current,
            unsettled, transfers, outcome, served>>
parent == <<known, tasks, active, socket, strays, written>>
pipeVars == <<worker, toParent, toWorker, parent>>

NoTask == [op |-> "none"]

PipelineTypeOK ==
    /\ parsed \in 0..RequestMax
    /\ isFile \subseteq Requests /\ closing \subseteq Requests /\ finished \subseteq Requests
    /\ runners \in Seq(Requests)
    /\ drain \in {"off", "look", "returned", "prepare", "file", "log"}
    /\ again \in BOOLEAN
    /\ current \in Requests \cup {NoRequest}
    /\ (drain \in {"prepare", "file", "log"}) = (current # NoRequest)
    /\ unsettled \subseteq isFile /\ transfers \subseteq isFile
    /\ \A r \in Requests : outcome[r] \in Seq({"completed", "aborted"})
    /\ served \in BOOLEAN
    /\ toParent \in Seq(Posts)
    /\ toWorker \in Seq([op : {"result"}, req : Requests, as : {"completed", "aborted"}]
                        \cup [op : {"abort"}])
    /\ known \in BOOLEAN
    /\ tasks \in Seq(Posts) /\ active \in Posts \cup {NoTask}
    /\ socket \in {"open", "ended", "closed"}
    /\ strays \subseteq isFile
    /\ written \in Seq(Posts)

PipelineInit ==
    /\ parsed = 0 /\ isFile = {} /\ closing = {} /\ finished = {}
    /\ runners = <<>> /\ drain = "off" /\ again = FALSE /\ current = NoRequest
    /\ unsettled = {} /\ transfers = {}
    /\ outcome = [r \in Requests |-> <<>>]
    /\ served = TRUE
    /\ toParent = <<>> /\ toWorker = <<>>
    /\ known = TRUE /\ tasks = <<>> /\ active = NoTask
    /\ socket = "open" /\ strays = {} /\ written = <<>>

-----------------------------------------------------------------------------
(* The worker                                                              *)

Post(what) == toParent' = toParent \o what

\* onWrite completes a request: executeCurrentRequest starts its runner.
Parse ==
    /\ parsed < RequestMax /\ served
    /\ parsed' = parsed + 1
    /\ runners' = Append(runners, parsed + 1)
    /\ isFile' \in {isFile, isFile \cup {parsed + 1}}
    /\ closing' \in {closing, closing \cup {parsed + 1}}
    /\ UNCHANGED <<finished, drain, again, current, unsettled, transfers, outcome, served, toParent, toWorker, parent>>

\* handleBadRequest answers at once, whatever is still running.
BadRequest ==
    /\ parsed < RequestMax /\ served
    /\ parsed' = RequestMax
    /\ Post(<<[op |-> "bad"], [op |-> "end"]>>)
    /\ UNCHANGED <<isFile, closing, finished, runners, drain, again, current, unsettled, transfers, outcome, served, toWorker, parent>>

\* A runner is done, in any order: requestDone starts the drain or marks it.
RunnerDone(r) ==
    /\ r \in ToSet(runners) \ finished
    /\ finished' = finished \cup {r}
    /\ drain' = IF drain = "off" THEN "look" ELSE drain
    /\ again' = (drain # "off")
    /\ UNCHANGED <<parsed, isFile, closing, runners, current, unsettled, transfers, outcome, served, toParent, toWorker, parent>>

\* Mutant: any request whose runner is done.
NextDoneAny == IF ToSet(runners) \cap finished = {} THEN {}
               ELSE {CHOOSE r \in ToSet(runners) \cap finished : TRUE}

\* The first request in the queue, if its runner is done.
NextDone == IF runners # <<>> /\ Head(runners) \in finished THEN {Head(runners)} ELSE {}

\* sendDoneRequests looks at the queue and takes its first request, or returns.
DrainLooks ==
    /\ drain = "look"
    /\ \/ \E r \in NextDone :
            /\ current' = r
            /\ runners' = SelectSeq(runners, LAMBDA q : q # r)
            /\ drain' = "prepare"
       \/ /\ NextDone = {}
          /\ drain' = "returned"
          /\ UNCHANGED <<current, runners>>
    /\ UNCHANGED <<parsed, isFile, closing, finished, again, unsettled, transfers, outcome, served, toParent, toWorker, parent>>

\* _drainDoneRequests goes on a microtask later: once more if it was marked.
DrainReturns ==
    /\ drain = "returned"
    /\ again' = FALSE
    /\ drain' = IF again THEN "look" ELSE "off"
    /\ UNCHANGED <<parsed, isFile, closing, finished, runners, current, unsettled, transfers, outcome, served, toParent, toWorker, parent>>

\* The file's size, or the compressed body, is there: sendResponse emits, and
\* waits for the transfer of a file (sendFileOutput).
Respond ==
    /\ drain = "prepare"
    /\ IF current \in isFile
       THEN /\ Post(<<[op |-> "head", req |-> current], [op |-> "file", req |-> current]>>)
            /\ unsettled' = unsettled \cup {current}
            /\ transfers' = transfers \cup {current}
            /\ drain' = "file"
       ELSE /\ Post(<<[op |-> "whole", req |-> current]>>)
            /\ drain' = "log"
            /\ UNCHANGED <<unsettled, transfers>>
    /\ UNCHANGED <<parsed, isFile, closing, finished, runners, again, current, outcome, served, toWorker, parent>>

\* The file is missing: the drain ends and the connection is to be closed.
RespondFails ==
    /\ drain = "prepare" /\ current \in isFile
    /\ Post(<<[op |-> "end"]>>)
    /\ drain' = "off"
    /\ current' = NoRequest
    /\ UNCHANGED <<parsed, isFile, closing, finished, runners, again, unsettled, transfers, outcome, served, toWorker, parent>>

\* The transfer has settled.
FileSettled ==
    /\ drain = "file" /\ current \notin unsettled
    /\ drain' = "log"
    /\ UNCHANGED <<parsed, isFile, closing, finished, runners, again, current, unsettled, transfers, outcome, served, toParent, toWorker, parent>>

\* The response is logged and its connection closed if it has to be.
Responded ==
    /\ drain = "log"
    /\ Post(IF current \in closing THEN <<[op |-> "end"]>> ELSE <<>>)
    /\ current' = NoRequest
    /\ drain' = "look"
    /\ UNCHANGED <<parsed, isFile, closing, finished, runners, again, unsettled, transfers, outcome, served, toWorker, parent>>

\* settle, called for the transfers of R and then for those of S: the first
\* call of a transfer decides, later ones do nothing.
Settle(R, S, as) ==
    /\ unsettled' = unsettled \ (R \cup S)
    /\ outcome' = [r \in Requests |->
           IF r \in unsettled \cap (R \cup S) THEN Append(outcome[r], as) ELSE outcome[r]]

\* handleClientFileResult
FileResult ==
    /\ toWorker # <<>> /\ Head(toWorker).op = "result"
    /\ toWorker' = Tail(toWorker)
    /\ LET m == Head(toWorker)
       IN  /\ transfers' = transfers \ {m.req}
           /\ Settle({m.req} \cap transfers, {}, m.as)
    /\ UNCHANGED <<parsed, isFile, closing, finished, runners, drain, again, current, served, toParent, parent>>

\* handleClientAbort of the worker: pending responses, then listed transfers.
ClientAbort ==
    /\ toWorker # <<>> /\ Head(toWorker).op = "abort"
    /\ toWorker' = Tail(toWorker)
    /\ Settle(unsettled, transfers, "aborted")
    /\ transfers' = {}
    /\ served' = FALSE
    /\ UNCHANGED <<parsed, isFile, closing, finished, runners, drain, again, current, toParent, parent>>

-----------------------------------------------------------------------------
(* The parent                                                              *)

Reply(what) == toWorker' = Append(toWorker, what)

Result(r, as) == [op |-> "result", req |-> r, as |-> as]

\* onWorkerMessage: a message for a client that is gone is dropped, but a file
\* is reported as aborted.
ParentReceives ==
    /\ toParent # <<>>
    /\ toParent' = Tail(toParent)
    /\ LET m == Head(toParent)
       IN  IF known THEN tasks' = Append(tasks, m) /\ UNCHANGED toWorker
           ELSE /\ IF m.op = "file" THEN Reply(Result(m.req, "aborted")) ELSE UNCHANGED toWorker
                /\ UNCHANGED tasks
    /\ UNCHANGED <<worker, known, active, socket, strays, written>>

\* The queue's _drain: the next task begins; a write is handed to the socket at
\* once, an end forbids further writes.
TaskBegins ==
    /\ active = NoTask /\ tasks # <<>>
    /\ active' = Head(tasks)
    /\ tasks' = Tail(tasks)
    /\ written' = IF socket = "open" /\ Head(tasks).op \in {"whole", "head", "bad"}
                  THEN Append(written, Head(tasks)) ELSE written
    /\ socket' = IF Head(tasks).op = "end" /\ socket = "open" THEN "ended" ELSE socket
    /\ UNCHANGED <<worker, toParent, toWorker, known, strays>>

\* A write is flushed.
TaskEnds ==
    /\ active.op \in {"whole", "head", "bad"}
    /\ active' = NoTask
    /\ UNCHANGED <<worker, toParent, toWorker, known, tasks, socket, strays, written>>

\* sendFile has streamed the file, or found the socket closed for writing.
FileSent ==
    /\ active.op = "file"
    /\ written' = IF socket = "open" THEN Append(written, active) ELSE written
    /\ Reply(Result(active.req, IF socket = "open" THEN "completed" ELSE "aborted"))
    /\ active' = NoTask
    /\ UNCHANGED <<worker, toParent, known, tasks, socket, strays>>

\* The file cannot be read: the socket is destroyed and closes later.
FileFails ==
    /\ active.op = "file"
    /\ Reply(Result(active.req, "aborted"))
    /\ active' = NoTask
    /\ socket' = IF socket = "open" THEN "ended" ELSE socket
    /\ UNCHANGED <<worker, toParent, known, tasks, strays, written>>

\* The socket closes, by the peer or after an end: handleClientAbort destroys
\* the queue and tells the worker.
SocketCloses ==
    /\ socket # "closed"
    /\ socket' = "closed"
    /\ known' = FALSE
    /\ strays' = IF active.op = "file" THEN strays \cup {active.req} ELSE strays
    /\ tasks' = <<>>
    /\ active' = NoTask
    /\ Reply([op |-> "abort"])
    /\ UNCHANGED <<worker, toParent, written>>

\* The transfer that was active then notices and reports too.
StrayReports(r) ==
    /\ r \in strays
    /\ strays' = strays \ {r}
    /\ Reply(Result(r, "aborted"))
    /\ UNCHANGED <<worker, toParent, known, tasks, active, socket, written>>

WorkerStep ==
    \/ Parse \/ BadRequest \/ DrainLooks \/ DrainReturns \/ Respond \/ RespondFails \/ FileSettled \/ Responded
    \/ FileResult \/ ClientAbort
    \/ \E r \in Requests : RunnerDone(r)

ParentStep ==
    \/ ParentReceives \/ TaskBegins \/ TaskEnds \/ FileSent \/ FileFails \/ SocketCloses
    \/ \E r \in Requests : StrayReports(r)

PipelineNext == WorkerStep \/ ParentStep

PipelineSpec == PipelineInit /\ [][PipelineNext]_pipeVars

-----------------------------------------------------------------------------
(* Properties                                                              *)

\* The requests whose response begins on the wire, in order.
Answered == LET heads == SelectSeq(written, LAMBDA t : t.op \in {"whole", "head"})
            IN  [i \in 1..Len(heads) |-> heads[i].req]

\* Responses go out in the order of the requests, none is left out, and a file
\* follows its head at once: whatever order the runners finish in, whichever
\* response fails and whatever closes the connection meanwhile.
ResponsesInOrder ==
    /\ Answered = [i \in 1..Len(Answered) |-> i]
    /\ \A i \in 1..Len(written) : written[i].op = "file" =>
           written[i - 1] = [op |-> "head", req |-> written[i].req]
    /\ \A i \in 1..Len(written) : written[i].op = "head" /\ i < Len(written) =>
           written[i + 1].op = "file"

\* Nothing is written behind a response that closes the connection.
NothingAfterClose ==
    \A i \in 1..Len(written) : written[i].op \in {"whole", "file"} /\ written[i].req \in closing =>
        \A j \in i + 1..Len(written) : written[j].op = "bad"

\* onFinished is called at most once, and is told "completed" for a file that
\* went out entirely.
FinishedOnce ==
    \A r \in Requests :
        /\ Len(outcome[r]) <= 1
        /\ outcome[r] = <<"completed">> => [op |-> "file", req |-> r] \in ToSet(written)

\* A transfer that has not settled has somebody who will settle it: its message
\* or its task is under way, or its result or an abort is on the way back.
TransferHasSettler ==
    \A r \in unsettled :
        \/ [op |-> "file", req |-> r] \in ToSet(toParent) \cup ToSet(tasks) \cup {active}
        \/ r \in strays
        \/ \E m \in ToSet(toWorker) : m.op = "abort" \/ m.req = r

\* A response that is ready is never left lying: the drain is going to look at
\* the queue, or the connection is being closed.
NoStalledResponse ==
    runners # <<>> /\ Head(runners) \in finished =>
        \/ drain \in {"look", "prepare", "file", "log"}
        \/ drain = "returned" /\ again
        \/ socket # "open"
        \/ [op |-> "end"] \in ToSet(toParent) \cup ToSet(tasks) \cup {active}

\* What the server promises a pipelining client: every response, once, in the
\* order of the requests, and none after the response that closes.
PipelineInv ==
    /\ PipelineTypeOK /\ ResponsesInOrder /\ NothingAfterClose
    /\ FinishedOnce /\ TransferHasSettler /\ NoStalledResponse

=============================================================================
