--------------------------- MODULE CompileService ---------------------------
(***************************************************************************)
(* The compile service (src/service/server.cpp): one thread runs the       *)
(* handlers of all requests as coroutines, each from one co_await to the   *)
(* next, and the compiler qumirc (src/bin/driver.cpp) runs as child        *)
(* processes behind pipes.  Clients send bodies chunk by chunk and may     *)
(* leave, the compiler may be upgraded while the service runs, and the     *)
(* service may be killed; systemd starts it again.                         *)
(*                                                                         *)
(* A body is a number of chunks, and what the compiler makes of it is      *)
(* named by the request and the number of chunks it read.  Shared texts    *)
(* are sequences of symbols.  A handler that throws loses its connection.  *)
(***************************************************************************)
EXTENDS Integers, Sequences, FiniteSets

CONSTANTS
    Mixes,       \* the kinds of the requests that come one after another: a bound
    Payloads,    \* programs that are shared: [code, args, stdin]
    Absent,      \* what a member is that a payload does not have
    TempNames,   \* names that mkstemp chooses from
    CacheFor,    \* VersionCacheDuration
    PipeSize,    \* chunks that fit into a pipe
    MaxChunks,   \* bound of the chunks of a body
    MaxTime,     \* bound of the clock
    MaxUpgrades, \* bound of the compiler's upgrades
    MaxKills     \* bound of the service's crashes

ASSUME ServiceAssumption ==
    /\ Mixes \subseteq Seq({"stream", "wasm", "version", "share", "open"})
    /\ CacheFor \in Nat \ {0} /\ PipeSize \in Nat \ {0} /\ MaxChunks \in Nat \ {0}
    /\ MaxTime \in Nat /\ MaxUpgrades \in Nat /\ MaxKills \in Nat
    /\ \A p \in Payloads : p = [code |-> p.code, args |-> p.args, stdin |-> p.stdin]

VARIABLES
    mix,     \* the kind of each request
    world,   \* the clock, the compiler on disk, when each version was replaced, crashes
    cache,   \* CompilerVersion and CompilerVersionTime
    at,      \* where the handler of each request is
    client,  \* each client: its request, the chunks to come, when it asked, whether it left
    child,   \* the process started for each request
    answer,  \* what was sent to each client
    temps,   \* temporary files: whose each one is and what it holds
    shared   \* SharedLinksDir: what the files of each id hold
vars == <<mix, world, cache, at, client, child, answer, temps, shared>>

Requests == DOMAIN mix    \* numbered as they come
MaxRequests == CHOOSE n \in {Len(m) : m \in Mixes} : \A m \in Mixes : Len(m) <= n
Unknown == 0         \* "unknown": the compiler could not be run
Empty == -1          \* no version is known yet
Nothing == <<"nothing", Empty, 0>>
Finished == {"answered", "dropped"}

With(files, name, content) == [f \in DOMAIN files \cup {name} |-> IF f = name THEN content ELSE files[f]]

Goes(r, where) == at' = [at EXCEPT ![r] = where]
Answers(r, what) == Goes(r, "answered") /\ answer' = [answer EXCEPT ![r] = what]
Present(r) == ~client[r].gone
Is(r, kind) == client[r].kind = kind

\* What a handler that stores a share does next.
Storing == {"open code", "write code", "open members", "write members"}

\* Handlers share one thread: pipe.Wait() of one of them stops the others, and so do
\* the files of a share, which are written without an await.
LoopIsFree == \A r \in Requests : at[r] \notin Storing \cup {"waiting"}
Handles(r, where) == at[r] = where /\ LoopIsFree
-----------------------------------------------------------------------------
\* A request comes, and its handler starts at once.

NoClient == [kind |-> "none", body |-> 0, chunks |-> 0, begun |-> 0, gone |-> FALSE]

Arrives(r, kind, body) ==
    /\ mix[r] = kind
    /\ at[r] = "none" /\ (r > 1 => at[r - 1] # "none") /\ LoopIsFree
    /\ client' = [client EXCEPT ![r] = [kind |-> kind, body |-> body, begun |-> world.now, gone |-> FALSE,
                                      chunks |-> IF kind = "stream" THEN body ELSE 0]]
-----------------------------------------------------------------------------
\* The child process and its pipes.

Process(doing, eof, file) == [doing |-> doing, in |-> 0, eof |-> eof, read |-> 0, out |-> 0, left |-> 0,
                              failed |-> FALSE, result |-> Nothing, file |-> file]
NoChild == Process("none", FALSE, Empty)
Spawn(r, eof, file) == child' = [child EXCEPT ![r] = Process("reading", eof, file)]

Produces(r, failed, result, chunks) ==
    child' = [child EXCEPT ![r].doing = "writing", ![r].failed = failed, ![r].result = result,
                           ![r].left = chunks]

ChildOnly == UNCHANGED <<world, cache, at, client, answer, shared>>

ChildReads(r) ==
    /\ child[r].doing = "reading" /\ child[r].in > 0
    /\ child' = [child EXCEPT ![r].in = @ - 1, ![r].read = @ + 1]
    /\ ChildOnly /\ UNCHANGED temps

\* The parser reads the program as it goes and stops at the first error.
ChildRejects(r) ==
    /\ child[r].doing = "reading" /\ child[r].read > 0
    /\ Produces(r, TRUE, <<"rejected", r, child[r].read>>, 1)
    /\ ChildOnly /\ UNCHANGED temps

\* Nothing is written before the whole program was read.
ChildCompiles(r) ==
    /\ Is(r, "stream") /\ child[r].doing = "reading" /\ child[r].eof /\ child[r].in = 0
    /\ \E n \in 1..MaxChunks : Produces(r, FALSE, <<"compiled", r, child[r].read>>, n)
    /\ ChildOnly /\ UNCHANGED temps

\* A program that compiles goes to an object file beside the binary that is to be.
ChildCompilesFile(r) ==
    /\ Is(r, "wasm") /\ child[r].doing = "reading"
    /\ LET src == temps[<<child[r].file, "src">>].holds
       IN  \/ /\ child' = [child EXCEPT ![r].doing = "linking"]
              /\ temps' = With(temps, <<child[r].file, "obj">>, [owner |-> r, holds |-> <<"compiled", src[2], src[3]>>])
           \/ /\ Produces(r, TRUE, <<"rejected", src[2], src[3]>>, 1)
              /\ UNCHANGED temps
    /\ ChildOnly

\* wasm-ld makes the binary of the object file, which is then removed, or fails. The
\* output of the compiler is empty if it succeeds.
ChildLinks(r) ==
    /\ child[r].doing = "linking"
    /\ LET object == <<child[r].file, "obj">>
           holds == temps[object].holds
       IN  \/ /\ Produces(r, FALSE, holds, 0)
              /\ temps' = With([f \in DOMAIN temps \ {object} |-> temps[f]],
                               <<child[r].file, "wasm">>, [owner |-> r, holds |-> holds])
           \/ /\ Produces(r, TRUE, <<"rejected", holds[2], holds[3]>>, 1)
              /\ UNCHANGED temps
    /\ ChildOnly

ChildTellsVersion(r) ==
    /\ Is(r, "version") /\ child[r].doing = "reading"
    /\ \/ Produces(r, FALSE, <<"version", world.installed, 0>>, 1)
       \/ Produces(r, TRUE, <<"version", Unknown, 0>>, 0)
    /\ ChildOnly /\ UNCHANGED temps

ChildWrites(r) ==
    /\ child[r].doing = "writing" /\ child[r].left > 0 /\ child[r].out < PipeSize
    /\ child' = [child EXCEPT ![r].left = @ - 1, ![r].out = @ + 1]
    /\ ChildOnly /\ UNCHANGED temps

\* The output is closed when the process ends, a moment before it can be waited for.
ChildEnds(r) ==
    /\ \E from \in {"writing", "ending"} :
         /\ child[r].doing = from /\ child[r].left = 0
         /\ child' = [child EXCEPT ![r].doing = IF from = "writing" THEN "ending" ELSE "ended"]
    /\ ChildOnly /\ UNCHANGED temps

Child(r) == \/ ChildReads(r) \/ ChildRejects(r) \/ ChildCompiles(r) \/ ChildCompilesFile(r)
            \/ ChildLinks(r) \/ ChildTellsVersion(r) \/ ChildWrites(r) \/ ChildEnds(r)

OutputEnded(r) == child[r].doing \in {"ending", "ended"} /\ child[r].out = 0

\* Both loops that read a child's output end so, and wait for the process.
WaitForChild(r) ==
    /\ at[r] \in {"collecting", "relaying"} /\ LoopIsFree
    /\ OutputEnded(r)
    /\ Goes(r, "waiting")
    /\ UNCHANGED <<world, cache, client, child, answer, temps, shared>>

\* ReadPipe
Collect(r) ==
    /\ Handles(r, "collecting") /\ child[r].out > 0
    /\ child' = [child EXCEPT ![r].out = @ - 1]
    /\ UNCHANGED <<world, cache, at, client, answer, temps, shared>>

Reaped(r) == at[r] = "waiting" /\ child[r].doing = "ended"
-----------------------------------------------------------------------------
\* Get, /api/version

AskVersion(r) ==
    /\ Arrives(r, "version", 0)
    /\ IF cache.version = Empty \/ world.now - cache.time >= CacheFor
         THEN Goes(r, "collecting") /\ Spawn(r, TRUE, Empty) /\ UNCHANGED answer
         ELSE Answers(r, <<"version", cache.version, 0>>) /\ UNCHANGED child
    /\ UNCHANGED <<world, cache, temps, shared>>

\* Mutant of VersionKnown: the time is taken after the compiler answered.
VersionKnownLate(r) == [version |-> child[r].result[2], time |-> world.now]

\* `now` was taken before the compiler was started.
VersionKnown(r) == [version |-> child[r].result[2], time |-> client[r].begun]

GiveVersion(r) ==
    /\ Is(r, "version") /\ Reaped(r)
    /\ cache' = VersionKnown(r)
    /\ Answers(r, <<"version", cache'.version, 0>>)
    /\ child' = [child EXCEPT ![r] = NoChild]
    /\ UNCHANGED <<world, client, temps, shared>>
-----------------------------------------------------------------------------
\* Compile, for all targets but the wasm binary

StartStream(r) ==
    /\ \E n \in 0..MaxChunks : Arrives(r, "stream", n)
    /\ Spawn(r, FALSE, Empty)
    /\ Goes(r, "body")
    /\ UNCHANGED <<world, cache, answer, temps, shared>>

\* Mutant of ReadBody: a short read is taken for the last one.
ReadBodyShort(r) == IF client[r].chunks = 1 THEN "relaying" ELSE "writing"

\* Where ReadBodySome leads: n > 0 is written to the compiler.
ReadBody(r) == IF client[r].chunks = 0 THEN "relaying" ELSE "writing"

\* Mutant of CloseWrite: the compiler's input stays open.
CloseWriteForgotten(r) == UNCHANGED child

CloseWrite(r) == child' = [child EXCEPT ![r].eof = TRUE]

ReadBodySome(r) ==
    /\ Handles(r, "body") /\ Present(r)
    /\ Goes(r, ReadBody(r))
    /\ IF ReadBody(r) = "relaying"
         THEN CloseWrite(r) /\ UNCHANGED client
         ELSE client' = [client EXCEPT ![r].chunks = @ - 1] /\ UNCHANGED child
    /\ UNCHANGED <<world, cache, answer, temps, shared>>

\* Write waits for room in the pipe.
WriteChunk(r) ==
    /\ Handles(r, "writing") /\ child[r].doing # "ended" /\ child[r].in < PipeSize
    /\ child' = [child EXCEPT ![r].in = @ + 1]
    /\ Goes(r, "body")
    /\ UNCHANGED <<world, cache, client, answer, temps, shared>>

Relay(r) ==
    /\ Handles(r, "relaying") /\ Present(r) /\ child[r].out > 0
    /\ child' = [child EXCEPT ![r].out = @ - 1]
    /\ UNCHANGED <<world, cache, at, client, answer, temps, shared>>

AnswerStream(r) ==
    /\ Is(r, "stream") /\ Reaped(r)
    /\ Answers(r, child[r].result)
    /\ child' = [child EXCEPT ![r] = NoChild]
    /\ UNCHANGED <<world, cache, client, temps, shared>>
-----------------------------------------------------------------------------
\* Compile for the wasm binary

\* mkstemp
FreshNames == {n \in TempNames : <<n, "src">> \notin DOMAIN temps}

\* ReadBodyFull has the whole body: an empty one is refused.
CompileWasm(r) ==
    /\ \E body \in 0..1 :
         /\ Arrives(r, "wasm", body)
         /\ IF body = 0
              THEN Answers(r, <<"refused", r, 0>>) /\ UNCHANGED <<child, temps>>
              ELSE \E n \in FreshNames :
                     /\ temps' = With(temps, <<n, "src">>, [owner |-> r, holds |-> <<"body", r, body>>])
                     /\ Spawn(r, TRUE, n)
                     /\ Goes(r, "collecting") /\ UNCHANGED answer
    /\ UNCHANGED <<world, cache, shared>>

\* The binary is read before the process's record is given up.
ReadBinary(r) ==
    /\ Is(r, "wasm") /\ Reaped(r)
    /\ answer' = [answer EXCEPT ![r] =
         IF child[r].failed THEN child[r].result ELSE temps[<<child[r].file, "wasm">>].holds]
    /\ Goes(r, "sending")
    /\ UNCHANGED <<world, cache, client, child, temps, shared>>

FilesOf(r) == {<<child[r].file, "src">>, <<child[r].file, "wasm">>}

\* Mutant of RemoveTemps: only the source is removed.
RemoveTempsHalf(r) == temps' = [f \in DOMAIN temps \ {<<child[r].file, "src">>} |-> temps[f]]

RemoveTemps(r) == temps' = [f \in DOMAIN temps \ FilesOf(r) |-> temps[f]]

AnswerWasm(r) ==
    /\ Is(r, "wasm") /\ Handles(r, "sending") /\ Present(r)
    /\ Goes(r, "answered")
    /\ RemoveTemps(r)
    /\ child' = [child EXCEPT ![r] = NoChild]
    /\ UNCHANGED <<world, cache, client, answer, shared>>
-----------------------------------------------------------------------------
\* Shares

Printed(text) == IF text = Absent THEN <<>> ELSE <<"quote">> \o text \o <<"quote">>

\* The digest of the code and the printed members that are there; digests of
\* different texts are taken to be different.
ComputeSharedId(p) == p.code \o Printed(p.args) \o Printed(p.stdin)

IdOf(r) == ComputeSharedId(client[r].body)
CodeFile(id) == <<id, "kum">>
MembersFile(id) == <<id, "json">>

Members(p) == [args |-> p.args, stdin |-> p.stdin]
NoMembers == [args |-> Absent, stdin |-> Absent]    \* those of a file that is not whole

ServeShareCreate(r) ==
    /\ \E p \in Payloads : Arrives(r, "share", p)
    /\ Goes(r, "open code")
    /\ UNCHANGED <<world, cache, child, answer, temps, shared>>

Stores(r, file, content) ==
    /\ shared' = With(shared, file, content)
    /\ UNCHANGED <<world, cache, client, child, temps>>

\* Mutant of OpenCode: a text that is there already is not written again.
OpenCodeOnce(r) ==
    /\ at[r] = "open code"
    /\ IF CodeFile(IdOf(r)) \in DOMAIN shared
         THEN Answers(r, <<"share", IdOf(r), 0>>) /\ UNCHANGED shared
         ELSE Goes(r, "write code") /\ shared' = With(shared, CodeFile(IdOf(r)), <<>>) /\ UNCHANGED answer
    /\ UNCHANGED <<world, cache, client, child, temps>>

\* Opening a file empties it.
OpenCode(r) ==
    /\ at[r] = "open code"
    /\ Stores(r, CodeFile(IdOf(r)), <<>>)
    /\ Goes(r, "write code") /\ UNCHANGED answer

WriteCode(r) ==
    /\ at[r] = "write code"
    /\ Stores(r, CodeFile(IdOf(r)), client[r].body.code)
    /\ Goes(r, "open members") /\ UNCHANGED answer

OpenMembers(r) ==
    /\ at[r] = "open members"
    /\ Stores(r, MembersFile(IdOf(r)), NoMembers)
    /\ Goes(r, "write members") /\ UNCHANGED answer

WriteMembers(r) ==
    /\ at[r] = "write members"
    /\ Stores(r, MembersFile(IdOf(r)), Members(client[r].body))
    /\ Answers(r, <<"share", IdOf(r), 0>>)

StoreShare(r) == OpenCode(r) \/ WriteCode(r) \/ OpenMembers(r) \/ WriteMembers(r)

\* The code, and the members if they are there.
Found(id) ==
    LET members == IF MembersFile(id) \in DOMAIN shared THEN shared[MembersFile(id)] ELSE NoMembers
    IN  [code |-> shared[CodeFile(id)], args |-> members.args, stdin |-> members.stdin]

\* ServeShare, and the redirection of /s/
ServeShare(r) ==
    /\ \E link \in {q \in Requests : Is(q, "share") /\ at[q] = "answered"} :
         LET id == answer[link][2]
         IN  /\ Arrives(r, "open", link)
             /\ Answers(r, IF CodeFile(id) \in DOMAIN shared THEN <<"program", link, Found(id)>>
                           ELSE <<"missing", link, 0>>)
    /\ UNCHANGED <<world, cache, child, temps, shared>>
-----------------------------------------------------------------------------
\* What goes wrong: the compiler ended without reading all of its input, so
\* the write fails; the client left; the service is killed.

Drop(rs) == /\ at' = [r \in Requests |-> IF r \in rs THEN "dropped" ELSE at[r]]
            /\ child' = [r \in Requests |-> IF r \in rs THEN NoChild ELSE child[r]]

WriteFails(r) ==
    /\ Handles(r, "writing") /\ child[r].doing = "ended"
    /\ Drop({r})
    /\ UNCHANGED <<world, cache, client, answer, temps, shared>>

\* A handler learns that its client left when it reads from it or writes to it.
SeesClientGone(r) ==
    /\ at[r] \in {"body", "relaying", "sending"} /\ LoopIsFree
    /\ ~Present(r)
    /\ Drop({r})
    /\ UNCHANGED <<world, cache, client, answer, temps, shared>>

Leave(r) ==
    /\ client[r].kind \in {"stream", "wasm"} /\ at[r] \notin Finished /\ Present(r)
    /\ client' = [client EXCEPT ![r].gone = TRUE]
    /\ UNCHANGED <<world, cache, at, child, answer, temps, shared>>

\* Files stay, the version cache is lost, and the connections with it.
Kill ==
    /\ world.kills < MaxKills
    /\ world' = [world EXCEPT !.kills = @ + 1]
    /\ Drop({r \in Requests : at[r] \notin Finished \cup {"none"}})
    /\ cache' = [version |-> Empty, time |-> 0]
    /\ UNCHANGED <<client, answer, temps, shared>>

\* Time and the version on disk matter to the requests for the version only.
AsksVersion == \E r \in Requests : mix[r] = "version"

Tick ==
    /\ AsksVersion /\ world.now < MaxTime
    /\ world' = [world EXCEPT !.now = @ + 1]
    /\ UNCHANGED <<cache, at, client, child, answer, temps, shared>>

Upgrade ==
    /\ AsksVersion /\ world.installed <= MaxUpgrades
    /\ world' = [world EXCEPT !.installed = @ + 1, !.replaced = Append(@, world.now)]
    /\ UNCHANGED <<cache, at, client, child, answer, temps, shared>>
-----------------------------------------------------------------------------
Init ==
    /\ mix \in Mixes
    /\ world = [now |-> 0, installed |-> 1, replaced |-> <<>>, kills |-> 0]
    /\ cache = [version |-> Empty, time |-> 0]
    /\ at = [r \in Requests |-> "none"]
    /\ client = [r \in Requests |-> NoClient]
    /\ child = [r \in Requests |-> NoChild]
    /\ answer = [r \in Requests |-> Nothing]
    /\ temps = <<>>    \* no file
    /\ shared = <<>>

Request(r) == AskVersion(r) \/ StartStream(r) \/ CompileWasm(r) \/ ServeShareCreate(r) \/ ServeShare(r)

\* The handlers that start a compiler.
RunsCompiler(r) ==
    \/ GiveVersion(r) \/ Collect(r) \/ WaitForChild(r)
    \/ ReadBodySome(r) \/ WriteChunk(r) \/ Relay(r) \/ AnswerStream(r)
    \/ ReadBinary(r) \/ AnswerWasm(r)
    \/ WriteFails(r) \/ SeesClientGone(r)

Handler(r) == RunsCompiler(r) \/ StoreShare(r)

Next == /\ \/ \E r \in Requests : (Request(r) \/ Handler(r) \/ Child(r) \/ Leave(r))
           \/ Kill \/ Tick \/ Upgrade
        /\ UNCHANGED mix

HandlerOf(r) == r \in Requests /\ Handler(r) /\ UNCHANGED mix
ChildOf(r) == r \in Requests /\ Child(r) /\ UNCHANGED mix

Spec == Init /\ [][Next]_vars

\* The event loop resumes every handler that can go on, and the operating
\* system runs every process; a client sends its body or leaves.
ServiceSpec == /\ Spec
               /\ \A r \in 1..MaxRequests : WF_vars(HandlerOf(r)) /\ WF_vars(ChildOf(r))
-----------------------------------------------------------------------------
\* A version that is shown was the one on disk within CacheFor before the
\* request came, although several requests may ask the compiler at once and the
\* answers come in any order (server.cpp:184-195: "cached briefly").
FreshVersion ==
    \A r \in Requests :
        LET v == answer[r][2]
        IN  (Is(r, "version") /\ at[r] = "answered" /\ v \notin {Unknown, world.installed})
                => world.replaced[v] > client[r].begun - CacheFor

\* A client is answered with what the compiler made of exactly the body it
\* sent, whichever requests share the event loop and the temporary directory;
\* errors may be found before the end of the body.
AnswersOwnBody ==
    \A r \in Requests :
        client[r].kind \in {"stream", "wasm"} /\ at[r] = "answered" =>
            \/ answer[r] = <<"compiled", r, client[r].body>>
            \/ answer[r][1] = "rejected" /\ answer[r][2] = r
            \/ answer[r][1] = "refused" /\ client[r].body = 0

\* The files of a compilation go with its answer, those of the other ones stay, and
\* the compiler's own object file is left behind only by one that could not be linked
\* (server.cpp:464, driver.cpp:481-497).
TempsRemoved ==
    \A f \in DOMAIN temps :
        at[temps[f].owner] = "answered" => f[2] = "obj" /\ answer[temps[f].owner][1] = "rejected"

SharesBefore(r, id) == {s \in Requests : s < r /\ Is(s, "share") /\ IdOf(s) = id}

\* "A permanent link" (docs/ru/faq.md:56): a link that was given out always leads to a
\* program, and to all of what was shared last under its id, unless the service was
\* killed while that was being stored. So it leads to its own program unless another
\* one with the same text, or a crash, came in between.
LinksLead ==
    \A r \in Requests : Is(r, "open") /\ at[r] = "answered" =>
        /\ answer[r][1] = "program"
        /\ LET before == SharesBefore(r, IdOf(client[r].body))
           IN  \A s \in before : (\A q \in before : q <= s) /\ at[s] = "answered" => answer[r][3] = client[s].body

\* Every request is answered or dropped: the service and the compiler never
\* wait for each other, neither through full pipes nor for the end of the body.
EveryRequestEnds ==
    \A r \in 1..MaxRequests : (r \in Requests /\ at[r] # "none") ~> (r \in Requests /\ at[r] \in Finished)
=============================================================================
