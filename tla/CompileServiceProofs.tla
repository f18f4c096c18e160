------------------------ MODULE CompileServiceProofs ------------------------
(***************************************************************************)
(* What CompileService promises, for any mixes of requests, bodies, pipes, *)
(* names of temporary files, upgrades and crashes.                         *)
(***************************************************************************)
EXTENDS CompileService, TLAPS

Kinds == {"stream", "wasm", "version", "share", "open"}
Places == {"none", "body", "writing", "relaying", "collecting", "waiting", "sending", "answered", "dropped"} \cup Storing
Idle == Finished \cup Storing \cup {"none"}
Busy(r) == at[r] \notin Idle    \* it runs a compiler

Results == {"nothing", "body", "compiled", "rejected", "version"} \X Int \X Int
Clients(bodies) == [kind : Kinds \cup {"none"}, body : bodies, chunks : Nat, begun : Nat, gone : BOOLEAN]
Children == [doing : {"none", "reading", "linking", "writing", "ending", "ended"}, in : Nat, eof : BOOLEAN, read : Nat,
             out : Int, left : Int, failed : BOOLEAN, result : Results, file : TempNames \cup {Empty}]
FileKinds == {"src", "obj", "wasm"}
TempFiles == [owner : Requests, holds : Results]

TypeOK ==
    /\ mix \in Mixes
    /\ world \in [now : Nat, installed : Nat \ {0}, replaced : Seq(Nat), kills : Nat]
    /\ Len(world.replaced) = world.installed - 1
    /\ cache \in [version : Int, time : Nat]
    /\ at \in [Requests -> Places]
    /\ client = [r \in Requests |-> client[r]]
    /\ \A r \in Requests : client[r] \in Clients(IF Is(r, "share") THEN Payloads ELSE Nat)
    /\ child \in [Requests -> Children]
    /\ answer = [r \in Requests |-> answer[r]]
    /\ temps = [f \in DOMAIN temps |-> temps[f]]
    /\ \A f \in DOMAIN temps : f \in (TempNames \cup {Empty}) \X FileKinds /\ temps[f] \in TempFiles
    /\ shared = [id \in DOMAIN shared |-> shared[id]]

\* A request is where its kind goes, and has a compiler while it is busy.
PlaceInv(r) ==
    /\ at[r] = "none" <=> client[r].kind = "none"
    /\ at[r] # "none" => client[r].kind = mix[r]
    /\ at[r] \in {"body", "writing", "relaying"} => mix[r] = "stream"
    /\ at[r] = "collecting" => mix[r] \in {"wasm", "version"}
    /\ at[r] = "sending" => mix[r] = "wasm"
    /\ at[r] = "waiting" => mix[r] \in {"stream", "wasm", "version"}
    /\ at[r] \in Storing => mix[r] = "share"
    /\ Busy(r) <=> child[r].doing # "none"
    /\ ~Is(r, "stream") => child[r].in = 0 /\ child[r].read = 0
    /\ child[r].doing = "linking" => mix[r] = "wasm"

OwnAnswer(r, a) == a = <<"compiled", r, client[r].body>> \/ (a[1] = "rejected" /\ a[2] = r)

HasResult(r) == child[r].doing \in {"writing", "ending", "ended"}

\* What was read of a body is in the handler's hand, in the pipe or was read by
\* the compiler, and the pipe is closed behind the last of it.
StreamInv(r) ==
    Is(r, "stream") /\ Busy(r) =>
        /\ client[r].chunks + (IF at[r] = "writing" THEN 1 ELSE 0) + child[r].in + child[r].read = client[r].body
        /\ child[r].eof => client[r].chunks = 0 /\ at[r] \in {"relaying", "waiting"}
        /\ HasResult(r) => OwnAnswer(r, child[r].result)

SourceOf(r) == <<child[r].file, "src">>
ObjectOf(r) == <<child[r].file, "obj">>
BinaryOf(r) == <<child[r].file, "wasm">>

\* The compiler's files are the request's own until it is answered.
WasmInv(r) ==
    Is(r, "wasm") /\ Busy(r) =>
        /\ client[r].body = 1
        /\ SourceOf(r) \in DOMAIN temps
        /\ temps[SourceOf(r)] = [owner |-> r, holds |-> <<"body", r, 1>>]
        /\ child[r].doing = "linking" =>
              ObjectOf(r) \in DOMAIN temps /\ temps[ObjectOf(r)] = [owner |-> r, holds |-> <<"compiled", r, 1>>]
        /\ HasResult(r) /\ child[r].failed => child[r].result[1] = "rejected" /\ child[r].result[2] = r
        /\ HasResult(r) /\ ~child[r].failed =>
              /\ BinaryOf(r) \in DOMAIN temps /\ temps[BinaryOf(r)].holds = <<"compiled", r, 1>>
              /\ ObjectOf(r) \notin DOMAIN temps
        /\ at[r] = "sending" =>
              OwnAnswer(r, answer[r]) /\ HasResult(r) /\ (child[r].failed => answer[r][1] = "rejected")

AnswerInv(r) ==
    client[r].kind \in {"stream", "wasm"} /\ at[r] = "answered" =>
        OwnAnswer(r, answer[r]) \/ (answer[r][1] = "refused" /\ client[r].body = 0)

\* A temporary file belongs to a request that came; if that one is busy it knows the
\* file's name, and if it was answered only an object file may be left. All but
\* object files have their source next to them.
TempsInv ==
    \A f \in DOMAIN temps :
        LET o == temps[f].owner
        IN  /\ at[o] # "none" /\ mix[o] = "wasm"
            /\ Busy(o) => f[1] = child[o].file
            /\ at[o] = "answered" => f[2] = "obj" /\ answer[o][1] = "rejected"
            /\ f[2] # "obj" => <<f[1], "src">> \in DOMAIN temps /\ temps[<<f[1], "src">>].owner = o

\* Version v was the one on disk at the time or later.
Current(v, time) ==
    \/ v = Unknown
    \/ v \in 1..world.installed /\ (v # world.installed => world.replaced[v] >= time)

CacheInv == cache.time <= world.now /\ (cache.version = Empty \/ Current(cache.version, cache.time))

VersionInv(r) ==
    /\ client[r].begun <= world.now
    /\ Is(r, "version") /\ HasResult(r) => Current(child[r].result[2], client[r].begun)
    /\ Is(r, "version") /\ at[r] = "answered" => Current(answer[r][2], client[r].begun - CacheFor + 1)

\* The last share of an id that was answered is in its files, and the text of one
\* that is being stored as soon as it was written.
StoreInv ==
    \A s \in Requests :
        /\ at[s] \in {"open members", "write members"} =>
              CodeFile(IdOf(s)) \in DOMAIN shared /\ shared[CodeFile(IdOf(s))] = client[s].body.code
        /\ Is(s, "share") /\ at[s] = "answered" /\ (\A t \in Requests : Is(t, "share") /\ IdOf(t) = IdOf(s) => t <= s) =>
              /\ CodeFile(IdOf(s)) \in DOMAIN shared /\ shared[CodeFile(IdOf(s))] = client[s].body.code
              /\ MembersFile(IdOf(s)) \in DOMAIN shared /\ shared[MembersFile(IdOf(s))] = Members(client[s].body)

\* Requests come one after another, and none while a share is being stored.
OrderInv ==
    \A q, r \in Requests : q < r =>
        /\ at[r] # "none" => at[q] # "none"
        /\ at[q] \in Storing => at[r] = "none"

ShareInv(r) ==
    Is(r, "share") /\ at[r] # "none" =>
        /\ at[r] \in Storing \cup Finished
        /\ at[r] = "answered" => answer[r][2] = IdOf(r) /\ CodeFile(IdOf(r)) \in DOMAIN shared

\* A link leads to what was shared last under its id before it was opened.
LeadsToLast(r, id) ==
    \A s \in SharesBefore(r, id) :
        (\A q \in SharesBefore(r, id) : q <= s) /\ at[s] = "answered" => answer[r][3] = client[s].body

OpenInv(r) ==
    Is(r, "open") /\ at[r] # "none" =>
        /\ at[r] = "answered"
        /\ client[r].body \in Requests /\ at[client[r].body] # "none"
        /\ \A s \in Requests : s < r => at[s] # "none" /\ (Is(s, "share") => at[s] \in Finished)
        /\ answer[r][1] = "program"
        /\ LeadsToLast(r, IdOf(client[r].body))

RequestInv(r) == PlaceInv(r) /\ StreamInv(r) /\ WasmInv(r) /\ AnswerInv(r) /\ VersionInv(r) /\ ShareInv(r) /\ OpenInv(r)

IInv == TypeOK /\ TempsInv /\ CacheInv /\ StoreInv /\ OrderInv /\ \A r \in Requests : RequestInv(r)
-----------------------------------------------------------------------------
\* Requests are numbers and have one of the kinds.
LEMMA Numbers ==
    ASSUME TypeOK
    PROVE  Requests \subseteq Nat /\ \A r \in Requests : mix[r] \in Kinds
  BY ServiceAssumption DEF TypeOK, Requests, Kinds

\* A process that was just started, or none.
LEMMA ProcessType ==
    ASSUME NEW doing \in {"none", "reading"}, NEW eof \in BOOLEAN, NEW file \in TempNames \cup {Empty}
    PROVE  Process(doing, eof, file) \in Children
<1>1. Nothing \in Results
  BY DEF Nothing, Results, Empty
<1>2. QED
  BY <1>1 DEF Process, Children

\* No process has the type of one.
LEMMA NoChildType == NoChild \in Children
  BY ProcessType DEF NoChild

\* What starting a process changes.
LEMMA SpawnTypes ==
    ASSUME TypeOK, NEW r \in Requests, NEW eof \in BOOLEAN, NEW file \in TempNames \cup {Empty},
           Spawn(r, eof, file)
    PROVE  /\ child' \in [Requests -> Children] /\ child'[r] = Process("reading", eof, file)
           /\ \A q \in Requests \ {r} : child'[q] = child[q]
<1>1. Process("reading", eof, file) \in Children
  BY ProcessType
<1>2. QED
  BY <1>1 DEF TypeOK, Spawn

\* What moving a handler changes.
LEMMA GoesTypes ==
    ASSUME TypeOK, NEW r \in Requests, NEW place \in Places, Goes(r, place)
    PROVE  at' \in [Requests -> Places] /\ at'[r] = place /\ \A q \in Requests \ {r} : at'[q] = at[q]
  BY DEF TypeOK, Goes

\* What answering a client changes.
LEMMA AnswersTypes ==
    ASSUME TypeOK, NEW r \in Requests, NEW what, Answers(r, what)
    PROVE  /\ at' \in [Requests -> Places] /\ answer' = [q \in Requests |-> answer'[q]]
           /\ at'[r] = "answered" /\ answer'[r] = what
           /\ \A q \in Requests \ {r} : at'[q] = at[q] /\ answer'[q] = answer[q]
<1>1. Goes(r, "answered") /\ "answered" \in Places
  BY DEF Answers, Places
<1>2. answer' = [answer EXCEPT ![r] = what]
  BY DEF Answers
<1>3. answer' = [q \in Requests |-> answer'[q]] /\ answer'[r] = what /\ \A q \in Requests \ {r} : answer'[q] = answer[q]
  BY <1>2 DEF TypeOK
<1>4. QED
  BY <1>1, <1>3, GoesTypes

\* A request that comes is the next one and nothing keeps the thread.
Comes(r) == at[r] = "none" /\ (r > 1 => at[r - 1] # "none") /\ LoopIsFree

\* What a request that comes makes of its client.
LEMMA ArrivesTypes ==
    ASSUME TypeOK, NEW r \in Requests, NEW kind, NEW body \in (IF kind = "share" THEN Payloads ELSE Nat),
           Arrives(r, kind, body)
    PROVE  /\ Comes(r) /\ at[r] = "none" /\ mix[r] = kind
           /\ client' = [q \in Requests |-> client'[q]] /\ \A q \in Requests \ {r} : client'[q] = client[q]
           /\ \A q \in Requests : client'[q] \in Clients(IF client'[q].kind = "share" THEN Payloads ELSE Nat)
           /\ client'[r] = [kind |-> kind, body |-> body, begun |-> world.now, gone |-> FALSE,
                            chunks |-> IF kind = "stream" THEN body ELSE 0]
<1>1. client' = [q \in Requests |-> client'[q]] /\ \A q \in Requests \ {r} : client'[q] = client[q]
  BY DEF TypeOK, Arrives
<1>2. kind \in Kinds /\ (IF kind = "stream" THEN body ELSE 0) \in Nat
  BY Numbers DEF Arrives
<1>3. \A q \in Requests : client'[q] \in Clients(IF client'[q].kind = "share" THEN Payloads ELSE Nat)
  BY <1>2 DEF TypeOK, Arrives, Is, Clients, Kinds
<1>4. Comes(r) /\ at[r] = "none" /\ mix[r] = kind
  BY DEF Arrives, Comes
<1>5. client'[r] = [kind |-> kind, body |-> body, begun |-> world.now, gone |-> FALSE,
                    chunks |-> IF kind = "stream" THEN body ELSE 0]
  BY DEF TypeOK, Arrives
<1>6. QED
  BY <1>1, <1>3, <1>4, <1>5

\* The state after a step whose requests are the same has the right types.
TypesKept ==
    /\ at' \in [Requests -> Places]
    /\ child' \in [Requests -> Children]
    /\ answer' = [q \in Requests |-> answer'[q]]
    /\ client' = [q \in Requests |-> client'[q]]
    /\ \A q \in Requests : client'[q] \in Clients(IF client'[q].kind = "share" THEN Payloads ELSE Nat)
    /\ temps' = [f \in DOMAIN temps' |-> temps'[f]]
    /\ \A f \in DOMAIN temps' : f \in (TempNames \cup {Empty}) \X FileKinds /\ temps'[f] \in TempFiles
    /\ shared' = [id \in DOMAIN shared' |-> shared'[id]]

\* The types before a step, part by part.
LEMMA TypesNow ==
    ASSUME TypeOK
    PROVE  /\ at \in [Requests -> Places]
           /\ child \in [Requests -> Children]
           /\ answer = [q \in Requests |-> answer[q]]
           /\ client = [q \in Requests |-> client[q]]
           /\ \A q \in Requests : client[q] \in Clients(IF client[q].kind = "share" THEN Payloads ELSE Nat)
           /\ temps = [f \in DOMAIN temps |-> temps[f]]
           /\ \A f \in DOMAIN temps : f \in (TempNames \cup {Empty}) \X FileKinds /\ temps[f] \in TempFiles
           /\ shared = [id \in DOMAIN shared |-> shared[id]]
  BY DEF TypeOK, Is

\* The parts make up the type invariant after a step.
LEMMA TypesAfter ==
    ASSUME TypeOK, TypesKept, UNCHANGED <<mix, world>>, cache' \in [version : Int, time : Nat]
    PROVE  TypeOK'
  BY DEF TypeOK, TypesKept, Requests, TempFiles, Is

\* What only one request has to do with.
OnlyOf(r) ==
    \A q \in Requests \ {r} : at'[q] = at[q] /\ client'[q] = client[q] /\ child'[q] = child[q] /\ answer'[q] = answer[q]

\* What a request that comes does to the state: its client, place, process and
\* answer.
LEMMA AskVersionEffect ==
    ASSUME TypeOK, NEW r \in Requests, AskVersion(r)
    PROVE  /\ TypesKept /\ OnlyOf(r) /\ UNCHANGED <<world, cache, temps, shared>>
           /\ Comes(r) /\ at[r] = "none" /\ mix[r] = "version"
           /\ client'[r] = [kind |-> "version", body |-> 0, begun |-> world.now, gone |-> FALSE, chunks |-> 0]
           /\ \/ /\ at'[r] = "collecting" /\ child'[r] = Process("reading", TRUE, Empty) /\ answer'[r] = answer[r]
              \/ /\ cache.version # Empty /\ world.now - cache.time < CacheFor
                 /\ at'[r] = "answered" /\ child'[r] = child[r] /\ answer'[r] = <<"version", cache.version, 0>>
<1>1. /\ Comes(r) /\ at[r] = "none" /\ mix[r] = "version"
      /\ client' = [q \in Requests |-> client'[q]] /\ \A q \in Requests \ {r} : client'[q] = client[q]
      /\ \A q \in Requests : client'[q] \in Clients(IF client'[q].kind = "share" THEN Payloads ELSE Nat)
      /\ client'[r] = [kind |-> "version", body |-> 0, begun |-> world.now, gone |-> FALSE, chunks |-> 0]
  <2>1. Arrives(r, "version", 0) /\ 0 \in (IF "version" = "share" THEN Payloads ELSE Nat)
    BY DEF AskVersion
  <2>2. QED
    BY <2>1, ArrivesTypes
<1>2. UNCHANGED <<world, cache, temps, shared>>
  BY DEF AskVersion
<1>3. CASE cache.version = Empty \/ world.now - cache.time >= CacheFor
  <2>1. Goes(r, "collecting") /\ Spawn(r, TRUE, Empty) /\ UNCHANGED answer /\ "collecting" \in Places
    BY <1>3 DEF AskVersion, Places
  <2>2. at' \in [Requests -> Places] /\ at'[r] = "collecting" /\ \A q \in Requests \ {r} : at'[q] = at[q]
    BY <2>1, GoesTypes
  <2>3. /\ child' \in [Requests -> Children] /\ child'[r] = Process("reading", TRUE, Empty)
        /\ \A q \in Requests \ {r} : child'[q] = child[q]
    BY <2>1, SpawnTypes, TRUE \in BOOLEAN
  <2>4. QED
    BY <1>1, <1>2, <2>1, <2>2, <2>3, TypesNow DEF TypesKept, OnlyOf
<1>4. CASE ~(cache.version = Empty \/ world.now - cache.time >= CacheFor)
  <2>1. Answers(r, <<"version", cache.version, 0>>) /\ UNCHANGED child
    BY <1>4 DEF AskVersion
  <2>2. /\ at' \in [Requests -> Places] /\ answer' = [q \in Requests |-> answer'[q]]
        /\ at'[r] = "answered" /\ answer'[r] = <<"version", cache.version, 0>>
        /\ \A q \in Requests \ {r} : at'[q] = at[q] /\ answer'[q] = answer[q]
    BY <2>1, AnswersTypes
  <2>3. cache.version # Empty /\ world.now - cache.time < CacheFor
    BY <1>4, ServiceAssumption DEF TypeOK
  <2>4. QED
    BY <1>1, <1>2, <2>1, <2>2, <2>3, TypesNow DEF TypesKept, OnlyOf
<1>5. QED
  BY <1>3, <1>4

\* A compilation to a stream starts with its whole body to come.
LEMMA StartStreamEffect ==
    ASSUME TypeOK, NEW r \in Requests, StartStream(r)
    PROVE  /\ TypesKept /\ OnlyOf(r) /\ UNCHANGED <<world, cache, answer, temps, shared>>
           /\ Comes(r) /\ at[r] = "none" /\ mix[r] = "stream" /\ at'[r] = "body"
           /\ child'[r] = Process("reading", FALSE, Empty)
           /\ \E n \in Nat : client'[r] = [kind |-> "stream", body |-> n, begun |-> world.now, gone |-> FALSE, chunks |-> n]
<1>1. PICK n \in 0..MaxChunks : Arrives(r, "stream", n)
  BY DEF StartStream
<1>2. n \in Nat /\ n \in (IF "stream" = "share" THEN Payloads ELSE Nat)
  BY ServiceAssumption
<1>3. /\ Comes(r) /\ at[r] = "none" /\ mix[r] = "stream"
      /\ client' = [q \in Requests |-> client'[q]] /\ \A q \in Requests \ {r} : client'[q] = client[q]
      /\ \A q \in Requests : client'[q] \in Clients(IF client'[q].kind = "share" THEN Payloads ELSE Nat)
      /\ client'[r] = [kind |-> "stream", body |-> n, begun |-> world.now, gone |-> FALSE, chunks |-> n]
  BY <1>1, <1>2, ArrivesTypes
<1>4. Goes(r, "body") /\ Spawn(r, FALSE, Empty) /\ UNCHANGED <<world, cache, answer, temps, shared>> /\ "body" \in Places
  BY DEF StartStream, Places
<1>5. at' \in [Requests -> Places] /\ at'[r] = "body" /\ \A q \in Requests \ {r} : at'[q] = at[q]
  BY <1>4, GoesTypes
<1>6. /\ child' \in [Requests -> Children] /\ child'[r] = Process("reading", FALSE, Empty)
      /\ \A q \in Requests \ {r} : child'[q] = child[q]
  BY <1>4, SpawnTypes, FALSE \in BOOLEAN
<1>7. QED
  BY <1>2, <1>3, <1>4, <1>5, <1>6, TypesNow DEF TypesKept, OnlyOf

\* A compilation to a binary is refused, or starts with a source of its own.
LEMMA CompileWasmEffect ==
    ASSUME TypeOK, NEW r \in Requests, CompileWasm(r)
    PROVE  /\ TypesKept /\ OnlyOf(r) /\ UNCHANGED <<world, cache, shared>>
           /\ Comes(r) /\ at[r] = "none" /\ mix[r] = "wasm"
           /\ \/ /\ client'[r] = [kind |-> "wasm", body |-> 0, begun |-> world.now, gone |-> FALSE, chunks |-> 0]
                 /\ at'[r] = "answered" /\ answer'[r] = <<"refused", r, 0>> /\ UNCHANGED <<child, temps>>
              \/ /\ client'[r] = [kind |-> "wasm", body |-> 1, begun |-> world.now, gone |-> FALSE, chunks |-> 0]
                 /\ at'[r] = "collecting" /\ UNCHANGED answer
                 /\ \E n \in FreshNames :
                      /\ child'[r] = Process("reading", TRUE, n)
                      /\ DOMAIN temps' = DOMAIN temps \cup {<<n, "src">>}
                      /\ temps'[<<n, "src">>] = [owner |-> r, holds |-> <<"body", r, 1>>]
                      /\ \A f \in DOMAIN temps \ {<<n, "src">>} : temps'[f] = temps[f]
<1>1. PICK body \in 0..1 :
        /\ Arrives(r, "wasm", body)
        /\ body = 0 => Answers(r, <<"refused", r, 0>>) /\ UNCHANGED <<child, temps>>
        /\ body # 0 => \E n \in FreshNames :
                         /\ temps' = With(temps, <<n, "src">>, [owner |-> r, holds |-> <<"body", r, body>>])
                         /\ Spawn(r, TRUE, n)
                         /\ Goes(r, "collecting") /\ UNCHANGED answer
  BY DEF CompileWasm
<1>2. body \in (IF "wasm" = "share" THEN Payloads ELSE Nat)
  OBVIOUS
<1>3. /\ Comes(r) /\ at[r] = "none" /\ mix[r] = "wasm"
      /\ client' = [q \in Requests |-> client'[q]] /\ \A q \in Requests \ {r} : client'[q] = client[q]
      /\ \A q \in Requests : client'[q] \in Clients(IF client'[q].kind = "share" THEN Payloads ELSE Nat)
      /\ client'[r] = [kind |-> "wasm", body |-> body, begun |-> world.now, gone |-> FALSE, chunks |-> 0]
  BY <1>1, <1>2, ArrivesTypes
<1>4. UNCHANGED <<world, cache, shared>>
  BY DEF CompileWasm
<1>5. CASE body = 0
  <2>1. /\ at' \in [Requests -> Places] /\ answer' = [q \in Requests |-> answer'[q]]
        /\ at'[r] = "answered" /\ answer'[r] = <<"refused", r, 0>>
        /\ \A q \in Requests \ {r} : at'[q] = at[q] /\ answer'[q] = answer[q]
    BY <1>1, <1>5, AnswersTypes
  <2>2. QED
    BY <1>1, <1>3, <1>4, <1>5, <2>1, TypesNow DEF TypesKept, OnlyOf
<1>6. CASE body = 1
  <2>0. PICK n \in FreshNames :
             /\ temps' = With(temps, <<n, "src">>, [owner |-> r, holds |-> <<"body", r, body>>])
             /\ Spawn(r, TRUE, n)
             /\ Goes(r, "collecting") /\ UNCHANGED answer
    <3>1. body # 0
      BY <1>6
    <3>2. QED
      BY <1>1, <3>1, Zenon
  <2>1. /\ temps' = With(temps, <<n, "src">>, [owner |-> r, holds |-> <<"body", r, 1>>])
        /\ Spawn(r, TRUE, n)
        /\ Goes(r, "collecting") /\ UNCHANGED answer
    BY <2>0, <1>6
  <2>2. n \in TempNames /\ TRUE \in BOOLEAN /\ "collecting" \in Places
    BY DEF FreshNames, Places
  <2>3. /\ child' \in [Requests -> Children] /\ child'[r] = Process("reading", TRUE, n)
        /\ \A q \in Requests \ {r} : child'[q] = child[q]
    BY <2>1, <2>2, SpawnTypes
  <2>4. at' \in [Requests -> Places] /\ at'[r] = "collecting" /\ \A q \in Requests \ {r} : at'[q] = at[q]
    BY <2>1, <2>2, GoesTypes
  <2>5. /\ temps' = [f \in DOMAIN temps' |-> temps'[f]] /\ DOMAIN temps' = DOMAIN temps \cup {<<n, "src">>}
        /\ temps'[<<n, "src">>] = [owner |-> r, holds |-> <<"body", r, 1>>]
        /\ \A f \in DOMAIN temps \ {<<n, "src">>} : temps'[f] = temps[f]
    BY <2>1 DEF With
  <2>6. \A f \in DOMAIN temps' : f \in (TempNames \cup {Empty}) \X FileKinds /\ temps'[f] \in TempFiles
    <3>1. <<"body", r, 1>> \in Results
      BY Numbers DEF Results
    <3>2. [owner |-> r, holds |-> <<"body", r, 1>>] \in TempFiles
      BY <3>1 DEF TempFiles
    <3>3. <<n, "src">> \in (TempNames \cup {Empty}) \X FileKinds
      BY <2>2 DEF FileKinds
    <3>4. QED
      BY <2>5, <3>2, <3>3, TypesNow
  <2>7. TypesKept /\ OnlyOf(r)
    BY <1>3, <1>4, <2>1, <2>3, <2>4, <2>5, <2>6, TypesNow DEF TypesKept, OnlyOf
  <2>8. QED
    BY <1>3, <1>4, <1>6, <2>1, <2>3, <2>4, <2>5, <2>7
<1>7. QED
  <2>1. body = 0 \/ body = 1
    OBVIOUS
  <2>2. QED
    BY <2>1, <1>5, <1>6

\* A shared program is about to be stored.
LEMMA ServeShareCreateEffect ==
    ASSUME TypeOK, NEW r \in Requests, ServeShareCreate(r)
    PROVE  /\ TypesKept /\ OnlyOf(r) /\ UNCHANGED <<world, cache, child, answer, temps, shared>>
           /\ Comes(r) /\ at[r] = "none" /\ mix[r] = "share" /\ at'[r] = "open code"
           /\ client'[r].kind = "share" /\ client'[r].begun = world.now
<1>1. PICK p \in Payloads : Arrives(r, "share", p)
  BY DEF ServeShareCreate
<1>2. p \in (IF "share" = "share" THEN Payloads ELSE Nat)
  OBVIOUS
<1>3. /\ Comes(r) /\ at[r] = "none" /\ mix[r] = "share"
      /\ client' = [q \in Requests |-> client'[q]] /\ \A q \in Requests \ {r} : client'[q] = client[q]
      /\ \A q \in Requests : client'[q] \in Clients(IF client'[q].kind = "share" THEN Payloads ELSE Nat)
      /\ client'[r] = [kind |-> "share", body |-> p, begun |-> world.now, gone |-> FALSE, chunks |-> 0]
  BY <1>1, <1>2, ArrivesTypes
<1>a. client'[r].kind = "share" /\ client'[r].begun = world.now
  BY <1>3
<1>4. Goes(r, "open code") /\ UNCHANGED <<world, cache, child, answer, temps, shared>> /\ "open code" \in Places
  BY DEF ServeShareCreate, Places, Storing
<1>5. at' \in [Requests -> Places] /\ at'[r] = "open code" /\ \A q \in Requests \ {r} : at'[q] = at[q]
  BY <1>4, GoesTypes
<1>6. QED
  BY <1>3, <1>a, <1>4, <1>5, TypesNow DEF TypesKept, OnlyOf

\* An opened link is answered with what is stored under its id.
LEMMA ServeShareEffect ==
    ASSUME TypeOK, NEW r \in Requests, ServeShare(r)
    PROVE  /\ TypesKept /\ OnlyOf(r) /\ UNCHANGED <<world, cache, child, temps, shared>>
           /\ Comes(r) /\ at[r] = "none" /\ mix[r] = "open" /\ at'[r] = "answered"
           /\ \E link \in Requests :
                /\ Is(link, "share") /\ at[link] = "answered"
                /\ client'[r] = [kind |-> "open", body |-> link, begun |-> world.now, gone |-> FALSE, chunks |-> 0]
                /\ answer'[r] = IF CodeFile(answer[link][2]) \in DOMAIN shared THEN <<"program", link, Found(answer[link][2])>>
                                ELSE <<"missing", link, 0>>
<1>1. PICK link \in Requests :
        /\ Is(link, "share") /\ at[link] = "answered"
        /\ Arrives(r, "open", link)
        /\ Answers(r, IF CodeFile(answer[link][2]) \in DOMAIN shared THEN <<"program", link, Found(answer[link][2])>>
                      ELSE <<"missing", link, 0>>)
  BY DEF ServeShare
<1>2. link \in (IF "open" = "share" THEN Payloads ELSE Nat)
  BY Numbers
<1>3. /\ Comes(r) /\ at[r] = "none" /\ mix[r] = "open"
      /\ client' = [q \in Requests |-> client'[q]] /\ \A q \in Requests \ {r} : client'[q] = client[q]
      /\ \A q \in Requests : client'[q] \in Clients(IF client'[q].kind = "share" THEN Payloads ELSE Nat)
      /\ client'[r] = [kind |-> "open", body |-> link, begun |-> world.now, gone |-> FALSE, chunks |-> 0]
  BY <1>1, <1>2, ArrivesTypes
<1>4. /\ at' \in [Requests -> Places] /\ answer' = [q \in Requests |-> answer'[q]] /\ at'[r] = "answered"
      /\ answer'[r] = IF CodeFile(answer[link][2]) \in DOMAIN shared THEN <<"program", link, Found(answer[link][2])>>
                      ELSE <<"missing", link, 0>>
      /\ \A q \in Requests \ {r} : at'[q] = at[q] /\ answer'[q] = answer[q]
  BY <1>1, AnswersTypes
<1>5. UNCHANGED <<world, cache, child, temps, shared>>
  BY DEF ServeShare
<1>6. TypesKept /\ OnlyOf(r)
  BY <1>3, <1>4, <1>5, TypesNow DEF TypesKept, OnlyOf
<1>7. QED
  BY <1>1, <1>3, <1>4, <1>5, <1>6

\* What a process makes of its input.
LEMMA ProducesTypes ==
    ASSUME TypeOK, NEW r \in Requests, NEW failed \in BOOLEAN, NEW result \in Results, NEW chunks \in Int,
           Produces(r, failed, result, chunks)
    PROVE  /\ child' \in [Requests -> Children]
           /\ child'[r] = [child[r] EXCEPT !.doing = "writing", !.failed = failed, !.result = result, !.left = chunks]
           /\ \A q \in Requests \ {r} : child'[q] = child[q]
<1>0. child \in [Requests -> Children]
  BY DEF TypeOK
<1>1. child'[r] = [child[r] EXCEPT !.doing = "writing", !.failed = failed, !.result = result, !.left = chunks]
  BY <1>0 DEF Produces, Children
<1>2. child' = [q \in Requests |-> child'[q]] /\ \A q \in Requests \ {r} : child'[q] = child[q]
  BY <1>0 DEF Produces
<1>3. child'[r] \in Children
  BY <1>0, <1>1 DEF Children
<1>4. QED
  BY <1>0, <1>1, <1>2, <1>3

\* A process is changed by its own steps and by those of its handler.
LEMMA ChildTypes ==
    ASSUME NEW r \in Requests, TypeOK, WasmInv(r), PlaceInv(r), Child(r)
    PROVE  /\ child' \in [Requests -> Children]
           /\ \A q \in Requests \ {r} : child'[q] = child[q]
           /\ UNCHANGED <<world, cache, at, client, answer, shared>>
<1> DEFINE Types == child' \in [Requests -> Children] /\ \A q \in Requests \ {r} : child'[q] = child[q]
<1>0. child \in [Requests -> Children] /\ r \in Int
  BY Numbers DEF TypeOK
<1>b. TRUE \in BOOLEAN /\ FALSE \in BOOLEAN /\ 0 \in Int /\ 1 \in Int
  OBVIOUS
<1>1. CASE ChildReads(r)
  <2>1. child' = [child EXCEPT ![r].in = @ - 1, ![r].read = @ + 1] /\ child[r].in > 0
    BY <1>1 DEF ChildReads
  <2>2. Types
    BY <1>0, <2>1 DEF Children
  <2>3. QED
    BY <1>1, <2>2 DEF ChildReads, ChildOnly
<1>2. CASE ChildRejects(r)
  <2>1. <<"rejected", r, child[r].read>> \in Results
    BY <1>0 DEF Results, Children
  <2>2. Types
    BY <1>2, <1>b, <2>1, ProducesTypes DEF ChildRejects
  <2>3. QED
    BY <1>2, <2>2 DEF ChildRejects, ChildOnly
<1>3. CASE ChildCompiles(r)
  <2>1. PICK n \in 1..MaxChunks : Produces(r, FALSE, <<"compiled", r, child[r].read>>, n)
    BY <1>3 DEF ChildCompiles
  <2>2. <<"compiled", r, child[r].read>> \in Results /\ n \in Int
    BY <1>0, ServiceAssumption DEF Results, Children
  <2>3. Types
    BY <2>1, <2>2, ProducesTypes
  <2>4. QED
    BY <1>3, <2>3 DEF ChildCompiles, ChildOnly
<1>4. CASE ChildCompilesFile(r)
  <2> DEFINE src == temps[SourceOf(r)].holds
  <2>1. SourceOf(r) \in DOMAIN temps
    BY <1>4 DEF ChildCompilesFile, WasmInv, PlaceInv, Is
  <2>2. temps[SourceOf(r)] \in TempFiles
    BY <2>1 DEF TypeOK
  <2>3. src \in Results
    BY <2>2 DEF TempFiles
  <2>4. <<"rejected", src[2], src[3]>> \in Results
    BY <2>3 DEF Results
  <2>5. CASE child' = [child EXCEPT ![r].doing = "linking"]
    <3>1. Types
      BY <1>0, <2>5 DEF Children
    <3>2. QED
      BY <1>4, <3>1 DEF ChildCompilesFile, ChildOnly
  <2>6. CASE Produces(r, TRUE, <<"rejected", src[2], src[3]>>, 1)
    <3>1. Types
      BY <1>b, <2>4, <2>6, ProducesTypes
    <3>2. QED
      BY <1>4, <3>1 DEF ChildCompilesFile, ChildOnly
  <2>7. QED
    BY <1>4, <2>5, <2>6 DEF ChildCompilesFile, SourceOf
<1>9. CASE ChildLinks(r)
  <2>1. child[r].doing = "linking"
    BY <1>9 DEF ChildLinks
  <2>2. temps[ObjectOf(r)] = [owner |-> r, holds |-> <<"compiled", r, 1>>]
    BY <2>1 DEF WasmInv, PlaceInv, Is, Busy, Idle
  <2>3. <<"rejected", r, 1>> \in Results /\ <<"compiled", r, 1>> \in Results
    BY <1>0 DEF Results
  <2>4. temps[ObjectOf(r)].holds = <<"compiled", r, 1>>
    BY <2>2
  <2>5. Produces(r, FALSE, <<"compiled", r, 1>>, 0) \/ Produces(r, TRUE, <<"rejected", r, 1>>, 1)
    <3> DEFINE holds == temps[ObjectOf(r)].holds
    <3>1. Produces(r, FALSE, holds, 0) \/ Produces(r, TRUE, <<"rejected", holds[2], holds[3]>>, 1)
      BY <1>9 DEF ChildLinks, ObjectOf
    <3>2. holds[2] = r /\ holds[3] = 1
      BY <2>4
    <3>3. QED
      BY <2>4, <3>1, <3>2
  <2>6. Types
    BY <1>b, <2>3, <2>5, ProducesTypes
  <2>7. QED
    BY <1>9, <2>6 DEF ChildLinks, ChildOnly
<1>5. CASE ChildTellsVersion(r)
  <2>1. <<"version", world.installed, 0>> \in Results /\ <<"version", Unknown, 0>> \in Results
    BY DEF Results, TypeOK, Unknown
  <2>2. CASE Produces(r, FALSE, <<"version", world.installed, 0>>, 1)
    BY <1>5, <1>b, <2>1, <2>2, ProducesTypes DEF ChildTellsVersion, ChildOnly
  <2>3. CASE Produces(r, TRUE, <<"version", Unknown, 0>>, 0)
    BY <1>5, <1>b, <2>1, <2>3, ProducesTypes DEF ChildTellsVersion, ChildOnly
  <2>4. QED
    BY <1>5, <2>2, <2>3 DEF ChildTellsVersion
<1>6. CASE ChildWrites(r)
  <2>1. child' = [child EXCEPT ![r].left = @ - 1, ![r].out = @ + 1]
    BY <1>6 DEF ChildWrites
  <2>2. Types
    BY <1>0, <2>1 DEF Children
  <2>3. QED
    BY <1>6, <2>2 DEF ChildWrites, ChildOnly
<1>7. CASE ChildEnds(r)
  <2>1. PICK doing \in {"ending", "ended"} : child' = [child EXCEPT ![r].doing = doing]
    BY <1>7 DEF ChildEnds
  <2>2. Types
    BY <1>0, <2>1 DEF Children
  <2>3. QED
    BY <1>7, <2>2 DEF ChildEnds, ChildOnly
<1>8. QED
  BY <1>1, <1>2, <1>3, <1>4, <1>5, <1>6, <1>7, <1>9 DEF Child

\* The process of a handler that ends is given up.
LEMMA GivenUpTypes ==
    ASSUME TypeOK, NEW r \in Requests, child' = [child EXCEPT ![r] = NoChild]
    PROVE  child' \in [Requests -> Children] /\ child'[r] = NoChild /\ \A q \in Requests \ {r} : child'[q] = child[q]
  BY NoChildType DEF TypeOK

\* What dropping requests changes.
LEMMA DropTypes ==
    ASSUME TypeOK, NEW rs, Drop(rs)
    PROVE  /\ at' \in [Requests -> Places] /\ child' \in [Requests -> Children]
           /\ \A q \in Requests : /\ q \in rs => at'[q] = "dropped" /\ child'[q] = NoChild
                                  /\ q \notin rs => at'[q] = at[q] /\ child'[q] = child[q]
  BY NoChildType DEF TypeOK, Drop, Places

\* A step of a handler keeps the types and concerns its request only.
LEMMA HandlerTypes ==
    ASSUME NEW r \in Requests, TypeOK, RunsCompiler(r)
    PROVE  TypesKept /\ OnlyOf(r)
<1>0. child \in [Requests -> Children] /\ at \in [Requests -> Places]
  BY DEF TypeOK
<1>1. CASE GiveVersion(r)
  <2>1. /\ at' \in [Requests -> Places] /\ answer' = [q \in Requests |-> answer'[q]]
        /\ \A q \in Requests \ {r} : at'[q] = at[q] /\ answer'[q] = answer[q]
    BY <1>1, AnswersTypes DEF GiveVersion
  <2>2. child' \in [Requests -> Children] /\ \A q \in Requests \ {r} : child'[q] = child[q]
    BY <1>1, GivenUpTypes DEF GiveVersion
  <2>3. QED
    BY <1>1, <2>1, <2>2, TypesNow DEF GiveVersion, TypesKept, OnlyOf
<1>2. CASE Collect(r)
  <2>1. child' = [child EXCEPT ![r].out = @ - 1]
    BY <1>2 DEF Collect
  <2>2. child' \in [Requests -> Children] /\ \A q \in Requests \ {r} : child'[q] = child[q]
    BY <1>0, <2>1 DEF Children
  <2>3. QED
    BY <1>2, <2>2, TypesNow DEF Collect, TypesKept, OnlyOf
<1>3. CASE WaitForChild(r)
  <2>1. "waiting" \in Places
    BY DEF Places
  <2>2. QED
    BY <1>3, <2>1, GoesTypes, TypesNow DEF WaitForChild, TypesKept, OnlyOf
<1>4. CASE ReadBodySome(r)
  <2>1. ReadBody(r) \in Places
    BY DEF Places, ReadBody
  <2>2. CASE ReadBody(r) = "relaying"
    <3>1. child' = [child EXCEPT ![r].eof = TRUE]
      BY <1>4, <2>2 DEF ReadBodySome, CloseWrite
    <3>2. child' \in [Requests -> Children] /\ \A q \in Requests \ {r} : child'[q] = child[q]
      BY <1>0, <3>1 DEF Children
    <3>3. QED
      BY <1>4, <2>1, <2>2, <3>2, GoesTypes, TypesNow DEF ReadBodySome, TypesKept, OnlyOf
  <2>3. CASE ReadBody(r) # "relaying"
    <3>1. client' = [client EXCEPT ![r].chunks = @ - 1] /\ client[r].chunks # 0
      BY <1>4, <2>3 DEF ReadBodySome, ReadBody
    <3>2. /\ client' = [q \in Requests |-> client'[q]]
          /\ client'[r] = [client[r] EXCEPT !.chunks = @ - 1]
          /\ \A q \in Requests \ {r} : client'[q] = client[q]
      BY <3>1 DEF TypeOK
    <3>3. client'[r] \in Clients(IF client'[r].kind = "share" THEN Payloads ELSE Nat)
      <4>1. client[r] \in Clients(IF client[r].kind = "share" THEN Payloads ELSE Nat)
        BY TypesNow
      <4>2. client'[r].kind = client[r].kind /\ client[r].chunks - 1 \in Nat
        BY <3>1, <3>2, <4>1 DEF Clients
      <4>3. \A bodies : client[r] \in Clients(bodies) => client'[r] \in Clients(bodies)
        BY <3>2, <4>2 DEF Clients
      <4>4. QED
        BY <4>1, <4>2, <4>3
    <3>4. QED
      BY <1>4, <2>1, <2>3, <3>2, <3>3, GoesTypes, TypesNow DEF ReadBodySome, TypesKept, OnlyOf, Is
  <2>4. QED
    BY <2>2, <2>3
<1>5. CASE WriteChunk(r)
  <2>1. child' = [child EXCEPT ![r].in = @ + 1] /\ "body" \in Places
    BY <1>5 DEF WriteChunk, Places
  <2>2. child' \in [Requests -> Children] /\ \A q \in Requests \ {r} : child'[q] = child[q]
    BY <1>0, <2>1 DEF Children
  <2>3. QED
    BY <1>5, <2>1, <2>2, GoesTypes, TypesNow DEF WriteChunk, TypesKept, OnlyOf
<1>6. CASE Relay(r)
  <2>1. child' = [child EXCEPT ![r].out = @ - 1]
    BY <1>6 DEF Relay
  <2>2. child' \in [Requests -> Children] /\ \A q \in Requests \ {r} : child'[q] = child[q]
    BY <1>0, <2>1 DEF Children
  <2>3. QED
    BY <1>6, <2>2, TypesNow DEF Relay, TypesKept, OnlyOf
<1>7. CASE AnswerStream(r)
  <2>1. /\ at' \in [Requests -> Places] /\ answer' = [q \in Requests |-> answer'[q]]
        /\ \A q \in Requests \ {r} : at'[q] = at[q] /\ answer'[q] = answer[q]
    BY <1>7, AnswersTypes DEF AnswerStream
  <2>2. child' \in [Requests -> Children] /\ \A q \in Requests \ {r} : child'[q] = child[q]
    BY <1>7, GivenUpTypes DEF AnswerStream
  <2>3. QED
    BY <1>7, <2>1, <2>2, TypesNow DEF AnswerStream, TypesKept, OnlyOf
<1>8. CASE ReadBinary(r)
  <2>1. "sending" \in Places
    BY DEF Places
  <2>2. answer' = [q \in Requests |-> answer'[q]] /\ \A q \in Requests \ {r} : answer'[q] = answer[q]
    BY <1>8 DEF ReadBinary, TypeOK
  <2>3. QED
    BY <1>8, <2>1, <2>2, GoesTypes, TypesNow DEF ReadBinary, TypesKept, OnlyOf
<1>9. CASE AnswerWasm(r)
  <2>1. "answered" \in Places
    BY DEF Places
  <2>2. /\ temps' = [f \in DOMAIN temps' |-> temps'[f]]
        /\ DOMAIN temps' \subseteq DOMAIN temps /\ \A f \in DOMAIN temps' : temps'[f] = temps[f]
    BY <1>9 DEF AnswerWasm, RemoveTemps, TypeOK
  <2>3. at' \in [Requests -> Places] /\ \A q \in Requests \ {r} : at'[q] = at[q]
    BY <1>9, <2>1, GoesTypes DEF AnswerWasm
  <2>4. child' \in [Requests -> Children] /\ \A q \in Requests \ {r} : child'[q] = child[q]
    BY <1>9, GivenUpTypes DEF AnswerWasm
  <2>5. QED
    BY <1>9, <2>2, <2>3, <2>4, TypesNow DEF AnswerWasm, TypesKept, OnlyOf
<1>10. CASE WriteFails(r)
  BY <1>10, DropTypes, TypesNow DEF WriteFails, TypesKept, OnlyOf
<1>11. CASE SeesClientGone(r)
  BY <1>11, DropTypes, TypesNow DEF SeesClientGone, TypesKept, OnlyOf
<1>12. QED
  BY <1>1, <1>2, <1>3, <1>4, <1>5, <1>6, <1>7, <1>8, <1>9, <1>10, <1>11 DEF RunsCompiler
-----------------------------------------------------------------------------
\* What a step must leave alone so that the invariant of a request it does not
\* concern is kept: its files, what is shared, and the links it came by.
FilesKept(q) ==
    Is(q, "wasm") /\ Busy(q) =>
        \A kind \in FileKinds :
            LET f == <<child[q].file, kind>>
            IN  (f \in DOMAIN temps' <=> f \in DOMAIN temps) /\ (f \in DOMAIN temps => temps'[f] = temps[f])

\* A request that came stays what it is, and answers are given once.
Stays(p) ==
    at[p] # "none" =>
        /\ at'[p] # "none" /\ client'[p].kind = client[p].kind /\ client'[p].body = client[p].body
        /\ at[p] \in Finished => at'[p] = at[p] /\ answer'[p] = answer[p]

\* What a link leads to does not depend on requests that come after it.
LEMMA LeadsToLastKept ==
    ASSUME NEW r \in Requests, NEW id, UNCHANGED mix, answer'[r] = answer[r], \A p \in Requests : Stays(p),
           \A s \in Requests : s < r => at[s] # "none" /\ (Is(s, "share") => at[s] \in Finished),
           LeadsToLast(r, id)
    PROVE  LeadsToLast(r, id)'
<1>1. Requests' = Requests
  BY DEF Requests
<1>2. SharesBefore(r, id)' = SharesBefore(r, id)
  BY <1>1 DEF SharesBefore, Stays, Is, IdOf
<1>3. \A s \in SharesBefore(r, id) : s \in Requests /\ at'[s] = at[s] /\ client'[s].body = client[s].body
  BY DEF SharesBefore, Stays
<1>4. QED
  BY <1>2, <1>3 DEF LeadsToLast

\* A step that leaves a request and its files alone keeps what holds of it.
LEMMA OtherKept ==
    ASSUME TypeOK, NEW q \in Requests, RequestInv(q), UNCHANGED mix,
           world'.now = world.now, world'.installed = world.installed, world'.replaced = world.replaced,
           at'[q] = at[q], client'[q] = client[q], child'[q] = child[q], answer'[q] = answer[q],
           FilesKept(q), \A p \in Requests : Stays(p), DOMAIN shared \subseteq DOMAIN shared'
    PROVE  RequestInv(q)'
<1> USE DEF Is, Busy, HasResult, OwnAnswer
<1>1. PlaceInv(q)' /\ StreamInv(q)' /\ AnswerInv(q)'
  BY DEF RequestInv, PlaceInv, StreamInv, AnswerInv
<1>2. WasmInv(q)'
  <2>1. CASE Is(q, "wasm") /\ Busy(q)
    <3>1. SourceOf(q)' = SourceOf(q) /\ ObjectOf(q)' = ObjectOf(q) /\ BinaryOf(q)' = BinaryOf(q)
      BY DEF SourceOf, ObjectOf, BinaryOf
    <3>2. \A f \in {SourceOf(q), ObjectOf(q), BinaryOf(q)} :
             (f \in DOMAIN temps' <=> f \in DOMAIN temps) /\ (f \in DOMAIN temps => temps'[f] = temps[f])
      BY <2>1 DEF FilesKept, FileKinds, SourceOf, ObjectOf, BinaryOf
    <3>3. QED
      BY <2>1, <3>1, <3>2 DEF RequestInv, WasmInv
  <2>2. QED
    BY <2>1 DEF WasmInv
<1>3. VersionInv(q)'
  BY DEF RequestInv, VersionInv, Current
<1>4. ShareInv(q)'
  BY DEF RequestInv, ShareInv, IdOf
<1>5. OpenInv(q)'
  <2>1. CASE Is(q, "open") /\ at[q] # "none"
    <3>1. /\ at[q] = "answered" /\ client[q].body \in Requests /\ at[client[q].body] # "none"
          /\ \A s \in Requests : s < q => at[s] # "none" /\ (Is(s, "share") => at[s] \in Finished)
          /\ answer[q][1] = "program" /\ LeadsToLast(q, IdOf(client[q].body))
      BY <2>1 DEF RequestInv, OpenInv
    <3>2. IdOf(client[q].body)' = IdOf(client[q].body)
      BY <3>1 DEF Stays, IdOf
    <3>3. LeadsToLast(q, IdOf(client[q].body))'
      BY <3>1, <3>2, LeadsToLastKept
    <3>4. /\ at'[q] = "answered" /\ client'[q].body \in Requests /\ at'[client'[q].body] # "none"
          /\ answer'[q][1] = "program"
      BY <3>1 DEF Stays
    <3>5. ASSUME NEW s \in Requests, s < q
          PROVE  at'[s] # "none" /\ (client'[s].kind = "share" => at'[s] \in Finished)
      BY <3>1, <3>5 DEF Stays
    <3>6. Requests' = Requests
      BY DEF Requests
    <3>7. QED
      BY <3>3, <3>4, <3>5, <3>6 DEF OpenInv
  <2>2. QED
    BY <2>1 DEF OpenInv
<1>6. QED
  BY <1>1, <1>2, <1>3, <1>4, <1>5 DEF RequestInv

\* The files are left alone, and r keeps the name of its own until it is dropped.
LEMMA TempsUntouched ==
    ASSUME TypeOK, TempsInv, NEW r \in Requests, OnlyOf(r), UNCHANGED <<mix, temps>>,
           \/ at[r] = "none"
           \/ mix[r] # "wasm"
           \/ at'[r] = "dropped"
           \/ Busy(r) /\ Busy(r)' /\ child'[r].file = child[r].file
           \/ at'[r] = at[r] /\ child'[r] = child[r] /\ answer'[r] = answer[r]
    PROVE  TempsInv'
<1> SUFFICES ASSUME NEW f \in DOMAIN temps
             PROVE  LET o == temps[f].owner
                    IN  /\ at'[o] # "none" /\ mix[o] = "wasm"
                        /\ Busy(o)' => f[1] = child'[o].file
                        /\ at'[o] = "answered" => f[2] = "obj" /\ answer'[o][1] = "rejected"
                        /\ f[2] # "obj" => <<f[1], "src">> \in DOMAIN temps /\ temps[<<f[1], "src">>].owner = o
  BY DEF TempsInv
<1> DEFINE o == temps[f].owner
<1>1. o \in Requests
  BY DEF TypeOK, TempFiles
<1>2. /\ at[o] # "none" /\ mix[o] = "wasm"
      /\ Busy(o) => f[1] = child[o].file
      /\ at[o] = "answered" => f[2] = "obj" /\ answer[o][1] = "rejected"
      /\ f[2] # "obj" => <<f[1], "src">> \in DOMAIN temps /\ temps[<<f[1], "src">>].owner = o
  BY DEF TempsInv
<1>3. CASE o # r
  BY <1>1, <1>2, <1>3 DEF OnlyOf, Busy
<1>4. CASE o = r
  BY <1>2, <1>4 DEF Busy, Idle, Finished, Storing
<1>5. QED
  BY <1>3, <1>4

\* How a step moves its request: it comes, or it stays and does not start to store.
Moves(r) ==
    \/ Comes(r)
    \/ at[r] # "none" /\ Stays(r) /\ (at'[r] \in Storing => at[r] \in Storing)

\* A step that moves one request keeps the order in which they come.
LEMMA OrderKept ==
    ASSUME TypeOK, OrderInv, NEW r \in Requests, UNCHANGED mix, OnlyOf(r), Moves(r)
    PROVE  OrderInv'
<1>1. Requests' = Requests /\ Requests \subseteq Nat /\ \A n \in Requests : 1 <= n /\ \A m \in Nat : 1 <= m /\ m <= n => m \in Requests
  <2>1. mix \in Seq({"stream", "wasm", "version", "share", "open"})
    BY ServiceAssumption DEF TypeOK
  <2>2. Len(mix) \in Nat /\ Requests = 1..Len(mix)
    BY <2>1 DEF Requests
  <2>3. QED
    BY <2>2 DEF Requests
<1>2. CASE Comes(r)
  <2>1. ASSUME NEW q \in Requests, q < r PROVE at[q] # "none" /\ at[q] \notin Storing
    <3>1. r - 1 \in Requests /\ at[r - 1] # "none" /\ at[q] \notin Storing
      BY <1>1, <1>2, <2>1 DEF Comes, LoopIsFree
    <3>2. q = r - 1 \/ q < r - 1
      BY <1>1, <2>1
    <3>3. QED
      BY <3>1, <3>2 DEF OrderInv
  <2>2. ASSUME NEW q \in Requests, r < q PROVE at[q] = "none"
    BY <1>2, <2>2 DEF Comes, OrderInv
  <2>3. ASSUME NEW p \in Requests, NEW q \in Requests, p < q
        PROVE  (at'[q] # "none" => at'[p] # "none") /\ (at'[p] \in Storing => at'[q] = "none")
    <3>1. CASE q = r
      BY <1>1, <2>1, <2>3, <3>1 DEF OnlyOf
    <3>2. CASE p = r
      BY <1>1, <2>2, <2>3, <3>2 DEF OnlyOf
    <3>3. CASE p # r /\ q # r
      BY <2>3, <3>3 DEF OnlyOf, OrderInv
    <3>4. QED
      BY <3>1, <3>2, <3>3
  <2>4. QED
    BY <1>1, <2>3 DEF OrderInv
<1>3. CASE at[r] # "none" /\ at'[r] # "none" /\ (at'[r] \in Storing => at[r] \in Storing)
  <2>1. \A q \in Requests : (at'[q] = "none" <=> at[q] = "none") /\ (at'[q] \in Storing => at[q] \in Storing)
    BY <1>3 DEF OnlyOf
  <2>2. QED
    BY <1>1, <2>1 DEF OrderInv
<1>4. QED
  BY <1>2, <1>3 DEF Moves, Stays

\* Steps of requests that are no shares leave what is stored alone, and so does a
\* share that comes.
LEMMA StoreKept ==
    ASSUME StoreInv, UNCHANGED <<mix, shared>>,
           \A p \in Requests : Stays(p) /\ (at[p] = "none" => client[p].kind = "none"),
           \A s \in Requests :
               at'[s] \in {"open members", "write members"} \/ (client'[s].kind = "share" /\ at'[s] = "answered")
                   => at'[s] = at[s] /\ client'[s].kind = client[s].kind
    PROVE  StoreInv'
<1>1. Requests' = Requests
  BY DEF Requests
<1>2. ASSUME NEW s \in Requests, at'[s] \in {"open members", "write members"}
      PROVE  CodeFile(IdOf(s)') \in DOMAIN shared /\ shared[CodeFile(IdOf(s)')] = client'[s].body.code
  <2>1. at'[s] = at[s] /\ at[s] # "none"
    BY <1>2
  <2>2. client'[s].body = client[s].body
    BY <2>1 DEF Stays
  <2>3. QED
    BY <1>2, <2>1, <2>2 DEF StoreInv, IdOf
<1>3. ASSUME NEW s \in Requests, client'[s].kind = "share", at'[s] = "answered",
             \A t \in Requests : client'[t].kind = "share" /\ IdOf(t)' = IdOf(s)' => t <= s
      PROVE  /\ CodeFile(IdOf(s)') \in DOMAIN shared /\ shared[CodeFile(IdOf(s)')] = client'[s].body.code
             /\ MembersFile(IdOf(s)') \in DOMAIN shared /\ shared[MembersFile(IdOf(s)')] = Members(client'[s].body)
  <2>1. at[s] = "answered" /\ client[s].kind = "share" /\ client'[s].body = client[s].body
    BY <1>3 DEF Stays
  <2>2. \A t \in Requests : client[t].kind = "share" /\ IdOf(t) = IdOf(s) => t <= s
    BY <1>3, <2>1 DEF Stays, IdOf
  <2>3. QED
    BY <2>1, <2>2 DEF StoreInv, IdOf, Is
<1>4. QED
  BY <1>1, <1>2, <1>3 DEF StoreInv, Is, CodeFile, MembersFile

\* A step of one request keeps the invariant if it keeps what is said of this
\* request and of the files, the version cache and the shares.
LEMMA StepKeeps ==
    ASSUME IInv, NEW r \in Requests, UNCHANGED <<mix, world>>, TypesKept, OnlyOf(r), Moves(r),
           cache' \in [version : Int, time : Nat],
           \A q \in Requests \ {r} : FilesKept(q), DOMAIN shared \subseteq DOMAIN shared',
           (UNCHANGED shared /\ (mix[r] # "share" \/ at'[r] = "open code")) \/ StoreInv',
           RequestInv(r)', TempsInv', CacheInv'
    PROVE  IInv'
<1>1. TypeOK'
  BY TypesAfter DEF IInv
<1>2. \A p \in Requests : Stays(p)
  BY DEF Stays, OnlyOf, Moves, Comes
<1>3. ASSUME NEW q \in Requests \ {r} PROVE RequestInv(q)'
  BY <1>2, OtherKept DEF IInv, OnlyOf
<1>4. \A q \in Requests : RequestInv(q)'
  BY <1>3
<1>5. Requests' = Requests
  BY DEF Requests
<1>6. OrderInv'
  BY OrderKept DEF IInv
<1>7. StoreInv'
  <2>1. CASE UNCHANGED shared /\ (mix[r] # "share" \/ at'[r] = "open code")
    <3>1. client'[r].kind = "share" \/ at'[r] \in Storing => mix[r] = "share"
      BY DEF RequestInv, PlaceInv
    <3>2. \A p \in Requests : at[p] = "none" => client[p].kind = "none"
      BY DEF IInv, RequestInv, PlaceInv
    <3>3. QED
      BY <1>2, <2>1, <3>1, <3>2, StoreKept DEF IInv, OnlyOf, Storing
  <2>2. QED
    BY <2>1
<1>8. QED
  BY <1>1, <1>4, <1>5, <1>6, <1>7 DEF IInv

\* While the files stay, those of every request do.
LEMMA FilesUntouched ==
    ASSUME UNCHANGED temps
    PROVE  \A q \in Requests : FilesKept(q)
  BY DEF FilesKept

\* A version that was on disk at a time was so at an earlier time or later.
LEMMA CurrentEarlier ==
    ASSUME TypeOK, NEW v, NEW time \in Int, NEW earlier \in Int, earlier <= time, Current(v, time)
    PROVE  Current(v, earlier)
<1>1. CASE v \in 1..world.installed /\ v # world.installed
  <2>1. v \in 1..Len(world.replaced) /\ world.replaced \in Seq(Nat)
    BY <1>1 DEF TypeOK
  <2>2. world.replaced[v] \in Nat
    BY <2>1
  <2>3. QED
    BY <1>1, <2>2 DEF Current, Unknown
<1>2. CASE ~(v \in 1..world.installed /\ v # world.installed)
  BY <1>2 DEF Current
<1>3. QED
  BY <1>1, <1>2

\* When a request comes, those before it came and those after it did not.
LEMMA RequestsBefore ==
    ASSUME TypeOK, OrderInv, NEW r \in Requests, Comes(r), NEW q \in Requests
    PROVE  (q < r => at[q] # "none") /\ (at[q] # "none" => q < r)
<1>1. mix \in Seq({"stream", "wasm", "version", "share", "open"})
  BY ServiceAssumption DEF TypeOK
<1>2. Len(mix) \in Nat /\ Requests = 1..Len(mix)
  BY <1>1 DEF Requests
<1>3. r \in Nat /\ q \in Nat /\ 1 <= r /\ 1 <= q /\ (r > 1 => r - 1 \in Requests)
  BY <1>2
<1>4. CASE q < r
  <2>1. r - 1 \in Requests /\ at[r - 1] # "none" /\ (q = r - 1 \/ q < r - 1)
    BY <1>3, <1>4 DEF Comes
  <2>2. QED
    BY <1>4, <2>1 DEF OrderInv
<1>5. CASE ~(q < r)
  <2>1. q = r \/ r < q
    BY <1>3, <1>5
  <2>2. QED
    BY <1>5, <2>1 DEF Comes, OrderInv
<1>6. QED
  BY <1>4, <1>5

\* A cached version that is shown is young enough.
LEMMA AskVersionKeeps ==
    ASSUME IInv, NEW r \in Requests, AskVersion(r), UNCHANGED mix
    PROVE  IInv'
<1> USE DEF Is, Busy, Idle, Finished, Storing, HasResult
<1>1. /\ TypesKept /\ OnlyOf(r) /\ UNCHANGED <<world, cache, temps, shared>>
      /\ Comes(r) /\ at[r] = "none" /\ mix[r] = "version"
      /\ client'[r] = [kind |-> "version", body |-> 0, begun |-> world.now, gone |-> FALSE, chunks |-> 0]
      /\ \/ /\ at'[r] = "collecting" /\ child'[r] = Process("reading", TRUE, Empty) /\ answer'[r] = answer[r]
         \/ /\ cache.version # Empty /\ world.now - cache.time < CacheFor
            /\ at'[r] = "answered" /\ child'[r] = child[r] /\ answer'[r] = <<"version", cache.version, 0>>
  BY AskVersionEffect DEF IInv
<1>2. PlaceInv(r)
  BY DEF IInv, RequestInv
<1>3. PlaceInv(r)'
  <2>1. CASE at'[r] = "collecting" /\ child'[r] = Process("reading", TRUE, Empty)
    BY <1>1, <2>1 DEF PlaceInv, Process
  <2>2. CASE at'[r] = "answered" /\ child'[r] = child[r]
    BY <1>1, <1>2, <2>2 DEF PlaceInv
  <2>3. QED
    BY <1>1, <2>1, <2>2
<1>4. StreamInv(r)' /\ WasmInv(r)' /\ AnswerInv(r)' /\ ShareInv(r)' /\ OpenInv(r)'
  BY <1>1 DEF StreamInv, WasmInv, AnswerInv, ShareInv, OpenInv
<1>5. VersionInv(r)'
  <2>1. world.now \in Nat /\ cache.time \in Nat
    BY DEF IInv, TypeOK
  <2>2. HasResult(r)' => FALSE
    BY <1>1, <1>2 DEF PlaceInv, Process
  <2>3. at'[r] = "answered" => Current(answer'[r][2], world.now - CacheFor + 1)
    <3>1. SUFFICES ASSUME at'[r] = "answered"
                   PROVE  Current(cache.version, world.now - CacheFor + 1)
      BY <1>1
    <3>2. Current(cache.version, cache.time) /\ cache.time >= world.now - CacheFor + 1
      BY <1>1, <2>1, <3>1, ServiceAssumption DEF IInv, CacheInv
    <3>3. QED
      BY <2>1, <3>2, ServiceAssumption, CurrentEarlier DEF IInv
  <2>4. QED
    BY <1>1, <2>1, <2>2, <2>3 DEF VersionInv, Current
<1>6. TempsInv' /\ CacheInv'
  <2>1. TempsInv'
    BY <1>1, TempsUntouched DEF IInv
  <2>2. QED
    BY <1>1, <2>1 DEF IInv, CacheInv, Current
<1>7. RequestInv(r)'
  BY <1>3, <1>4, <1>5 DEF RequestInv
<1>8. cache' \in [version : Int, time : Nat] /\ Moves(r) /\ \A q \in Requests \ {r} : FilesKept(q)
  BY <1>1, FilesUntouched DEF IInv, TypeOK, Moves
<1>9. QED
  BY <1>1, <1>6, <1>7, <1>8, StepKeeps

\* A new stream has lost none of its body.
LEMMA StartStreamKeeps ==
    ASSUME IInv, NEW r \in Requests, StartStream(r), UNCHANGED mix
    PROVE  IInv'
<1> USE DEF Is, Busy, Idle, Finished, Storing, HasResult
<1>1. /\ TypesKept /\ OnlyOf(r) /\ UNCHANGED <<world, cache, answer, temps, shared>>
      /\ Comes(r) /\ at[r] = "none" /\ mix[r] = "stream" /\ at'[r] = "body"
      /\ child'[r] = Process("reading", FALSE, Empty)
  BY StartStreamEffect DEF IInv
<1>2. PICK n \in Nat : client'[r] = [kind |-> "stream", body |-> n, begun |-> world.now, gone |-> FALSE, chunks |-> n]
  BY StartStreamEffect DEF IInv
<1>3. PlaceInv(r)' /\ StreamInv(r)'
  BY <1>1, <1>2 DEF PlaceInv, StreamInv, Process
<1>4. WasmInv(r)' /\ AnswerInv(r)' /\ ShareInv(r)' /\ OpenInv(r)'
  BY <1>1, <1>2 DEF WasmInv, AnswerInv, ShareInv, OpenInv
<1>5. VersionInv(r)'
  BY <1>1, <1>2 DEF VersionInv, IInv, TypeOK
<1>6. TempsInv' /\ CacheInv'
  <2>1. TempsInv'
    BY <1>1, TempsUntouched DEF IInv
  <2>2. QED
    BY <1>1, <2>1 DEF IInv, CacheInv, Current
<1>7. RequestInv(r)'
  BY <1>3, <1>4, <1>5 DEF RequestInv
<1>8. cache' \in [version : Int, time : Nat] /\ Moves(r) /\ \A q \in Requests \ {r} : FilesKept(q)
  BY <1>1, FilesUntouched DEF IInv, TypeOK, Moves
<1>9. QED
  BY <1>1, <1>6, <1>7, <1>8, StepKeeps

\* A share that comes has stored nothing yet.
LEMMA ServeShareCreateKeeps ==
    ASSUME IInv, NEW r \in Requests, ServeShareCreate(r), UNCHANGED mix
    PROVE  IInv'
<1> USE DEF Is, Busy, Idle, Finished, Storing, HasResult
<1>1. /\ TypesKept /\ OnlyOf(r) /\ UNCHANGED <<world, cache, child, answer, temps, shared>>
      /\ Comes(r) /\ at[r] = "none" /\ mix[r] = "share" /\ at'[r] = "open code"
      /\ client'[r].kind = "share" /\ client'[r].begun = world.now
  BY ServeShareCreateEffect DEF IInv
<1>2. PlaceInv(r)'
  BY <1>1 DEF PlaceInv, IInv, RequestInv
<1>3. StreamInv(r)' /\ WasmInv(r)' /\ AnswerInv(r)' /\ ShareInv(r)' /\ OpenInv(r)'
  BY <1>1 DEF StreamInv, WasmInv, AnswerInv, ShareInv, OpenInv
<1>4. VersionInv(r)'
  <2>1. world.now \in Nat /\ world' = world
    BY <1>1 DEF IInv, TypeOK
  <2>2. client'[r].begun = world'.now /\ world'.now \in Nat
    BY <1>1, <2>1, Zenon
  <2>3. client'[r].begun <= world'.now
    BY <2>2
  <2>4. client'[r].kind # "version"
    BY <1>1
  <2>5. QED
    BY <2>3, <2>4 DEF VersionInv
<1>5. TempsInv' /\ CacheInv'
  <2>1. TempsInv'
    BY <1>1, TempsUntouched DEF IInv
  <2>2. QED
    BY <1>1, <2>1 DEF IInv, CacheInv, Current
<1>6. RequestInv(r)'
  BY <1>2, <1>3, <1>4 DEF RequestInv
<1>7. cache' \in [version : Int, time : Nat] /\ \A q \in Requests \ {r} : FilesKept(q)
  BY <1>1, FilesUntouched DEF IInv, TypeOK
<1>8. Moves(r)
  BY <1>1 DEF Moves
<1>9. QED
  BY <1>1, <1>5, <1>6, <1>7, <1>8, StepKeeps

\* The program that is stored in the files of an id.
LEMMA FoundIsStored ==
    ASSUME TypeOK, NEW s \in Requests, Is(s, "share"),
           CodeFile(IdOf(s)) \in DOMAIN shared, shared[CodeFile(IdOf(s))] = client[s].body.code,
           MembersFile(IdOf(s)) \in DOMAIN shared, shared[MembersFile(IdOf(s))] = Members(client[s].body)
    PROVE  Found(IdOf(s)) = client[s].body
<1> DEFINE p == client[s].body
<1>1. client[s] \in Clients(Payloads)
  BY DEF TypeOK
<1>2. p \in Payloads
  BY <1>1 DEF Clients
<1>3. p = [code |-> p.code, args |-> p.args, stdin |-> p.stdin]
  BY <1>2, ServiceAssumption
<1>4. Members(p).args = p.args /\ Members(p).stdin = p.stdin
  BY DEF Members
<1>5. Found(IdOf(s)) = [code |-> p.code, args |-> p.args, stdin |-> p.stdin]
  BY <1>4 DEF Found
<1>6. QED
  BY <1>3, <1>5

\* What is found under a link is what was stored last, and whole.
LEMMA ServeShareKeeps ==
    ASSUME IInv, NEW r \in Requests, ServeShare(r), UNCHANGED mix
    PROVE  IInv'
<1> USE DEF Is, Busy, Idle, Finished, Storing, HasResult
<1>1. /\ TypesKept /\ OnlyOf(r) /\ UNCHANGED <<world, cache, child, temps, shared>>
      /\ Comes(r) /\ at[r] = "none" /\ mix[r] = "open" /\ at'[r] = "answered"
  BY ServeShareEffect DEF IInv
<1>2. PICK link \in Requests :
        /\ Is(link, "share") /\ at[link] = "answered"
        /\ client'[r] = [kind |-> "open", body |-> link, begun |-> world.now, gone |-> FALSE, chunks |-> 0]
        /\ answer'[r] = IF CodeFile(answer[link][2]) \in DOMAIN shared THEN <<"program", link, Found(answer[link][2])>>
                        ELSE <<"missing", link, 0>>
  BY ServeShareEffect DEF IInv
<1>a. client'[r].kind = "open" /\ client'[r].body = link /\ client'[r].begun = world.now
  <2>1. client'[r] = [kind |-> "open", body |-> link, begun |-> world.now, gone |-> FALSE, chunks |-> 0]
    BY <1>2, Zenon
  <2>2. QED
    BY <2>1
<1>3. PlaceInv(r)'
  BY <1>1, <1>a DEF PlaceInv, IInv, RequestInv
<1>4. StreamInv(r)' /\ WasmInv(r)' /\ AnswerInv(r)' /\ ShareInv(r)'
  BY <1>1, <1>a DEF StreamInv, WasmInv, AnswerInv, ShareInv
<1>5. VersionInv(r)'
  BY <1>1, <1>a DEF VersionInv, IInv, TypeOK
<1>6. OpenInv(r)'
  <2> DEFINE id == IdOf(link)
  <2>1. link # r /\ at'[link] = "answered" /\ client'[link] = client[link] /\ id' = id
    BY <1>1, <1>2 DEF OnlyOf, IdOf
  <2>2. answer[link][2] = id /\ CodeFile(id) \in DOMAIN shared
    BY <1>2 DEF IInv, RequestInv, ShareInv
  <2>3. answer'[r] = <<"program", link, Found(id)>>
    BY <1>2, <2>2
  <2>4. ASSUME NEW s \in Requests, s < r
        PROVE  at[s] # "none" /\ at[s] \notin Storing
    BY <1>1, <2>4, RequestsBefore DEF IInv, Comes, LoopIsFree
  <2>5. ASSUME NEW s \in Requests, s < r
        PROVE  at'[s] # "none" /\ (client'[s].kind = "share" => at'[s] \in Finished)
    <3>1. at'[s] = at[s] /\ client'[s] = client[s] /\ s # r
      BY <1>1, <2>4, <2>5 DEF OnlyOf
    <3>2. client[s].kind = "share" => at[s] \in Finished
      BY <2>4, <2>5 DEF IInv, RequestInv, ShareInv
    <3>3. QED
      BY <2>4, <2>5, <3>1, <3>2
  <2>6. ASSUME NEW s \in SharesBefore(r, id)', \A q \in SharesBefore(r, id)' : q <= s, at'[s] = "answered"
        PROVE  answer'[r][3] = client'[s].body
    <3>1. Requests' = Requests
      BY DEF Requests
    <3>2. s \in Requests /\ s < r /\ client'[s].kind = "share" /\ IdOf(s)' = id
      BY <2>1, <2>6, <3>1 DEF SharesBefore
    <3>0. \A q \in Requests : q < r => q # r
      BY Numbers DEF IInv
    <3>3. at[s] = "answered" /\ client[s] = client'[s] /\ Is(s, "share") /\ IdOf(s) = id
      BY <1>1, <2>6, <3>0, <3>2 DEF OnlyOf, IdOf
    <3>4. ASSUME NEW q \in Requests, Is(q, "share"), IdOf(q) = id
          PROVE  q <= s
      <4>1. q < r
        BY <1>1, <3>4, RequestsBefore DEF IInv, RequestInv, PlaceInv, Comes
      <4>2. client'[q] = client[q]
        BY <1>1, <3>0, <3>4, <4>1 DEF OnlyOf
      <4>3. q \in SharesBefore(r, id)'
        BY <2>1, <3>1, <3>4, <4>1, <4>2 DEF SharesBefore, IdOf
      <4>4. QED
        BY <2>6, <4>3
    <3>5. /\ CodeFile(IdOf(s)) \in DOMAIN shared /\ shared[CodeFile(IdOf(s))] = client[s].body.code
          /\ MembersFile(IdOf(s)) \in DOMAIN shared /\ shared[MembersFile(IdOf(s))] = Members(client[s].body)
      BY <3>2, <3>3, <3>4 DEF IInv, StoreInv
    <3>6. Found(id) = client[s].body
      BY <3>2, <3>3, <3>5, FoundIsStored DEF IInv
    <3>7. QED
      BY <2>3, <3>3, <3>6
  <2>7. LeadsToLast(r, id)'
    BY <2>6 DEF LeadsToLast
  <2>8. IdOf(client[r].body)' = id'
    BY <1>a DEF IdOf
  <2>9. QED
    <3>1. answer'[r][1] = "program"
      BY <2>3
    <3>2. link \in Requests' /\ at'[link] # "none" /\ LeadsToLast(r, IdOf(client[r].body))'
      BY <1>2, <2>1, <2>7, <2>8 DEF Requests
    <3>3. \A s \in Requests' : s < r => at'[s] # "none" /\ (client'[s].kind = "share" => at'[s] \in Finished)
      BY <2>5 DEF Requests
    <3>4. QED
      BY <1>1, <1>a, <3>1, <3>2, <3>3 DEF OpenInv
<1>7. TempsInv' /\ CacheInv'
  <2>1. TempsInv'
    BY <1>1, TempsUntouched DEF IInv
  <2>2. QED
    BY <1>1, <2>1 DEF IInv, CacheInv, Current
<1>8. RequestInv(r)'
  BY <1>3, <1>4, <1>5, <1>6 DEF RequestInv
<1>9. cache' \in [version : Int, time : Nat] /\ Moves(r) /\ \A q \in Requests \ {r} : FilesKept(q)
  BY <1>1, FilesUntouched DEF IInv, TypeOK, Moves
<1>10. QED
  BY <1>1, <1>7, <1>8, <1>9, StepKeeps

\* A new source takes a name that no file has, nor a busy request knows.
LEMMA CompileWasmKeeps ==
    ASSUME IInv, NEW r \in Requests, CompileWasm(r), UNCHANGED mix
    PROVE  IInv'
<1> USE DEF Is, Busy, Idle, Finished, Storing, HasResult
<1>1. /\ TypesKept /\ OnlyOf(r) /\ UNCHANGED <<world, cache, shared>>
      /\ Comes(r) /\ at[r] = "none" /\ mix[r] = "wasm"
  BY CompileWasmEffect DEF IInv
<1>2. PlaceInv(r)
  BY DEF IInv, RequestInv
<1>3. cache' \in [version : Int, time : Nat] /\ CacheInv' /\ Moves(r)
  BY <1>1 DEF IInv, TypeOK, CacheInv, Current, Moves
<1>4. CASE /\ client'[r] = [kind |-> "wasm", body |-> 0, begun |-> world.now, gone |-> FALSE, chunks |-> 0]
           /\ at'[r] = "answered" /\ answer'[r] = <<"refused", r, 0>> /\ UNCHANGED <<child, temps>>
  <2>0. /\ client'[r].kind = "wasm" /\ client'[r].body = 0 /\ client'[r].begun = world.now
        /\ at'[r] = "answered" /\ answer'[r][1] = "refused" /\ child'[r] = child[r]
    <3>1. client'[r] = [kind |-> "wasm", body |-> 0, begun |-> world.now, gone |-> FALSE, chunks |-> 0]
      BY <1>4, Zenon
    <3>2. answer'[r] = <<"refused", r, 0>> /\ at'[r] = "answered" /\ child' = child
      BY <1>4, Zenon
    <3>3. QED
      BY <3>1, <3>2
  <2>1. PlaceInv(r)' /\ AnswerInv(r)'
    BY <1>1, <1>2, <2>0 DEF PlaceInv, AnswerInv, OwnAnswer
  <2>2. StreamInv(r)' /\ WasmInv(r)' /\ ShareInv(r)' /\ OpenInv(r)'
    BY <1>1, <2>0 DEF StreamInv, WasmInv, ShareInv, OpenInv
  <2>3. VersionInv(r)'
    <3>1. world.now \in Nat
      BY DEF IInv, TypeOK
    <3>2. QED
      BY <1>1, <2>0, <3>1 DEF VersionInv
  <2>4. RequestInv(r)'
    BY <2>1, <2>2, <2>3 DEF RequestInv
  <2>5. TempsInv'
    BY <1>1, <1>4, TempsUntouched DEF IInv
  <2>6. QED
    BY <1>1, <1>3, <1>4, <2>4, <2>5, FilesUntouched, StepKeeps
<1>5. CASE /\ client'[r] = [kind |-> "wasm", body |-> 1, begun |-> world.now, gone |-> FALSE, chunks |-> 0]
           /\ at'[r] = "collecting" /\ UNCHANGED answer
           /\ \E n \in FreshNames :
                /\ child'[r] = Process("reading", TRUE, n)
                /\ DOMAIN temps' = DOMAIN temps \cup {<<n, "src">>}
                /\ temps'[<<n, "src">>] = [owner |-> r, holds |-> <<"body", r, 1>>]
                /\ \A f \in DOMAIN temps \ {<<n, "src">>} : temps'[f] = temps[f]
  <2>1. PICK n \in FreshNames :
                /\ child'[r] = Process("reading", TRUE, n)
                /\ DOMAIN temps' = DOMAIN temps \cup {<<n, "src">>}
                /\ temps'[<<n, "src">>] = [owner |-> r, holds |-> <<"body", r, 1>>]
                /\ \A f \in DOMAIN temps \ {<<n, "src">>} : temps'[f] = temps[f]
    BY <1>5
  <2>2. <<n, "src">> \notin DOMAIN temps /\ \A f \in DOMAIN temps : f \in DOMAIN temps' /\ temps'[f] = temps[f]
    BY <2>1 DEF FreshNames
  <2>3. PlaceInv(r)' /\ WasmInv(r)'
    BY <1>1, <1>5, <2>1 DEF PlaceInv, WasmInv, SourceOf, Process
  <2>4. StreamInv(r)' /\ AnswerInv(r)' /\ ShareInv(r)' /\ OpenInv(r)'
    BY <1>1, <1>5 DEF StreamInv, AnswerInv, ShareInv, OpenInv
  <2>5. VersionInv(r)'
    BY <1>1, <1>5 DEF VersionInv, IInv, TypeOK
  <2>6. RequestInv(r)'
    BY <2>3, <2>4, <2>5 DEF RequestInv
  <2>7. TempsInv'
    <3>1. ASSUME NEW f \in DOMAIN temps
          PROVE  LET o == temps'[f].owner
                 IN  /\ at'[o] # "none" /\ mix[o] = "wasm"
                     /\ at'[o] \notin Idle => f[1] = child'[o].file
                     /\ at'[o] = "answered" => f[2] = "obj" /\ answer'[o][1] = "rejected"
                     /\ f[2] # "obj" => <<f[1], "src">> \in DOMAIN temps' /\ temps'[<<f[1], "src">>].owner = o
      <4> DEFINE o == temps[f].owner
      <4>1. temps'[f] = temps[f] /\ o \in Requests
        BY <2>2 DEF IInv, TypeOK, TempFiles
      <4>2. /\ at[o] # "none" /\ mix[o] = "wasm"
            /\ Busy(o) => f[1] = child[o].file
            /\ at[o] = "answered" => f[2] = "obj" /\ answer[o][1] = "rejected"
            /\ f[2] # "obj" => <<f[1], "src">> \in DOMAIN temps /\ temps[<<f[1], "src">>].owner = o
        BY DEF IInv, TempsInv
      <4>3. o # r
        BY <1>1, <4>2
      <4>4. f[2] # "obj" => <<f[1], "src">> \in DOMAIN temps' /\ temps'[<<f[1], "src">>] = temps[<<f[1], "src">>]
        BY <2>2, <4>2
      <4>5. at'[o] = at[o] /\ child'[o] = child[o] /\ answer'[o] = answer[o]
        BY <1>1, <4>1, <4>3 DEF OnlyOf
      <4>6. QED
        BY <4>1, <4>2, <4>4, <4>5
    <3>2. ASSUME NEW f, f = <<n, "src">>
          PROVE  LET o == temps'[f].owner
                 IN  /\ at'[o] # "none" /\ mix[o] = "wasm"
                     /\ at'[o] \notin Idle => f[1] = child'[o].file
                     /\ at'[o] = "answered" => f[2] = "obj" /\ answer'[o][1] = "rejected"
                     /\ f[2] # "obj" => <<f[1], "src">> \in DOMAIN temps' /\ temps'[<<f[1], "src">>].owner = o
      <4>1. f[1] = n /\ f[2] = "src" /\ f \in DOMAIN temps' /\ temps'[f].owner = r
        BY <2>1, <3>2
      <4>2. child'[r].file = n /\ at'[r] = "collecting" /\ mix[r] = "wasm"
        BY <1>1, <1>5, <2>1 DEF Process
      <4>3. QED
        BY <3>2, <4>1, <4>2
    <3>3. QED
      BY <2>1, <3>1, <3>2 DEF TempsInv
  <2>8. ASSUME NEW q \in Requests \ {r} PROVE FilesKept(q)
    <3> SUFFICES ASSUME Is(q, "wasm"), Busy(q), NEW kind \in FileKinds
                 PROVE  LET f == <<child[q].file, kind>>
                        IN  (f \in DOMAIN temps' <=> f \in DOMAIN temps) /\ (f \in DOMAIN temps => temps'[f] = temps[f])
      BY DEF FilesKept
    <3>1. SourceOf(q) \in DOMAIN temps
      BY DEF IInv, RequestInv, WasmInv
    <3>2. child[q].file # n
      BY <2>2, <3>1 DEF SourceOf
    <3>3. <<child[q].file, kind>> # <<n, "src">>
      BY <3>2
    <3>4. QED
      BY <2>1, <2>2, <3>3
  <2>9. QED
    BY <1>1, <1>3, <2>6, <2>7, <2>8, StepKeeps
<1>6. QED
  BY <1>4, <1>5, CompileWasmEffect DEF IInv

\* A request that comes keeps the invariant.
LEMMA RequestKeeps ==
    ASSUME IInv, NEW r \in Requests, Request(r), UNCHANGED mix
    PROVE  IInv'
  BY AskVersionKeeps, StartStreamKeeps, CompileWasmKeeps, ServeShareCreateKeeps, ServeShareKeeps DEF Request

\* A step of a process touches the files it writes and nothing else, and its
\* request is busy.
LEMMA ChildStepKeeps ==
    ASSUME IInv, NEW r \in Requests, Child(r), UNCHANGED mix, TypesKept, child'[r].doing # "none",
           child'[r].file = child[r].file, PlaceInv(r)', StreamInv(r)', WasmInv(r)',
           HasResult(r)' /\ Is(r, "version") => Current(child'[r].result[2], client[r].begun),
           TempsInv', \A q \in Requests \ {r} : FilesKept(q)
    PROVE  IInv'
<1>1. /\ \A q \in Requests \ {r} : child'[q] = child[q]
      /\ UNCHANGED <<world, cache, at, client, answer, shared>>
  BY ChildTypes DEF IInv, RequestInv
<1>2. OnlyOf(r)
  BY <1>1 DEF OnlyOf
<1>3. Busy(r)
  BY <1>1 DEF PlaceInv, Busy
<1>4. mix[r] \notin {"share", "open"} /\ at[r] # "none"
  BY <1>3 DEF IInv, RequestInv, ShareInv, OpenInv, PlaceInv, Busy, Idle, Finished, Storing, Is
<1>5. AnswerInv(r)' /\ ShareInv(r)' /\ OpenInv(r)'
  BY <1>1, <1>3, <1>4 DEF AnswerInv, ShareInv, OpenInv, IInv, RequestInv, PlaceInv, Is, Busy, Idle, Finished, Storing
<1>6. VersionInv(r)'
  BY <1>1, <1>3 DEF VersionInv, IInv, RequestInv, Is, Current, Busy, Idle, Finished, Storing
<1>7. RequestInv(r)'
  BY <1>5, <1>6 DEF RequestInv
<1>8. CacheInv' /\ cache' \in [version : Int, time : Nat]
  BY <1>1 DEF IInv, TypeOK, CacheInv, Current
<1>9. Moves(r)
  BY <1>1, <1>4 DEF Moves, Stays
<1>10. QED
  BY <1>1, <1>2, <1>4, <1>7, <1>8, <1>9, StepKeeps

\* The numbers a client has.
LEMMA ClientTypes ==
    ASSUME TypeOK, NEW r \in Requests
    PROVE  client[r].chunks \in Nat /\ client[r].begun \in Nat /\ (client[r].kind # "share" => client[r].body \in Nat)
  BY TypesNow DEF Clients

\* A compiler writes a file of its request's own, and removes no file of another name.
LEMMA FileWritten ==
    ASSUME IInv, NEW r \in Requests, Busy(r), mix[r] = "wasm", UNCHANGED <<mix, world, cache, at, client, answer, shared>>,
           child' \in [Requests -> Children], child'[r].file = child[r].file, \A q \in Requests \ {r} : child'[q] = child[q],
           SourceOf(r) \in DOMAIN temps, temps[SourceOf(r)] = [owner |-> r, holds |-> <<"body", r, 1>>],
           SourceOf(r) \in DOMAIN temps', temps'[SourceOf(r)] = temps[SourceOf(r)],
           NEW kind \in FileKinds, kind # "src", NEW file, file = <<child[r].file, kind>>,
           temps' = [f \in DOMAIN temps' |-> temps'[f]],
           <<"compiled", r, 1>> \in Results,
           file \in DOMAIN temps' => temps'[file] = [owner |-> r, holds |-> <<"compiled", r, 1>>],
           \A f \in DOMAIN temps : f[1] # child[r].file => f \in DOMAIN temps',
           \A f \in DOMAIN temps' : f = file \/ (f \in DOMAIN temps /\ temps'[f] = temps[f])
    PROVE  TypesKept /\ TempsInv' /\ \A q \in Requests \ {r} : FilesKept(q)
<1>0. child \in [Requests -> Children]
  BY DEF IInv, TypeOK
<1>1. file \in (TempNames \cup {Empty}) \X FileKinds /\ file[1] = child[r].file /\ file[2] # "src"
  BY <1>0 DEF Children
<1>2. [owner |-> r, holds |-> <<"compiled", r, 1>>] \in TempFiles
  BY DEF TempFiles
<1>3. \A f \in DOMAIN temps' : f \in (TempNames \cup {Empty}) \X FileKinds /\ temps'[f] \in TempFiles
  BY <1>1, <1>2, TypesNow DEF IInv
<1>4. TypesKept
  BY <1>3, TypesNow DEF TypesKept, IInv
<1>5. temps[SourceOf(r)].owner = r /\ temps'[SourceOf(r)].owner = r
  OBVIOUS
<1>6. ASSUME NEW q \in Requests \ {r}, Is(q, "wasm"), Busy(q)
      PROVE  child[q].file # child[r].file
  <2>1. temps[SourceOf(q)] = [owner |-> q, holds |-> <<"body", q, 1>>]
    BY <1>6 DEF IInv, RequestInv, WasmInv
  <2>2. temps[SourceOf(q)].owner = q
    BY <2>1
  <2>3. QED
    BY <1>5, <2>2 DEF SourceOf
<1>7. ASSUME NEW q \in Requests \ {r} PROVE FilesKept(q)
  <2> SUFFICES ASSUME Is(q, "wasm"), Busy(q), NEW k \in FileKinds
               PROVE  LET f == <<child[q].file, k>>
                      IN  (f \in DOMAIN temps' <=> f \in DOMAIN temps) /\ (f \in DOMAIN temps => temps'[f] = temps[f])
    BY DEF FilesKept
  <2> DEFINE f == <<child[q].file, k>>
  <2>1. f[1] # child[r].file /\ f # file
    BY <1>1, <1>6
  <2>2. QED
    BY <2>1
<1>8. ASSUME NEW f \in DOMAIN temps'
      PROVE  LET o == temps'[f].owner
             IN  /\ at'[o] # "none" /\ mix[o] = "wasm"
                 /\ at'[o] \notin Idle => f[1] = child'[o].file
                 /\ at'[o] = "answered" => f[2] = "obj" /\ answer'[o][1] = "rejected"
                 /\ f[2] # "obj" => <<f[1], "src">> \in DOMAIN temps' /\ temps'[<<f[1], "src">>].owner = o
  <2>1. CASE f = file
    <3>1. temps'[f].owner = r
      BY <2>1
    <3>2. at'[r] \notin {"none", "answered"}
      BY DEF Busy, Idle, Finished
    <3>3. <<f[1], "src">> = SourceOf(r)
      BY <1>1, <2>1 DEF SourceOf
    <3>4. QED
      BY <1>1, <1>5, <2>1, <3>1, <3>2, <3>3
  <2>2. CASE f # file
    <3> DEFINE o == temps[f].owner
    <3>1. f \in DOMAIN temps /\ temps'[f] = temps[f]
      BY <2>2
    <3>2. /\ at[o] # "none" /\ mix[o] = "wasm" /\ o \in Requests
          /\ Busy(o) => f[1] = child[o].file
          /\ at[o] = "answered" => f[2] = "obj" /\ answer[o][1] = "rejected"
          /\ f[2] # "obj" => <<f[1], "src">> \in DOMAIN temps /\ temps[<<f[1], "src">>].owner = o
      BY <3>1 DEF IInv, TempsInv, TypeOK, TempFiles
    <3>3. child'[o].file = child[o].file
      BY <3>2
    <3>4. ASSUME f[2] # "obj" PROVE <<f[1], "src">> \in DOMAIN temps' /\ temps'[<<f[1], "src">>] = temps[<<f[1], "src">>]
      <4>1. <<f[1], "src">> \in DOMAIN temps /\ <<f[1], "src">> # file
        BY <1>1, <3>2, <3>4
      <4>2. CASE f[1] = child[r].file
        BY <4>2 DEF SourceOf
      <4>3. CASE f[1] # child[r].file
        BY <4>1, <4>3
      <4>4. QED
        BY <4>2, <4>3
    <3>5. f[2] # "obj" => <<f[1], "src">> \in DOMAIN temps' /\ temps'[<<f[1], "src">>].owner = o
      BY <3>2, <3>4
    <3>6. temps'[f].owner = o /\ (at[o] \notin Idle => f[1] = child'[o].file)
      BY <3>1, <3>2, <3>3 DEF Busy
    <3>7. QED
      BY <3>2, <3>5, <3>6
  <2>3. QED
    BY <2>1, <2>2
<1>9. TempsInv'
  BY <1>8 DEF TempsInv, Busy
<1>10. QED
  BY <1>4, <1>7, <1>9

\* A step of a compiler keeps the invariant.
LEMMA ChildKeeps ==
    ASSUME IInv, NEW r \in Requests, Child(r), UNCHANGED mix
    PROVE  IInv'
<1> USE DEF Is, HasResult
<1>1. /\ child' \in [Requests -> Children] /\ \A q \in Requests \ {r} : child'[q] = child[q]
      /\ UNCHANGED <<world, cache, at, client, answer, shared>>
  BY ChildTypes DEF IInv, RequestInv
<1>2. child \in [Requests -> Children] /\ r \in Int
  BY Numbers DEF IInv, TypeOK
<1>3. PlaceInv(r) /\ StreamInv(r) /\ WasmInv(r)
  BY DEF IInv, RequestInv
<1>4. UNCHANGED temps => TypesKept /\ \A q \in Requests \ {r} : FilesKept(q)
  BY <1>1, TypesNow, FilesUntouched DEF TypesKept, IInv
<1>5. ASSUME UNCHANGED temps, child[r].doing # "none", child'[r].doing # "none", child'[r].file = child[r].file
      PROVE  TempsInv'
  <2>1. Busy(r) /\ Busy(r)' /\ OnlyOf(r)
    BY <1>1, <1>3, <1>5 DEF PlaceInv, Busy, OnlyOf
  <2>2. QED
    BY <1>5, <2>1, TempsUntouched DEF IInv
<1>6. CASE ChildReads(r)
  <2>1. /\ child'[r] = [child[r] EXCEPT !.in = @ - 1, !.read = @ + 1]
        /\ child[r].in > 0 /\ child[r].doing = "reading" /\ UNCHANGED temps
    BY <1>2, <1>6 DEF ChildReads, Children
  <2>2. /\ child'[r].in = child[r].in - 1 /\ child'[r].read = child[r].read + 1
        /\ child'[r].doing = "reading" /\ child'[r].eof = child[r].eof /\ child'[r].file = child[r].file
    BY <1>2, <2>1 DEF Children
  <2>3. PlaceInv(r)'
    BY <1>1, <1>2, <1>3, <2>1, <2>2 DEF PlaceInv, Busy, Children
  <2>4. StreamInv(r)'
    <3>1. SUFFICES ASSUME Is(r, "stream"), Busy(r) PROVE StreamInv(r)'
      BY <1>1 DEF StreamInv, Busy
    <3>2. /\ client[r].chunks \in Nat /\ client[r].body \in Nat /\ child[r].in \in Nat /\ child[r].read \in Nat
      BY <1>2, <3>1, ClientTypes DEF IInv, Children
    <3>3. QED
      BY <1>1, <1>3, <2>1, <2>2, <3>1, <3>2 DEF StreamInv, Busy
  <2>5. WasmInv(r)'
    BY <1>1, <1>3, <2>1, <2>2 DEF WasmInv, PlaceInv, Busy, SourceOf, ObjectOf, BinaryOf
  <2>6. QED
    BY <1>4, <1>5, <2>1, <2>2, <2>3, <2>4, <2>5, ChildStepKeeps
<1>7. ASSUME NEW failed \in BOOLEAN, NEW result \in Results, NEW chunks \in Int, Produces(r, failed, result, chunks)
      PROVE  /\ child'[r].doing = "writing" /\ child'[r].failed = failed /\ child'[r].result = result
             /\ child'[r].in = child[r].in /\ child'[r].read = child[r].read /\ child'[r].eof = child[r].eof
             /\ child'[r].file = child[r].file
  <2>1. child'[r] = [child[r] EXCEPT !.doing = "writing", !.failed = failed, !.result = result, !.left = chunks]
    BY <1>2, <1>7 DEF Produces, Children
  <2>2. QED
    BY <1>2, <2>1 DEF Children
<1>8. ASSUME child[r].doing # "none", child'[r].doing \in {"writing", "ending", "ended"} \/ (child'[r].doing = "linking" /\ mix[r] = "wasm"), child'[r].in = child[r].in, child'[r].read = child[r].read
      PROVE  PlaceInv(r)'
  BY <1>1, <1>3, <1>8 DEF PlaceInv, Busy
<1>13. ASSUME HasResult(r), HasResult(r)', child'[r].failed = child[r].failed, child'[r].result = child[r].result,
             child'[r].in = child[r].in, child'[r].read = child[r].read, child'[r].eof = child[r].eof,
             child'[r].file = child[r].file, UNCHANGED temps
       PROVE  /\ StreamInv(r)' /\ WasmInv(r)'
              /\ HasResult(r)' /\ Is(r, "version") => Current(child'[r].result[2], client[r].begun)
  <2>1. StreamInv(r)'
    BY <1>1, <1>3, <1>13 DEF StreamInv, Busy, OwnAnswer
  <2>2. WasmInv(r)'
    BY <1>1, <1>3, <1>13 DEF WasmInv, Busy, OwnAnswer, SourceOf, ObjectOf, BinaryOf
  <2>3. Is(r, "version") => Current(child'[r].result[2], client[r].begun)
    BY <1>13 DEF IInv, RequestInv, VersionInv
  <2>4. QED
    BY <2>1, <2>2, <2>3
<1>b. TRUE \in BOOLEAN /\ FALSE \in BOOLEAN /\ 0 \in Int /\ 1 \in Int
  OBVIOUS
<1>9. CASE ChildRejects(r)
  <2> DEFINE result == <<"rejected", r, child[r].read>>
  <2>1. /\ Produces(r, TRUE, result, 1) /\ child[r].doing = "reading" /\ child[r].read > 0 /\ UNCHANGED temps
    BY <1>9 DEF ChildRejects
  <2>2. result \in Results
    BY <1>2 DEF Results, Children
  <2>3. /\ child'[r].doing = "writing" /\ child'[r].result = result
        /\ child'[r].in = child[r].in /\ child'[r].read = child[r].read /\ child'[r].eof = child[r].eof
        /\ child'[r].file = child[r].file
    BY <1>7, <1>b, <2>1, <2>2
  <2>4. mix[r] = "stream"
    BY <1>1, <1>3, <2>1, <1>2 DEF PlaceInv, Busy, Idle, Children
  <2>5. StreamInv(r)'
    BY <1>1, <1>3, <2>1, <2>3 DEF StreamInv, Busy, OwnAnswer
  <2>6. WasmInv(r)'
    BY <1>1, <1>3, <2>4 DEF WasmInv, PlaceInv, Busy, Idle
  <2>7. ~Is(r, "version")
    BY <1>3, <2>1, <2>4 DEF PlaceInv, Busy, Idle
  <2>8. QED
    BY <1>1, <1>4, <1>5, <1>8, <2>1, <2>3, <2>5, <2>6, <2>7, ChildStepKeeps
<1>10. CASE ChildCompiles(r)
  <2> DEFINE result == <<"compiled", r, child[r].read>>
  <2>1. /\ Is(r, "stream") /\ child[r].doing = "reading" /\ child[r].eof /\ child[r].in = 0 /\ UNCHANGED temps
    BY <1>10 DEF ChildCompiles
  <2>2. PICK n \in 1..MaxChunks : Produces(r, FALSE, result, n)
    BY <1>10 DEF ChildCompiles
  <2>3. result \in Results /\ n \in Int
    BY <1>2, ServiceAssumption DEF Results, Children
  <2>4. /\ child'[r].doing = "writing" /\ child'[r].result = result
        /\ child'[r].in = child[r].in /\ child'[r].read = child[r].read /\ child'[r].eof = child[r].eof
        /\ child'[r].file = child[r].file
    BY <1>7, <1>b, <2>2, <2>3
  <2>5. StreamInv(r)'
    <3>1. child[r].read = client[r].body
      <4>1. Busy(r)
        BY <1>3, <2>1 DEF PlaceInv
      <4>2. /\ client[r].chunks + (IF at[r] = "writing" THEN 1 ELSE 0) + child[r].in + child[r].read = client[r].body
            /\ client[r].chunks = 0 /\ at[r] \in {"relaying", "waiting"}
        BY <1>3, <2>1, <4>1 DEF StreamInv
      <4>3. QED
        BY <1>2, <2>1, <4>2 DEF Children
    <3>2. QED
      BY <1>1, <1>3, <2>1, <2>4, <3>1 DEF StreamInv, Busy, OwnAnswer
  <2>6. WasmInv(r)' /\ ~Is(r, "version")
    BY <1>1, <2>1 DEF WasmInv
  <2>7. QED
    BY <1>1, <1>4, <1>5, <1>8, <2>1, <2>4, <2>5, <2>6, ChildStepKeeps
<1>11. CASE ChildTellsVersion(r)
  <2>1. Is(r, "version") /\ child[r].doing = "reading" /\ UNCHANGED temps
    BY <1>11 DEF ChildTellsVersion
  <2>2. PICK v \in {Unknown, world.installed}, failed \in BOOLEAN, n \in Int : Produces(r, failed, <<"version", v, 0>>, n)
    BY <1>11, <1>b DEF ChildTellsVersion
  <2>3. v \in Int /\ world.installed \in Nat \ {0}
    BY DEF IInv, TypeOK, Unknown
  <2>4. <<"version", v, 0>> \in Results
    BY <2>3 DEF Results
  <2>5. /\ child'[r].doing = "writing" /\ child'[r].result = <<"version", v, 0>>
        /\ child'[r].in = child[r].in /\ child'[r].read = child[r].read
        /\ child'[r].file = child[r].file
    BY <1>7, <2>2, <2>4
  <2>6. Current(child'[r].result[2], client[r].begun)
    BY <2>3, <2>5 DEF Current
  <2>7. StreamInv(r)' /\ WasmInv(r)'
    BY <1>1, <2>1 DEF StreamInv, WasmInv
  <2>8. QED
    BY <1>4, <1>5, <1>8, <2>1, <2>5, <2>6, <2>7, ChildStepKeeps
<1>12. CASE ChildWrites(r)
  <2>1. child'[r] = [child[r] EXCEPT !.left = @ - 1, !.out = @ + 1] /\ child[r].doing = "writing" /\ UNCHANGED temps
    BY <1>2, <1>12 DEF ChildWrites, Children
  <2>2. /\ child'[r].doing = "writing" /\ child'[r].failed = child[r].failed /\ child'[r].result = child[r].result
        /\ child'[r].in = child[r].in /\ child'[r].read = child[r].read /\ child'[r].eof = child[r].eof
        /\ child'[r].file = child[r].file
    BY <1>2, <2>1 DEF Children
  <2>3. QED
    BY <1>4, <1>5, <1>8, <1>13, <2>1, <2>2, ChildStepKeeps
<1>14. CASE ChildEnds(r)
  <2>1. PICK doing \in {"ending", "ended"} : child' = [child EXCEPT ![r].doing = doing]
    BY <1>14 DEF ChildEnds
  <2>2. child'[r] = [child[r] EXCEPT !.doing = doing] /\ child[r].doing \in {"writing", "ending"} /\ UNCHANGED temps
    BY <1>2, <1>14, <2>1 DEF ChildEnds, Children
  <2>3. /\ child'[r].doing = doing /\ child'[r].failed = child[r].failed /\ child'[r].result = child[r].result
        /\ child'[r].in = child[r].in /\ child'[r].read = child[r].read /\ child'[r].eof = child[r].eof
        /\ child'[r].file = child[r].file
    BY <1>2, <2>2 DEF Children
  <2>4. QED
    BY <1>4, <1>5, <1>8, <1>13, <2>1, <2>2, <2>3, ChildStepKeeps
<1>15. CASE ChildCompilesFile(r)
  <2>1. Is(r, "wasm") /\ child[r].doing = "reading" /\ mix[r] = "wasm" /\ Busy(r)
    BY <1>3, <1>15 DEF ChildCompilesFile, PlaceInv, Busy, Idle
  <2>2. SourceOf(r) \in DOMAIN temps /\ temps[SourceOf(r)] = [owner |-> r, holds |-> <<"body", r, 1>>] /\ client[r].body = 1
    BY <1>3, <2>1 DEF WasmInv
  <2>3. temps[SourceOf(r)].holds = <<"body", r, 1>> /\ temps[SourceOf(r)].owner = r
    BY <2>2
  <2>4. <<"body", r, 1>> \in Results /\ <<"rejected", r, 1>> \in Results /\ <<"compiled", r, 1>> \in Results
    BY <1>2 DEF Results
  <2>5. StreamInv(r)' /\ ~Is(r, "version")
    BY <1>1, <2>1 DEF StreamInv
  <2>6. at[r] # "sending"
    BY <1>3, <2>1 DEF WasmInv
  <2>7. CASE Produces(r, TRUE, <<"rejected", r, 1>>, 1) /\ UNCHANGED temps
    <3>1. /\ child'[r].doing = "writing" /\ child'[r].failed = TRUE /\ child'[r].result = <<"rejected", r, 1>>
          /\ child'[r].in = child[r].in /\ child'[r].read = child[r].read
          /\ child'[r].file = child[r].file
      BY <1>7, <1>b, <2>4, <2>7
    <3>2. WasmInv(r)'
      BY <1>1, <1>3, <2>1, <2>6, <2>7, <3>1 DEF WasmInv, Busy, OwnAnswer, SourceOf
    <3>3. QED
      BY <1>4, <1>5, <1>8, <2>1, <2>5, <2>7, <3>1, <3>2, ChildStepKeeps
  <2>8. CASE /\ child' = [child EXCEPT ![r].doing = "linking"]
             /\ temps' = With(temps, ObjectOf(r), [owner |-> r, holds |-> <<"compiled", r, 1>>])
    <3>0. child'[r] = [child[r] EXCEPT !.doing = "linking"]
      BY <1>2, <2>8 DEF Children
    <3>1. /\ child'[r].doing = "linking" /\ child'[r].in = child[r].in /\ child'[r].read = child[r].read
          /\ child'[r].file = child[r].file
      BY <1>2, <3>0 DEF Children
    <3>2. /\ temps' = [f \in DOMAIN temps' |-> temps'[f]] /\ DOMAIN temps' = DOMAIN temps \cup {ObjectOf(r)}
          /\ temps'[ObjectOf(r)] = [owner |-> r, holds |-> <<"compiled", r, 1>>]
          /\ \A f \in DOMAIN temps \ {ObjectOf(r)} : temps'[f] = temps[f]
      BY <2>8 DEF With
    <3>3. SourceOf(r) \in DOMAIN temps' /\ temps'[SourceOf(r)] = temps[SourceOf(r)]
      BY <2>2, <3>2 DEF SourceOf, ObjectOf
    <3>4. WasmInv(r)'
      <4>1. SourceOf(r)' = SourceOf(r) /\ ObjectOf(r)' = ObjectOf(r)
        BY <3>1 DEF SourceOf, ObjectOf
      <4>2. ObjectOf(r) \in DOMAIN temps'
        BY <3>2
      <4>3. QED
        BY <1>1, <2>2, <2>6, <3>1, <3>2, <3>3, <4>1, <4>2 DEF WasmInv
    <3>5. /\ \A f \in DOMAIN temps : f \in DOMAIN temps'
          /\ \A f \in DOMAIN temps' : f = ObjectOf(r) \/ (f \in DOMAIN temps /\ temps'[f] = temps[f])
      BY <3>2
    <3>6. TypesKept /\ TempsInv' /\ \A q \in Requests \ {r} : FilesKept(q)
      BY <1>1, <2>1, <2>2, <2>4, <3>1, <3>2, <3>3, <3>5, FileWritten DEF FileKinds, ObjectOf
    <3>7. QED
      BY <1>8, <2>1, <2>5, <3>1, <3>4, <3>6, ChildStepKeeps
  <2>9. QED
    <3> DEFINE src == temps[SourceOf(r)].holds
    <3>1. src[2] = r /\ src[3] = 1
      BY <2>3
    <3>2. \/ /\ child' = [child EXCEPT ![r].doing = "linking"]
             /\ temps' = With(temps, ObjectOf(r), [owner |-> r, holds |-> <<"compiled", src[2], src[3]>>])
          \/ /\ Produces(r, TRUE, <<"rejected", src[2], src[3]>>, 1)
             /\ UNCHANGED temps
      BY <1>15 DEF ChildCompilesFile, SourceOf, ObjectOf
    <3>3. QED
      BY <2>3, <2>7, <2>8, <3>1, <3>2
<1>16. CASE ChildLinks(r)
  <2>1. child[r].doing = "linking" /\ mix[r] = "wasm" /\ Busy(r) /\ Is(r, "wasm")
    BY <1>3, <1>16 DEF ChildLinks, PlaceInv, Busy, Idle
  <2>2. /\ SourceOf(r) \in DOMAIN temps /\ temps[SourceOf(r)] = [owner |-> r, holds |-> <<"body", r, 1>>]
        /\ ObjectOf(r) \in DOMAIN temps /\ temps[ObjectOf(r)] = [owner |-> r, holds |-> <<"compiled", r, 1>>]
        /\ client[r].body = 1 /\ at[r] # "sending"
    BY <1>3, <2>1 DEF WasmInv
  <2>3. temps[ObjectOf(r)].holds = <<"compiled", r, 1>>
    BY <2>2
  <2>4. <<"rejected", r, 1>> \in Results /\ <<"compiled", r, 1>> \in Results
    BY <1>2 DEF Results
  <2>5. StreamInv(r)' /\ ~Is(r, "version")
    BY <1>1, <2>1 DEF StreamInv
  <2>6. CASE Produces(r, TRUE, <<"rejected", r, 1>>, 1) /\ UNCHANGED temps
    <3>1. /\ child'[r].doing = "writing" /\ child'[r].failed = TRUE /\ child'[r].result = <<"rejected", r, 1>>
          /\ child'[r].in = child[r].in /\ child'[r].read = child[r].read
          /\ child'[r].file = child[r].file
      BY <1>7, <1>b, <2>4, <2>6
    <3>2. WasmInv(r)'
      BY <1>1, <2>1, <2>2, <2>6, <3>1 DEF WasmInv, Busy, OwnAnswer, SourceOf
    <3>3. QED
      BY <1>4, <1>5, <1>8, <2>1, <2>5, <2>6, <3>1, <3>2, ChildStepKeeps
  <2>7. CASE /\ Produces(r, FALSE, <<"compiled", r, 1>>, 0)
             /\ temps' = With([f \in DOMAIN temps \ {ObjectOf(r)} |-> temps[f]], BinaryOf(r),
                              [owner |-> r, holds |-> <<"compiled", r, 1>>])
    <3>1. /\ child'[r].doing = "writing" /\ child'[r].failed = FALSE
          /\ child'[r].in = child[r].in /\ child'[r].read = child[r].read
          /\ child'[r].file = child[r].file
      BY <1>7, <1>b, <2>4, <2>7
    <3>2. /\ temps' = [f \in DOMAIN temps' |-> temps'[f]]
          /\ DOMAIN temps' = (DOMAIN temps \ {ObjectOf(r)}) \cup {BinaryOf(r)}
          /\ temps'[BinaryOf(r)] = [owner |-> r, holds |-> <<"compiled", r, 1>>]
          /\ \A f \in DOMAIN temps \ {ObjectOf(r), BinaryOf(r)} : temps'[f] = temps[f]
      BY <2>7 DEF With
    <3>3. SourceOf(r) \in DOMAIN temps' /\ temps'[SourceOf(r)] = temps[SourceOf(r)] /\ ObjectOf(r) \notin DOMAIN temps'
      BY <2>2, <3>2 DEF SourceOf, ObjectOf, BinaryOf
    <3>4. WasmInv(r)'
      <4>1. SourceOf(r)' = SourceOf(r) /\ ObjectOf(r)' = ObjectOf(r) /\ BinaryOf(r)' = BinaryOf(r)
        BY <3>1 DEF SourceOf, ObjectOf, BinaryOf
      <4>2. BinaryOf(r) \in DOMAIN temps' /\ temps'[BinaryOf(r)].holds = <<"compiled", r, 1>>
        BY <3>2
      <4>3. ~child'[r].failed /\ child'[r].doing = "writing"
        BY <3>1
      <4>4. QED
        BY <1>1, <2>2, <3>3, <4>1, <4>2, <4>3 DEF WasmInv
    <3>5. /\ \A f \in DOMAIN temps : f[1] # child[r].file => f \in DOMAIN temps'
          /\ \A f \in DOMAIN temps' : f = BinaryOf(r) \/ (f \in DOMAIN temps /\ temps'[f] = temps[f])
      BY <3>2 DEF ObjectOf, BinaryOf
    <3>6. TypesKept /\ TempsInv' /\ \A q \in Requests \ {r} : FilesKept(q)
      BY <1>1, <2>1, <2>2, <2>4, <3>1, <3>2, <3>3, <3>5, FileWritten DEF FileKinds, BinaryOf
    <3>7. QED
      BY <1>8, <2>1, <2>5, <3>1, <3>4, <3>6, ChildStepKeeps
  <2>8. QED
    <3> DEFINE holds == temps[ObjectOf(r)].holds
    <3>1. \/ /\ Produces(r, FALSE, holds, 0)
             /\ temps' = With([f \in DOMAIN temps \ {ObjectOf(r)} |-> temps[f]], BinaryOf(r), [owner |-> r, holds |-> holds])
          \/ /\ Produces(r, TRUE, <<"rejected", holds[2], holds[3]>>, 1)
             /\ UNCHANGED temps
      BY <1>16 DEF ChildLinks, ObjectOf, BinaryOf
    <3>2. holds = <<"compiled", r, 1>> /\ holds[2] = r /\ holds[3] = 1
      BY <2>3
    <3>3. QED
      BY <2>6, <2>7, <3>1, <3>2
<1>20. QED
  BY <1>6, <1>9, <1>10, <1>11, <1>12, <1>14, <1>15, <1>16 DEF Child

\* What the steps of a handler have in common: its request came and has a
\* compiler.
LEMMA HandlerBusy ==
    ASSUME IInv, NEW r \in Requests, RunsCompiler(r)
    PROVE  /\ Busy(r) /\ child[r].doing # "none" /\ mix[r] \in {"stream", "wasm", "version"}
           /\ client[r].kind = mix[r]
<1>1. Busy(r)
  BY DEF RunsCompiler, GiveVersion, Collect, WaitForChild, ReadBodySome, WriteChunk, Relay, AnswerStream, ReadBinary, AnswerWasm,
         WriteFails, SeesClientGone, Reaped, Handles, Busy, Idle, Finished, Storing
<1>2. PlaceInv(r) /\ ShareInv(r) /\ OpenInv(r)
  BY DEF IInv, RequestInv
<1>3. mix[r] \in Kinds
  BY Numbers DEF IInv
<1>4. QED
  BY <1>1, <1>2, <1>3 DEF PlaceInv, ShareInv, OpenInv, Busy, Idle, Finished, Storing, Kinds, Is

\* They leave it where it is, or where a compilation or an answer goes on.
LEMMA HandlerMoves ==
    ASSUME IInv, NEW r \in Requests, RunsCompiler(r)
    PROVE  Moves(r)
<1>1. at[r] \notin Idle /\ at \in [Requests -> Places]
  BY HandlerBusy DEF IInv, TypeOK, Busy
<1>2. at'[r] \notin Storing \cup {"none"}
  <2>1. CASE GiveVersion(r) \/ AnswerStream(r) \/ AnswerWasm(r)
    <3>1. Goes(r, "answered")
      BY <2>1 DEF GiveVersion, AnswerStream, AnswerWasm, Answers
    <3>2. QED
      BY <1>1, <3>1 DEF Goes, Storing
  <2>2. CASE WaitForChild(r) \/ ReadBinary(r) \/ WriteChunk(r) \/ ReadBodySome(r)
    <3>1. PICK place \in {"waiting", "sending", "body", "relaying", "writing"} : Goes(r, place)
      BY <2>2 DEF WaitForChild, ReadBinary, WriteChunk, ReadBodySome, ReadBody
    <3>2. QED
      BY <1>1, <3>1 DEF Goes, Storing
  <2>3. CASE Collect(r) \/ Relay(r)
    BY <1>1, <2>3 DEF Collect, Relay, Idle
  <2>4. CASE WriteFails(r) \/ SeesClientGone(r)
    BY <2>4, DropTypes DEF IInv, WriteFails, SeesClientGone, Storing
  <2>5. QED
    BY <2>1, <2>2, <2>3, <2>4 DEF RunsCompiler
<1>3. client'[r].kind = client[r].kind /\ client'[r].body = client[r].body
  <2>1. CASE ReadBodySome(r)
    <3>1. CASE client' = [client EXCEPT ![r].chunks = @ - 1]
      <4>1. client'[r] = [client[r] EXCEPT !.chunks = @ - 1]
        BY <3>1 DEF IInv, TypeOK
      <4>2. QED
        BY <4>1, TypesNow DEF IInv, Clients
    <3>2. QED
      BY <2>1, <3>1 DEF ReadBodySome
  <2>2. QED
    BY <2>1 DEF RunsCompiler, GiveVersion, Collect, WaitForChild, WriteChunk, Relay, AnswerStream, ReadBinary, AnswerWasm,
       WriteFails, SeesClientGone
<1>4. QED
  BY <1>1, <1>2, <1>3 DEF Moves, Stays, Idle

\* Steps of a handler that leave the files, the cache and the shares alone.
LEMMA QuietHandlerKeeps ==
    ASSUME IInv, NEW r \in Requests, RunsCompiler(r), UNCHANGED <<mix, world, cache, temps, shared>>,
           at'[r] = "dropped" \/ (Busy(r)' /\ child'[r].file = child[r].file),
           RequestInv(r)'
    PROVE  IInv'
<1>1. TypesKept /\ OnlyOf(r)
  BY HandlerTypes DEF IInv
<1>2. TempsInv'
  BY <1>1, HandlerBusy, TempsUntouched DEF IInv
<1>3. CacheInv' /\ cache' \in [version : Int, time : Nat]
  BY DEF IInv, TypeOK, CacheInv, Current
<1>4. Moves(r) /\ mix[r] # "share"
  BY HandlerBusy, HandlerMoves
<1>5. QED
  BY <1>1, <1>2, <1>3, <1>4, FilesUntouched, StepKeeps

\* A request whose compiler was given up because it was dropped.
LEMMA DroppedInv ==
    ASSUME IInv, NEW r \in Requests, at'[r] = "dropped", at[r] # "none", child'[r] = NoChild, UNCHANGED <<mix, client>>,
           mix[r] # "open", world'.now = world.now, DOMAIN shared \subseteq DOMAIN shared'
    PROVE  RequestInv(r)'
<1> USE DEF Is, Busy, Idle, Finished, Storing, HasResult
<1>1. PlaceInv(r) /\ VersionInv(r)
  BY DEF IInv, RequestInv
<1>2. PlaceInv(r)'
  <2>1. child'[r].doing = "none" /\ child'[r].in = 0 /\ child'[r].read = 0
    BY DEF NoChild, Process
  <2>2. at[r] # "none" /\ client'[r].kind = client[r].kind /\ mix' = mix
    OBVIOUS
  <2>3. QED
    BY <1>1, <2>1, <2>2 DEF PlaceInv
<1>3. StreamInv(r)' /\ WasmInv(r)' /\ AnswerInv(r)' /\ ShareInv(r)' /\ OpenInv(r)'
  BY <1>1 DEF StreamInv, WasmInv, AnswerInv, ShareInv, OpenInv, PlaceInv
<1>4. VersionInv(r)'
  BY <1>1 DEF VersionInv, NoChild, Process
<1>5. QED
  BY <1>2, <1>3, <1>4 DEF RequestInv

\* A handler that throws loses its request and keeps the invariant.
LEMMA DroppingKeeps ==
    ASSUME IInv, NEW r \in Requests, WriteFails(r) \/ SeesClientGone(r), UNCHANGED mix
    PROVE  IInv'
<1>1. /\ Drop({r}) /\ RunsCompiler(r) /\ UNCHANGED <<world, cache, client, answer, temps, shared>>
  BY DEF WriteFails, SeesClientGone, RunsCompiler
<1>2. at'[r] = "dropped" /\ child'[r] = NoChild
  BY <1>1, DropTypes DEF IInv
<1>3. at[r] # "none" /\ mix[r] \notin {"share", "open"} /\ Moves(r)
  BY <1>1, HandlerBusy, HandlerMoves DEF Busy, Idle
<1>4. RequestInv(r)'
  BY <1>1, <1>2, <1>3, DroppedInv
<1>5. TypesKept /\ OnlyOf(r) /\ at[r] # "answered"
  BY <1>1, HandlerTypes, HandlerBusy DEF IInv, Busy, Idle, Finished, Storing
<1>6. TempsInv'
  BY <1>1, <1>2, <1>5, TempsUntouched DEF IInv
<1>7. CacheInv' /\ cache' \in [version : Int, time : Nat]
  BY <1>1 DEF IInv, TypeOK, CacheInv, Current
<1>8. QED
  BY <1>1, <1>3, <1>4, <1>5, <1>6, <1>7, FilesUntouched, StepKeeps

\* Steps that move a handler or bytes of its pipes.
LEMMA PipeHandlerKeeps ==
    ASSUME IInv, NEW r \in Requests, UNCHANGED mix,
           Collect(r) \/ WaitForChild(r) \/ ReadBodySome(r) \/ WriteChunk(r) \/ Relay(r)
    PROVE  IInv'
<1> USE DEF Is, HasResult
<1>1. RunsCompiler(r) /\ UNCHANGED <<world, cache, answer, temps, shared>>
  BY DEF RunsCompiler, Collect, WaitForChild, ReadBodySome, WriteChunk, Relay
<1>2. /\ Busy(r) /\ child[r].doing # "none" /\ mix[r] \in {"stream", "wasm", "version"}
      /\ client[r].kind = mix[r] /\ TypesKept /\ OnlyOf(r)
  BY <1>1, HandlerBusy, HandlerTypes DEF IInv
<1>3. child \in [Requests -> Children] /\ at \in [Requests -> Places]
  BY DEF IInv, TypeOK
<1>4. RequestInv(r)
  BY DEF IInv
<1>5. ASSUME Busy(r)', client'[r].kind = client[r].kind, client'[r].body = client[r].body, client'[r].begun = client[r].begun,
             at'[r] # "sending", child'[r].doing = child[r].doing, child'[r].failed = child[r].failed,
             child'[r].result = child[r].result, child'[r].file = child[r].file,
             PlaceInv(r)', StreamInv(r)'
      PROVE  IInv'
  <2>1. WasmInv(r)'
    BY <1>1, <1>2, <1>4, <1>5 DEF RequestInv, WasmInv, SourceOf, ObjectOf, BinaryOf
  <2>2. VersionInv(r)'
    BY <1>1, <1>2, <1>4, <1>5 DEF RequestInv, VersionInv, Current, Busy, Idle, Finished, Storing
  <2>3. AnswerInv(r)' /\ ShareInv(r)' /\ OpenInv(r)'
    BY <1>2, <1>5 DEF AnswerInv, ShareInv, OpenInv, Busy, Idle, Finished, Storing
  <2>4. QED
    BY <1>1, <1>5, <2>1, <2>2, <2>3, QuietHandlerKeeps DEF RequestInv
<1>6. ASSUME child'[r].in = child[r].in, child'[r].read = child[r].read, child'[r].eof = child[r].eof,
             child'[r].doing = child[r].doing, child'[r].result = child[r].result, UNCHANGED client
      PROVE  /\ (at'[r] = at[r] => PlaceInv(r)' /\ StreamInv(r)')
             /\ (at'[r] = "waiting" /\ at[r] \in {"collecting", "relaying"} => PlaceInv(r)' /\ StreamInv(r)')
  BY <1>2, <1>4, <1>6 DEF RequestInv, PlaceInv, StreamInv, Busy, Idle, Finished, Storing, OwnAnswer
<1>7. CASE Collect(r) \/ Relay(r)
  <2>1. child' = [child EXCEPT ![r].out = @ - 1] /\ UNCHANGED <<at, client>>
    BY <1>7 DEF Collect, Relay
  <2>2. /\ child'[r].in = child[r].in /\ child'[r].read = child[r].read /\ child'[r].eof = child[r].eof
        /\ child'[r].doing = child[r].doing /\ child'[r].result = child[r].result
        /\ child'[r].failed = child[r].failed /\ child'[r].file = child[r].file
    BY <1>3, <2>1 DEF Children
  <2>3. at[r] # "sending"
    BY <1>7 DEF Collect, Relay, Handles
  <2>4. QED
    BY <1>2, <1>5, <1>6, <2>1, <2>2, <2>3 DEF Busy
<1>8. CASE WaitForChild(r)
  <2>1. at[r] \in {"collecting", "relaying"} /\ at'[r] = "waiting" /\ UNCHANGED <<client, child>>
    BY <1>3, <1>8 DEF WaitForChild, Goes
  <2>2. Busy(r)'
    BY <2>1 DEF Busy, Idle, Finished, Storing
  <2>3. QED
    BY <1>5, <1>6, <2>1, <2>2
<1>9. ASSUME mix[r] = "stream", at'[r] \in {"body", "writing", "relaying"},
             child'[r].in \in Nat, child'[r].read = child[r].read, child'[r].doing = child[r].doing,
             child'[r].result = child[r].result, client'[r].kind = client[r].kind, client'[r].body = client[r].body,
             client'[r].chunks + (IF at'[r] = "writing" THEN 1 ELSE 0) + child'[r].in
                = client[r].chunks + (IF at[r] = "writing" THEN 1 ELSE 0) + child[r].in,
             client'[r].chunks \in Nat, child'[r].eof => client'[r].chunks = 0 /\ at'[r] = "relaying"
      PROVE  PlaceInv(r)' /\ StreamInv(r)' /\ Busy(r)' /\ at'[r] # "sending"
  <2>1. Busy(r)' /\ at'[r] \notin {"sending", "none"}
    BY <1>9 DEF Busy, Idle, Finished, Storing
  <2>2. PlaceInv(r)'
    BY <1>2, <1>4, <1>9, <2>1 DEF RequestInv, PlaceInv, Storing
  <2>3. client[r].chunks \in Nat /\ client[r].body \in Nat /\ child[r].in \in Nat /\ child[r].read \in Nat
    BY <1>2, <1>3, <1>9, ClientTypes DEF IInv, Children
  <2>4. client[r].chunks + (IF at[r] = "writing" THEN 1 ELSE 0) + child[r].in + child[r].read = client[r].body
    BY <1>2, <1>4, <1>9 DEF RequestInv, StreamInv
  <2>5. StreamInv(r)'
    BY <1>2, <1>4, <1>9, <2>3, <2>4 DEF RequestInv, StreamInv, OwnAnswer
  <2>6. QED
    BY <2>1, <2>2, <2>5
<1>10. CASE WriteChunk(r)
  <2>1. child' = [child EXCEPT ![r].in = @ + 1] /\ at[r] = "writing" /\ at'[r] = "body" /\ UNCHANGED client
    BY <1>3, <1>10 DEF WriteChunk, Handles, Goes
  <2>2. /\ child'[r].in = child[r].in + 1 /\ child'[r].read = child[r].read /\ child'[r].eof = child[r].eof
        /\ child'[r].doing = child[r].doing /\ child'[r].result = child[r].result
        /\ child'[r].failed = child[r].failed /\ child'[r].file = child[r].file
    BY <1>3, <2>1 DEF Children
  <2>3. mix[r] = "stream" /\ ~child[r].eof
    BY <1>2, <1>4, <2>1 DEF RequestInv, PlaceInv, StreamInv
  <2>4. client[r].chunks \in Nat /\ child[r].in \in Nat
    BY <1>3, ClientTypes DEF IInv, Children
  <2>5. QED
    BY <1>5, <1>9, <2>1, <2>2, <2>3, <2>4
<1>11. CASE ReadBodySome(r)
  <2>1. at[r] = "body" /\ at'[r] = ReadBody(r) /\ mix[r] = "stream"
    BY <1>3, <1>4, <1>11 DEF ReadBodySome, Handles, Goes, RequestInv, PlaceInv
  <2>2. client[r].chunks \in Nat /\ child[r].in \in Nat
    BY <1>3, ClientTypes DEF IInv, Children
  <2>3. CASE client[r].chunks = 0
    <3>1. at'[r] = "relaying" /\ child' = [child EXCEPT ![r].eof = TRUE] /\ UNCHANGED client
      BY <1>11, <2>1, <2>3 DEF ReadBodySome, ReadBody, CloseWrite
    <3>2. /\ child'[r].in = child[r].in /\ child'[r].read = child[r].read
          /\ child'[r].doing = child[r].doing /\ child'[r].result = child[r].result
          /\ child'[r].failed = child[r].failed /\ child'[r].file = child[r].file
      BY <1>3, <3>1 DEF Children
    <3>3. QED
      BY <1>5, <1>9, <2>1, <2>2, <2>3, <3>1, <3>2
  <2>4. CASE client[r].chunks # 0
    <3>1. at'[r] = "writing" /\ client' = [client EXCEPT ![r].chunks = @ - 1] /\ UNCHANGED child
      BY <1>11, <2>1, <2>4 DEF ReadBodySome, ReadBody
    <3>2. client'[r] = [client[r] EXCEPT !.chunks = client[r].chunks - 1]
      BY <3>1 DEF IInv, TypeOK
    <3>3. /\ client'[r].kind = client[r].kind /\ client'[r].body = client[r].body /\ client'[r].begun = client[r].begun
          /\ client'[r].chunks = client[r].chunks - 1
      BY <3>2, TypesNow DEF IInv, Clients
    <3>4. ~child[r].eof
      BY <1>2, <1>4, <2>1 DEF RequestInv, StreamInv
    <3>5. QED
      BY <1>5, <1>9, <2>1, <2>2, <2>4, <3>1, <3>3, <3>4
  <2>5. QED
    BY <2>3, <2>4
<1>12. QED
  BY <1>7, <1>8, <1>10, <1>11

\* The compiler's result becomes the answer.
LEMMA AnswerStreamKeeps ==
    ASSUME IInv, NEW r \in Requests, AnswerStream(r), UNCHANGED mix
    PROVE  IInv'
<1> USE DEF Is, Busy, Idle, Finished, Storing, HasResult
<1>1. /\ RunsCompiler(r) /\ UNCHANGED <<world, cache, client, temps, shared>> /\ client[r].kind = "stream"
      /\ Reaped(r) /\ Answers(r, child[r].result) /\ child' = [child EXCEPT ![r] = NoChild]
  BY DEF AnswerStream, RunsCompiler
<1>2. TypesKept /\ OnlyOf(r) /\ at[r] = "waiting" /\ child[r].doing = "ended" /\ mix[r] = "stream"
  BY <1>1, HandlerTypes, HandlerBusy DEF IInv, Reaped
<1>3. at'[r] = "answered" /\ answer'[r] = child[r].result /\ child'[r] = NoChild
  BY <1>1, AnswersTypes, GivenUpTypes DEF IInv
<1>4. OwnAnswer(r, child[r].result)
  BY <1>1, <1>2 DEF IInv, RequestInv, StreamInv
<1>5. PlaceInv(r)' /\ AnswerInv(r)'
  BY <1>1, <1>2, <1>3, <1>4 DEF PlaceInv, AnswerInv, OwnAnswer, NoChild, Process
<1>6. StreamInv(r)' /\ WasmInv(r)' /\ ShareInv(r)' /\ OpenInv(r)'
  BY <1>1, <1>3 DEF StreamInv, WasmInv, ShareInv, OpenInv
<1>7. VersionInv(r)'
  BY <1>1, <1>3 DEF VersionInv, IInv, RequestInv
<1>8. TempsInv'
  BY <1>1, <1>2, TempsUntouched DEF IInv
<1>9. CacheInv' /\ cache' \in [version : Int, time : Nat]
  BY <1>1 DEF IInv, TypeOK, CacheInv, Current
<1>10. RequestInv(r)'
  BY <1>5, <1>6, <1>7 DEF RequestInv
<1>11. QED
  BY <1>1, <1>2, <1>8, <1>9, <1>10, FilesUntouched, HandlerMoves, StepKeeps

\* The version goes to the cache with the time the request came.
LEMMA GiveVersionKeeps ==
    ASSUME IInv, NEW r \in Requests, GiveVersion(r), UNCHANGED mix
    PROVE  IInv'
<1> USE DEF Is, Busy, Idle, Finished, Storing, HasResult
<1>1. /\ RunsCompiler(r) /\ UNCHANGED <<world, client, temps, shared>> /\ client[r].kind = "version"
      /\ Reaped(r) /\ cache' = [version |-> child[r].result[2], time |-> client[r].begun]
      /\ child' = [child EXCEPT ![r] = NoChild]
  BY DEF GiveVersion, RunsCompiler, VersionKnown
<1>a. Answers(r, <<"version", child[r].result[2], 0>>)
  BY <1>1 DEF GiveVersion
<1>2. TypesKept /\ OnlyOf(r) /\ at[r] = "waiting" /\ child[r].doing = "ended" /\ mix[r] = "version"
  BY <1>1, HandlerTypes, HandlerBusy DEF IInv, Reaped
<1>3. at'[r] = "answered" /\ answer'[r] = <<"version", child[r].result[2], 0>> /\ child'[r] = NoChild
  BY <1>1, <1>a, AnswersTypes, GivenUpTypes DEF IInv
<1>4. Current(child[r].result[2], client[r].begun) /\ client[r].begun <= world.now /\ client[r].begun \in Nat
  BY <1>1, <1>2, ClientTypes DEF IInv, RequestInv, VersionInv
<1>5. PlaceInv(r)'
  BY <1>1, <1>2, <1>3 DEF PlaceInv, NoChild, Process
<1>6. StreamInv(r)' /\ WasmInv(r)' /\ AnswerInv(r)' /\ ShareInv(r)' /\ OpenInv(r)'
  BY <1>1, <1>3 DEF StreamInv, WasmInv, AnswerInv, ShareInv, OpenInv
<1>7. VersionInv(r)'
  <2>1. Current(child[r].result[2], client[r].begun - CacheFor + 1)
    BY <1>4, ServiceAssumption, CurrentEarlier DEF IInv
  <2>2. child'[r].doing = "none" /\ answer'[r][2] = child[r].result[2]
    BY <1>3 DEF NoChild, Process
  <2>3. QED
    BY <1>1, <1>3, <1>4, <2>1, <2>2 DEF VersionInv, Current
<1>8. TempsInv'
  BY <1>1, <1>2, TempsUntouched DEF IInv
<1>9. CacheInv' /\ cache' \in [version : Int, time : Nat]
  <2>1. child[r].result \in Results
    BY DEF IInv, TypeOK, Children
  <2>2. child[r].result[2] \in Int
    BY <2>1 DEF Results
  <2>3. QED
    BY <1>1, <1>4, <2>2 DEF IInv, CacheInv, Current
<1>10. RequestInv(r)'
  BY <1>5, <1>6, <1>7 DEF RequestInv
<1>11. QED
  BY <1>1, <1>2, <1>8, <1>9, <1>10, FilesUntouched, HandlerMoves, StepKeeps

\* The binary that is read is the request's own.
LEMMA ReadBinaryKeeps ==
    ASSUME IInv, NEW r \in Requests, ReadBinary(r), UNCHANGED mix
    PROVE  IInv'
<1> USE DEF Is, HasResult
<1>1. /\ RunsCompiler(r) /\ UNCHANGED <<world, cache, client, child, temps, shared>> /\ client[r].kind = "wasm"
      /\ at[r] = "waiting" /\ child[r].doing = "ended" /\ at' = [at EXCEPT ![r] = "sending"]
      /\ answer' = [answer EXCEPT ![r] = IF child[r].failed THEN child[r].result ELSE temps[BinaryOf(r)].holds]
  BY DEF ReadBinary, RunsCompiler, Reaped, Goes, BinaryOf
<1>2. mix[r] = "wasm" /\ Busy(r) /\ child[r].doing # "none"
  BY <1>1, HandlerBusy
<1>3. at'[r] = "sending" /\ answer'[r] = IF child[r].failed THEN child[r].result ELSE temps[BinaryOf(r)].holds
  BY <1>1 DEF IInv, TypeOK
<1>4. WasmInv(r) /\ PlaceInv(r) /\ VersionInv(r)
  BY DEF IInv, RequestInv
<1>5. OwnAnswer(r, answer'[r])
  BY <1>1, <1>2, <1>3, <1>4 DEF WasmInv, OwnAnswer
<1>6. Busy(r)'
  BY <1>3 DEF Busy, Idle, Finished, Storing
<1>7. PlaceInv(r)'
  BY <1>1, <1>2, <1>3, <1>4, <1>6 DEF PlaceInv, Storing
<1>8. WasmInv(r)'
  <2>1. at[r] # "sending" /\ HasResult(r) /\ (child[r].failed => answer'[r][1] = "rejected")
    BY <1>1, <1>2, <1>3, <1>4 DEF WasmInv
  <2>2. SourceOf(r)' = SourceOf(r) /\ ObjectOf(r)' = ObjectOf(r) /\ BinaryOf(r)' = BinaryOf(r)
    BY <1>1 DEF SourceOf, ObjectOf, BinaryOf
  <2>3. OwnAnswer(r, answer[r])'
    BY <1>1, <1>5 DEF OwnAnswer
  <2>4. QED
    BY <1>1, <1>2, <1>4, <2>1, <2>2, <2>3 DEF WasmInv
<1>9. StreamInv(r)' /\ AnswerInv(r)' /\ ShareInv(r)' /\ OpenInv(r)'
  BY <1>1, <1>3 DEF StreamInv, AnswerInv, ShareInv, OpenInv
<1>10. VersionInv(r)'
  BY <1>1, <1>4 DEF VersionInv
<1>11. RequestInv(r)'
  BY <1>7, <1>8, <1>9, <1>10 DEF RequestInv
<1>12. at'[r] = "dropped" \/ (Busy(r)' /\ child'[r].file = child[r].file)
  BY <1>1, <1>6
<1>13. QED
  BY <1>1, <1>11, <1>12, QuietHandlerKeeps

\* The files that are removed are the request's own, and all of them.
LEMMA AnswerWasmKeeps ==
    ASSUME IInv, NEW r \in Requests, AnswerWasm(r), UNCHANGED mix
    PROVE  IInv'
<1> USE DEF Is, HasResult
<1>1. /\ RunsCompiler(r) /\ UNCHANGED <<world, cache, client, answer, shared>> /\ client[r].kind = "wasm"
      /\ at[r] = "sending" /\ at' = [at EXCEPT ![r] = "answered"] /\ child' = [child EXCEPT ![r] = NoChild]
      /\ temps' = [f \in DOMAIN temps \ {SourceOf(r), BinaryOf(r)} |-> temps[f]]
  BY DEF AnswerWasm, RunsCompiler, Handles, Goes, RemoveTemps, FilesOf, SourceOf, BinaryOf
<1>2. mix[r] = "wasm" /\ Busy(r) /\ TypesKept /\ OnlyOf(r)
  BY <1>1, HandlerBusy, HandlerTypes DEF IInv
<1>3. at'[r] = "answered" /\ child'[r] = NoChild
  BY <1>1, GivenUpTypes DEF IInv, TypeOK
<1>4. WasmInv(r) /\ PlaceInv(r) /\ VersionInv(r)
  BY DEF IInv, RequestInv
<1>5. /\ OwnAnswer(r, answer[r]) /\ SourceOf(r) \in DOMAIN temps /\ temps[SourceOf(r)].owner = r
      /\ ObjectOf(r) \in DOMAIN temps => answer[r][1] = "rejected"
  BY <1>1, <1>2, <1>4 DEF WasmInv
<1>6. PlaceInv(r)' /\ AnswerInv(r)'
  <2>1. child'[r].doing = "none" /\ child'[r].in = 0 /\ child'[r].read = 0
    BY <1>3 DEF NoChild, Process
  <2>2. PlaceInv(r)'
    BY <1>1, <1>2, <1>3, <1>4, <2>1 DEF PlaceInv, Busy, Idle, Finished, Storing
  <2>3. AnswerInv(r)'
    BY <1>1, <1>5 DEF AnswerInv, OwnAnswer
  <2>4. QED
    BY <2>2, <2>3
<1>7. StreamInv(r)' /\ WasmInv(r)' /\ ShareInv(r)' /\ OpenInv(r)'
  BY <1>1, <1>3 DEF StreamInv, WasmInv, ShareInv, OpenInv, Busy, Idle, Finished, Storing
<1>8. VersionInv(r)'
  BY <1>1, <1>4 DEF VersionInv
<1>9. RequestInv(r)'
  BY <1>6, <1>7, <1>8 DEF RequestInv
<1>10. /\ DOMAIN temps' = DOMAIN temps \ {SourceOf(r), BinaryOf(r)} /\ \A f \in DOMAIN temps' : temps'[f] = temps[f]
  BY <1>1
<1>11. ASSUME NEW f \in DOMAIN temps'
       PROVE  LET o == temps'[f].owner
              IN  /\ at'[o] # "none" /\ mix[o] = "wasm"
                  /\ at'[o] \notin Idle => f[1] = child'[o].file
                  /\ at'[o] = "answered" => f[2] = "obj" /\ answer'[o][1] = "rejected"
                  /\ f[2] # "obj" => <<f[1], "src">> \in DOMAIN temps' /\ temps'[<<f[1], "src">>].owner = o
  <2> DEFINE o == temps[f].owner
  <2>1. temps'[f] = temps[f] /\ f \in DOMAIN temps /\ f # SourceOf(r) /\ f # BinaryOf(r)
    BY <1>10
  <2>2. /\ at[o] # "none" /\ mix[o] = "wasm" /\ o \in Requests /\ f[2] \in FileKinds /\ f = <<f[1], f[2]>>
        /\ Busy(o) => f[1] = child[o].file
        /\ at[o] = "answered" => f[2] = "obj" /\ answer[o][1] = "rejected"
        /\ f[2] # "obj" => <<f[1], "src">> \in DOMAIN temps /\ temps[<<f[1], "src">>].owner = o
    BY <2>1 DEF IInv, TempsInv, TypeOK, TempFiles
  <2>3. CASE o = r
    <3>1. f[1] = child[r].file /\ f[2] = "obj"
      BY <1>2, <2>1, <2>2, <2>3 DEF SourceOf, BinaryOf, FileKinds
    <3>2. answer[r][1] = "rejected"
      BY <1>5, <2>1, <2>2, <3>1 DEF ObjectOf
    <3>3. QED
      BY <1>1, <1>2, <1>3, <2>1, <2>3, <3>1, <3>2 DEF Idle, Finished
  <2>4. CASE o # r
    <3>1. at'[o] = at[o] /\ child'[o] = child[o] /\ answer'[o] = answer[o]
      BY <1>1, <1>2, <2>2, <2>4 DEF OnlyOf
    <3>2. ASSUME f[2] # "obj" PROVE <<f[1], "src">> \in DOMAIN temps' /\ temps'[<<f[1], "src">>] = temps[<<f[1], "src">>]
      <4>1. <<f[1], "src">> # SourceOf(r)
        BY <1>5, <2>2, <2>4, <3>2
      <4>2. <<f[1], "src">> # BinaryOf(r)
        BY DEF BinaryOf
      <4>3. QED
        BY <1>10, <2>2, <3>2, <4>1, <4>2
    <3>3. f[2] # "obj" => <<f[1], "src">> \in DOMAIN temps' /\ temps'[<<f[1], "src">>].owner = o
      BY <2>2, <3>2
    <3>4. QED
      BY <2>1, <2>2, <3>1, <3>3 DEF Busy
  <2>5. QED
    BY <2>3, <2>4
<1>15. TempsInv'
  BY <1>11 DEF TempsInv, Busy
<1>16. ASSUME NEW q \in Requests \ {r} PROVE FilesKept(q)
  <2> SUFFICES ASSUME Is(q, "wasm"), Busy(q), NEW k \in FileKinds
               PROVE  LET f == <<child[q].file, k>>
                      IN  (f \in DOMAIN temps' <=> f \in DOMAIN temps) /\ (f \in DOMAIN temps => temps'[f] = temps[f])
    BY DEF FilesKept
  <2>1. temps[SourceOf(q)] = [owner |-> q, holds |-> <<"body", q, 1>>]
    BY DEF IInv, RequestInv, WasmInv
  <2>2. temps[SourceOf(q)].owner = q
    BY <2>1
  <2>3. child[q].file # child[r].file
    BY <1>5, <2>2 DEF SourceOf
  <2>4. <<child[q].file, k>> # SourceOf(r) /\ <<child[q].file, k>> # BinaryOf(r)
    BY <2>3 DEF SourceOf, BinaryOf
  <2>5. QED
    BY <1>10, <2>4
<1>17. CacheInv' /\ cache' \in [version : Int, time : Nat]
  BY <1>1 DEF IInv, TypeOK, CacheInv, Current
<1>18. QED
  BY <1>1, <1>2, <1>9, <1>15, <1>16, <1>17, HandlerMoves, StepKeeps

\* What a step that stores a share writes, and where it leads.
LEMMA StoreShareEffect ==
    ASSUME TypeOK, NEW r \in Requests, StoreShare(r)
    PROVE  /\ TypesKept /\ OnlyOf(r) /\ UNCHANGED <<world, cache, client, child, temps>> /\ at[r] \in Storing
           /\ DOMAIN shared \subseteq DOMAIN shared'
           /\ \A f \in DOMAIN shared : f \notin {CodeFile(IdOf(r)), MembersFile(IdOf(r))} => shared'[f] = shared[f]
           /\ at'[r] \in {"write members", "answered"} /\ CodeFile(IdOf(r)) \in DOMAIN shared
                 => shared'[CodeFile(IdOf(r))] = shared[CodeFile(IdOf(r))]
           /\ \/ at'[r] = "write code"
              \/ /\ at'[r] = "open members"
                 /\ CodeFile(IdOf(r)) \in DOMAIN shared' /\ shared'[CodeFile(IdOf(r))] = client[r].body.code
              \/ at[r] = "open members" /\ at'[r] = "write members"
              \/ /\ at[r] = "write members" /\ at'[r] = "answered" /\ answer'[r] = <<"share", IdOf(r), 0>>
                 /\ MembersFile(IdOf(r)) \in DOMAIN shared' /\ shared'[MembersFile(IdOf(r))] = Members(client[r].body)
<1> DEFINE code == CodeFile(IdOf(r))
           members == MembersFile(IdOf(r))
<1>1. code # members
  BY DEF CodeFile, MembersFile
<1>2. ASSUME NEW file \in {code, members}, NEW content, Stores(r, file, content)
      PROVE  /\ UNCHANGED <<world, cache, client, child, temps>>
             /\ shared' = [f \in DOMAIN shared' |-> shared'[f]] /\ DOMAIN shared' = DOMAIN shared \cup {file}
             /\ shared'[file] = content /\ \A f \in DOMAIN shared : f # file => shared'[f] = shared[f]
  BY <1>2 DEF Stores, With
<1>3. ASSUME NEW place \in Places, Goes(r, place), UNCHANGED answer, NEW file \in {code, members}, NEW content, Stores(r, file, content)
      PROVE  TypesKept /\ OnlyOf(r) /\ at'[r] = place
  <2>1. at' \in [Requests -> Places] /\ at'[r] = place /\ \A q \in Requests \ {r} : at'[q] = at[q]
    BY <1>3, GoesTypes
  <2>2. QED
    BY <1>2, <1>3, <2>1, TypesNow DEF TypesKept, OnlyOf
<1>4. CASE OpenCode(r)
  <2>1. at[r] = "open code" /\ Stores(r, code, <<>>) /\ Goes(r, "write code") /\ UNCHANGED answer /\ "write code" \in Places
    BY <1>4 DEF OpenCode, Places, Storing
  <2>2. TypesKept /\ OnlyOf(r) /\ at'[r] = "write code"
    BY <1>3, <2>1
  <2>3. QED
    BY <1>2, <2>1, <2>2 DEF Storing
<1>5. CASE WriteCode(r)
  <2>1. /\ at[r] = "write code" /\ Stores(r, code, client[r].body.code) /\ Goes(r, "open members")
        /\ UNCHANGED answer /\ "open members" \in Places
    BY <1>5 DEF WriteCode, Places, Storing
  <2>2. TypesKept /\ OnlyOf(r) /\ at'[r] = "open members"
    BY <1>3, <2>1
  <2>3. QED
    BY <1>2, <2>1, <2>2 DEF Storing
<1>6. CASE OpenMembers(r)
  <2>1. /\ at[r] = "open members" /\ Stores(r, members, NoMembers) /\ Goes(r, "write members")
        /\ UNCHANGED answer /\ "write members" \in Places
    BY <1>6 DEF OpenMembers, Places, Storing
  <2>2. TypesKept /\ OnlyOf(r) /\ at'[r] = "write members"
    BY <1>3, <2>1
  <2>3. QED
    BY <1>1, <1>2, <2>1, <2>2 DEF Storing
<1>7. CASE WriteMembers(r)
  <2>1. at[r] = "write members" /\ Stores(r, members, Members(client[r].body)) /\ Answers(r, <<"share", IdOf(r), 0>>)
    BY <1>7 DEF WriteMembers
  <2>2. /\ at' \in [Requests -> Places] /\ answer' = [q \in Requests |-> answer'[q]]
        /\ at'[r] = "answered" /\ answer'[r] = <<"share", IdOf(r), 0>>
        /\ \A q \in Requests \ {r} : at'[q] = at[q] /\ answer'[q] = answer[q]
    BY <2>1, AnswersTypes
  <2>3. TypesKept /\ OnlyOf(r)
    BY <1>2, <2>1, <2>2, TypesNow DEF TypesKept, OnlyOf
  <2>4. QED
    BY <1>1, <1>2, <2>1, <2>2, <2>3 DEF Storing
<1>8. QED
  BY <1>4, <1>5, <1>6, <1>7 DEF StoreShare

\* A share writes the files of its own id, and the last one to write them is the last
\* share of this id.
LEMMA StoreShareKeeps ==
    ASSUME IInv, NEW r \in Requests, StoreShare(r), UNCHANGED mix
    PROVE  IInv'
<1> DEFINE code == CodeFile(IdOf(r))
           members == MembersFile(IdOf(r))
<1>1. /\ TypesKept /\ OnlyOf(r) /\ UNCHANGED <<world, cache, client, child, temps>> /\ at[r] \in Storing
      /\ DOMAIN shared \subseteq DOMAIN shared'
      /\ \A f \in DOMAIN shared : f \notin {code, members} => shared'[f] = shared[f]
      /\ at'[r] \in {"write members", "answered"} /\ code \in DOMAIN shared => shared'[code] = shared[code]
      /\ \/ at'[r] = "write code"
         \/ at'[r] = "open members" /\ code \in DOMAIN shared' /\ shared'[code] = client[r].body.code
         \/ at[r] = "open members" /\ at'[r] = "write members"
         \/ /\ at[r] = "write members" /\ at'[r] = "answered" /\ answer'[r] = <<"share", IdOf(r), 0>>
            /\ members \in DOMAIN shared' /\ shared'[members] = Members(client[r].body)
  BY StoreShareEffect DEF IInv
<1>2. /\ mix[r] = "share" /\ Is(r, "share") /\ at[r] # "none" /\ at[r] \notin Finished /\ child[r].doing = "none"
      /\ PlaceInv(r) /\ VersionInv(r)
  BY <1>1 DEF IInv, RequestInv, PlaceInv, Storing, Finished, Is, Busy, Idle
<1>3. at'[r] \in Storing \cup {"answered"}
  BY <1>1 DEF Storing
<1>4. ASSUME at[r] \in {"open members", "write members"} PROVE code \in DOMAIN shared /\ shared[code] = client[r].body.code
  BY <1>4 DEF IInv, StoreInv
<1>5. /\ at'[r] \in {"open members", "write members", "answered"} =>
            code \in DOMAIN shared' /\ shared'[code] = client[r].body.code
      /\ at'[r] = "answered" =>
            members \in DOMAIN shared' /\ shared'[members] = Members(client[r].body) /\ answer'[r][2] = IdOf(r)
  <2>1. at'[r] \in {"write members", "answered"} => at[r] \in {"open members", "write members"}
    BY <1>1
  <2>2. at'[r] \in {"write members", "answered"} => code \in DOMAIN shared' /\ shared'[code] = client[r].body.code
    BY <1>1, <1>4, <2>1
  <2>3. at'[r] = "open members" => code \in DOMAIN shared' /\ shared'[code] = client[r].body.code
    BY <1>1
  <2>4. ASSUME at'[r] = "answered"
        PROVE  members \in DOMAIN shared' /\ shared'[members] = Members(client[r].body) /\ answer'[r] = <<"share", IdOf(r), 0>>
    BY <1>1, <2>4
  <2>5. at'[r] = "answered" => answer'[r][2] = IdOf(r)
    <3>1. ASSUME at'[r] = "answered" PROVE answer'[r][2] = IdOf(r)
      <4>1. answer'[r] = <<"share", IdOf(r), 0>>
        BY <2>4, <3>1
      <4>2. QED
        BY <4>1
    <3>2. QED
      BY <3>1
  <2>6. QED
    BY <2>2, <2>3, <2>4, <2>5
<1>6. ASSUME NEW s \in Requests \ {r}, at[s] # "none" PROVE s < r /\ at[s] \notin Storing
  <2>1. s < r \/ r < s
    BY Numbers DEF IInv
  <2>2. QED
    BY <1>1, <1>2, <1>6, <2>1 DEF IInv, OrderInv
<1>7. \A s \in Requests : IdOf(s)' = IdOf(s) /\ client'[s] = client[s]
  BY <1>1 DEF IdOf
<1>8. StoreInv'
  <2>1. ASSUME NEW s \in Requests, at'[s] \in {"open members", "write members"}
        PROVE  CodeFile(IdOf(s)) \in DOMAIN shared' /\ shared'[CodeFile(IdOf(s))] = client[s].body.code
    <3>1. s = r
      BY <1>1, <1>6, <2>1 DEF OnlyOf, Storing
    <3>2. QED
      BY <1>5, <2>1, <3>1
  <2>2. ASSUME NEW s \in Requests, Is(s, "share"), at'[s] = "answered",
               \A t \in Requests : Is(t, "share") /\ IdOf(t) = IdOf(s) => t <= s
        PROVE  /\ CodeFile(IdOf(s)) \in DOMAIN shared' /\ shared'[CodeFile(IdOf(s))] = client[s].body.code
               /\ MembersFile(IdOf(s)) \in DOMAIN shared' /\ shared'[MembersFile(IdOf(s))] = Members(client[s].body)
    <3>1. CASE s = r
      BY <1>5, <2>2, <3>1
    <3>2. CASE s # r
      <4>1. at[s] = "answered" /\ s < r
        BY <1>1, <1>6, <2>2, <3>2 DEF OnlyOf
      <4>2. IdOf(s) # IdOf(r)
        <5>1. ~(r <= s)
          BY <4>1, Numbers DEF IInv
        <5>2. QED
          BY <1>2, <2>2, <5>1
      <4>3. {CodeFile(IdOf(s)), MembersFile(IdOf(s))} \cap {code, members} = {}
        BY <4>2 DEF CodeFile, MembersFile
      <4>4. /\ CodeFile(IdOf(s)) \in DOMAIN shared /\ shared[CodeFile(IdOf(s))] = client[s].body.code
            /\ MembersFile(IdOf(s)) \in DOMAIN shared /\ shared[MembersFile(IdOf(s))] = Members(client[s].body)
        BY <2>2, <4>1 DEF IInv, StoreInv
      <4>5. QED
        BY <1>1, <4>3, <4>4
    <3>3. QED
      BY <3>1, <3>2
  <2>3. Requests' = Requests
    BY DEF Requests
  <2>4. QED
    BY <1>7, <2>1, <2>2, <2>3 DEF StoreInv, Is, CodeFile, MembersFile
<1>9. PlaceInv(r)'
  <2>1. client'[r] = client[r] /\ child'[r] = child[r]
    BY <1>1
  <2>2. QED
    BY <1>2, <1>3, <2>1 DEF PlaceInv, Storing, Is, Busy, Idle, Finished
<1>10. StreamInv(r)' /\ WasmInv(r)' /\ AnswerInv(r)' /\ OpenInv(r)'
  BY <1>1, <1>2 DEF StreamInv, WasmInv, AnswerInv, OpenInv, Is
<1>11. VersionInv(r)'
  BY <1>1, <1>2 DEF VersionInv, Is
<1>12. ShareInv(r)'
  BY <1>1, <1>3, <1>5, <1>7 DEF ShareInv, Is, CodeFile, Finished
<1>13. RequestInv(r)'
  BY <1>9, <1>10, <1>11, <1>12 DEF RequestInv
<1>14. TempsInv'
  BY <1>1, <1>2, TempsUntouched DEF IInv
<1>15. CacheInv' /\ cache' \in [version : Int, time : Nat]
  BY <1>1 DEF IInv, TypeOK, CacheInv, Current
<1>16. Moves(r)
  BY <1>1, <1>2, <1>3 DEF Moves, Stays, Storing
<1>17. QED
  BY <1>1, <1>8, <1>13, <1>14, <1>15, <1>16, FilesUntouched, StepKeeps

\* A step of a handler keeps the invariant.
LEMMA HandlerKeeps ==
    ASSUME IInv, NEW r \in Requests, Handler(r), UNCHANGED mix
    PROVE  IInv'
<1>1. ASSUME RunsCompiler(r) PROVE IInv'
  BY <1>1, GiveVersionKeeps, PipeHandlerKeeps, AnswerStreamKeeps, ReadBinaryKeeps, AnswerWasmKeeps, DroppingKeeps DEF RunsCompiler
<1>2. QED
  BY <1>1, StoreShareKeeps DEF Handler

\* A client that leaves keeps the invariant.
LEMMA LeaveKeeps ==
    ASSUME IInv, NEW r \in Requests, Leave(r), UNCHANGED mix
    PROVE  IInv'
<1> USE DEF Is
<1>1. /\ client[r].kind \in {"stream", "wasm"} /\ at[r] \notin Finished
      /\ client' = [client EXCEPT ![r].gone = TRUE] /\ UNCHANGED <<world, cache, at, child, answer, temps, shared>>
  BY DEF Leave
<1>2. client[r] \in Clients(Nat) /\ client' = [q \in Requests |-> client'[q]]
      /\ client'[r] = [client[r] EXCEPT !.gone = TRUE] /\ \A q \in Requests \ {r} : client'[q] = client[q]
  BY <1>1 DEF IInv, TypeOK
<1>3. /\ client'[r].kind = client[r].kind /\ client'[r].body = client[r].body
      /\ client'[r].begun = client[r].begun /\ client'[r].chunks = client[r].chunks
      /\ client'[r] \in Clients(Nat)
  BY <1>2 DEF Clients
<1>4. RequestInv(r)
  BY DEF IInv
<1>5. PlaceInv(r)' /\ StreamInv(r)'
  BY <1>1, <1>3, <1>4 DEF RequestInv, PlaceInv, StreamInv, Busy, Idle, Finished, Storing, HasResult, OwnAnswer
<1>6. WasmInv(r)' /\ AnswerInv(r)'
  BY <1>1, <1>3, <1>4 DEF RequestInv, WasmInv, AnswerInv, Busy, Idle, Finished, Storing, HasResult, OwnAnswer, SourceOf, ObjectOf, BinaryOf
<1>7. VersionInv(r)' /\ ShareInv(r)' /\ OpenInv(r)'
  BY <1>1, <1>3, <1>4 DEF RequestInv, VersionInv, ShareInv, OpenInv, HasResult
<1>8. RequestInv(r)'
  BY <1>5, <1>6, <1>7 DEF RequestInv
<1>9. \A q \in Requests : client'[q] \in Clients(IF client'[q].kind = "share" THEN Payloads ELSE Nat)
  BY <1>1, <1>2, <1>3 DEF IInv, TypeOK
<1>10. TypesKept
  <2>1. TypeOK
    BY DEF IInv
  <2>2. UNCHANGED <<at, child, answer, temps, shared>>
    BY <1>1
  <2>3. QED
    BY <1>2, <1>9, <2>1, <2>2, TypesNow DEF TypesKept
<1>11. OnlyOf(r)
  BY <1>1, <1>2 DEF OnlyOf
<1>12. TempsInv'
  BY <1>1, <1>11, TempsUntouched DEF IInv
<1>13. CacheInv' /\ cache' \in [version : Int, time : Nat]
  BY <1>1 DEF IInv, TypeOK, CacheInv, Current
<1>15. Moves(r) /\ mix[r] # "share"
  BY <1>1, <1>3, <1>4 DEF Moves, Stays, RequestInv, PlaceInv
<1>16. QED
  BY <1>1, <1>8, <1>10, <1>11, <1>12, <1>13, <1>15, FilesUntouched, StepKeeps

\* A crash drops the requests that are under way and forgets the version; what
\* is on disk stays.
LEMMA KillKeeps ==
    ASSUME IInv, Kill, UNCHANGED mix
    PROVE  IInv'
<1> DEFINE rs == {r \in Requests : at[r] \notin Finished \cup {"none"}}
<1>1. Drop(rs) /\ UNCHANGED <<client, answer, temps, shared>> /\ cache' = [version |-> Empty, time |-> 0]
      /\ world' = [world EXCEPT !.kills = @ + 1]
  BY DEF Kill
<1>2. /\ world'.now = world.now /\ world'.installed = world.installed /\ world'.replaced = world.replaced
      /\ world' \in [now : Nat, installed : Nat \ {0}, replaced : Seq(Nat), kills : Nat] /\ world.now \in Nat
  <2>1. world \in [now : Nat, installed : Nat \ {0}, replaced : Seq(Nat), kills : Nat]
    BY DEF IInv, TypeOK
  <2>2. QED
    BY <1>1, <2>1
<1>3. /\ at' \in [Requests -> Places] /\ child' \in [Requests -> Children]
      /\ \A q \in Requests : /\ q \in rs => at'[q] = "dropped" /\ child'[q] = NoChild
                             /\ q \notin rs => at'[q] = at[q] /\ child'[q] = child[q]
  BY <1>1, DropTypes DEF IInv
<1>4. Requests' = Requests
  BY DEF Requests
<1>5. TypeOK'
  BY <1>1, <1>2, <1>3, <1>4 DEF IInv, TypeOK, TempFiles, Is, Empty
<1>6. TempsInv'
  <2>1. ASSUME NEW f \in DOMAIN temps
        PROVE  LET o == temps[f].owner
               IN  /\ at'[o] # "none" /\ mix[o] = "wasm" /\ at'[o] \in Idle
                   /\ at'[o] = "answered" => f[2] = "obj" /\ answer[o][1] = "rejected"
                   /\ f[2] # "obj" => <<f[1], "src">> \in DOMAIN temps /\ temps[<<f[1], "src">>].owner = o
    <3> DEFINE o == temps[f].owner
    <3>1. /\ at[o] # "none" /\ mix[o] = "wasm" /\ o \in Requests
          /\ at[o] = "answered" => f[2] = "obj" /\ answer[o][1] = "rejected"
          /\ f[2] # "obj" => <<f[1], "src">> \in DOMAIN temps /\ temps[<<f[1], "src">>].owner = o
      BY DEF IInv, TempsInv, TypeOK, TempFiles
    <3>2. o \in rs => at'[o] = "dropped"
      BY <1>3
    <3>3. o \notin rs => at'[o] = at[o] /\ at[o] \in Finished \cup {"none"}
      BY <1>3, <3>1
    <3>4. QED
      BY <3>1, <3>2, <3>3 DEF Idle, Finished
  <2>2. QED
    BY <1>1, <2>1 DEF TempsInv, Busy
<1>a. \A p \in Requests : Stays(p) /\ (at'[p] = at[p] \/ at'[p] = "dropped") /\ at'[p] \notin Storing
  <2>1. ASSUME NEW p \in Requests, p \in rs PROVE at'[p] = "dropped" /\ at[p] \notin Finished
    BY <1>3, <2>1
  <2>2. ASSUME NEW p \in Requests, p \notin rs PROVE at'[p] = at[p] /\ at[p] \in Finished \cup {"none"}
    BY <1>3, <2>2
  <2>3. QED
    BY <1>1, <2>1, <2>2 DEF Stays, Finished, Storing
<1>7. CacheInv' /\ OrderInv' /\ StoreInv'
  <2>1. CacheInv'
    BY <1>1, <1>2 DEF IInv, CacheInv
  <2>2. OrderInv'
    <3>1. \A p \in Requests : (at'[p] = "none" => at[p] = "none") /\ at'[p] \notin Storing /\ (at[p] = "none" => at'[p] = "none")
      BY <1>3, <1>a DEF Stays, Finished
    <3>2. QED
      BY <1>4, <3>1 DEF IInv, OrderInv
  <2>3. \A p \in Requests : at[p] = "none" => client[p].kind = "none"
    BY DEF IInv, RequestInv, PlaceInv
  <2>4. StoreInv'
    BY <1>1, <1>a, <2>3, StoreKept DEF IInv, Storing
  <2>5. QED
    BY <2>1, <2>2, <2>4
<1>8. ASSUME NEW q \in Requests PROVE RequestInv(q)'
  <2>1. RequestInv(q)
    BY DEF IInv
  <2>2. CASE q \in rs
    <3>1. at'[q] = "dropped" /\ child'[q] = NoChild /\ at[q] # "none"
      BY <1>3, <2>2
    <3>2. mix[q] # "open"
      BY <2>1, <2>2 DEF RequestInv, PlaceInv, OpenInv, Is, Finished
    <3>3. UNCHANGED <<mix, client>> /\ DOMAIN shared \subseteq DOMAIN shared'
      BY <1>1
    <3>4. QED
      BY <1>2, <3>1, <3>2, <3>3, DroppedInv
  <2>3. CASE q \notin rs
    <3>1. at'[q] = at[q] /\ child'[q] = child[q] /\ client'[q] = client[q] /\ answer'[q] = answer[q]
      BY <1>1, <1>3, <2>3
    <3>2. FilesKept(q)
      BY <1>1, FilesUntouched
    <3>4. DOMAIN shared \subseteq DOMAIN shared' /\ TypeOK
      BY <1>1 DEF IInv
    <3>5. QED
      BY <1>2, <1>a, <2>1, <3>1, <3>2, <3>4, OtherKept
  <2>4. QED
    BY <2>2, <2>3
<1>9. QED
  BY <1>4, <1>5, <1>6, <1>7, <1>8 DEF IInv

\* While only time passes or the compiler on disk changes, what was current
\* stays so, and with it the invariant.
LEMMA WorldKeeps ==
    ASSUME IInv, UNCHANGED <<mix, cache, at, client, child, answer, temps, shared>>,
           world' \in [now : Nat, installed : Nat \ {0}, replaced : Seq(Nat), kills : Nat],
           Len(world'.replaced) = world'.installed - 1, world.now <= world'.now,
           \A v, t : t \in Int /\ t <= world.now /\ Current(v, t) => Current(v, t)'
    PROVE  IInv'
<1>1. Requests' = Requests /\ world.now \in Nat /\ world'.now \in Nat
  BY DEF IInv, TypeOK, Requests
<1>2. TypeOK'
  BY <1>1 DEF IInv, TypeOK, TempFiles, Is
<1>3. TempsInv' /\ OrderInv' /\ StoreInv'
  <2>1. TempsInv' /\ OrderInv'
    BY <1>1 DEF IInv, TempsInv, OrderInv, Busy
  <2>2. StoreInv'
    BY <1>1 DEF IInv, StoreInv, Is, IdOf
  <2>3. QED
    BY <2>1, <2>2
<1>4. CacheInv'
  <2>1. cache.time \in Nat /\ cache.time <= world.now /\ (cache.version = Empty \/ Current(cache.version, cache.time))
    BY DEF IInv, TypeOK, CacheInv
  <2>2. cache.version = Empty \/ Current(cache.version, cache.time)'
    BY <2>1
  <2>3. QED
    BY <1>1, <2>1, <2>2 DEF CacheInv, Current
<1>5. ASSUME NEW q \in Requests PROVE RequestInv(q)'
  <2>1. RequestInv(q) /\ client[q].begun \in Nat
    BY ClientTypes DEF IInv
  <2>2. PlaceInv(q)' /\ StreamInv(q)' /\ AnswerInv(q)'
    BY <2>1 DEF RequestInv, PlaceInv, StreamInv, AnswerInv, Is, Busy, HasResult, OwnAnswer
  <2>3. WasmInv(q)'
    BY <2>1 DEF RequestInv, WasmInv, SourceOf, ObjectOf, BinaryOf, Is, Busy, HasResult, OwnAnswer
  <2>4. ShareInv(q)' /\ OpenInv(q)'
    <3>1. LeadsToLast(q, IdOf(client[q].body))' = LeadsToLast(q, IdOf(client[q].body))
      BY <1>1 DEF LeadsToLast, SharesBefore, Is, IdOf
    <3>2. QED
      BY <1>1, <2>1, <3>1 DEF RequestInv, ShareInv, OpenInv, Is, IdOf
  <2>5. VersionInv(q)'
    <3>1. /\ client[q].begun <= world.now
          /\ Is(q, "version") /\ HasResult(q) => Current(child[q].result[2], client[q].begun)
          /\ Is(q, "version") /\ at[q] = "answered" => Current(answer[q][2], client[q].begun - CacheFor + 1)
      BY <2>1 DEF RequestInv, VersionInv
    <3>2. client[q].begun - CacheFor + 1 \in Int /\ client[q].begun - CacheFor + 1 <= world.now
      <4>1. CacheFor \in Nat /\ CacheFor >= 1
        BY ServiceAssumption
      <4>2. QED
        BY <1>1, <2>1, <3>1, <4>1
    <3>3. Is(q, "version") /\ HasResult(q) => Current(child[q].result[2], client[q].begun)'
      BY <2>1, <3>1
    <3>4. Is(q, "version") /\ at[q] = "answered" => Current(answer[q][2], client[q].begun - CacheFor + 1)'
      BY <3>1, <3>2
    <3>5. QED
      BY <1>1, <2>1, <3>1, <3>3, <3>4 DEF VersionInv, Is, HasResult, Current
  <2>6. QED
    BY <2>2, <2>3, <2>4, <2>5 DEF RequestInv
<1>6. QED
  BY <1>1, <1>2, <1>3, <1>4, <1>5 DEF IInv

\* Time that passes keeps the invariant.
LEMMA TickKeeps ==
    ASSUME IInv, Tick, UNCHANGED mix
    PROVE  IInv'
<1>1. world' = [world EXCEPT !.now = @ + 1] /\ UNCHANGED <<cache, at, client, child, answer, temps, shared>>
  BY DEF Tick
<1>2. world \in [now : Nat, installed : Nat \ {0}, replaced : Seq(Nat), kills : Nat] /\ Len(world.replaced) = world.installed - 1
  BY DEF IInv, TypeOK
<1>3. /\ world'.now = world.now + 1 /\ world'.installed = world.installed /\ world'.replaced = world.replaced
      /\ world' \in [now : Nat, installed : Nat \ {0}, replaced : Seq(Nat), kills : Nat] /\ world.now <= world'.now
  BY <1>1, <1>2
<1>4. \A v, t : t \in Int /\ t <= world.now /\ Current(v, t) => Current(v, t)'
  BY <1>3 DEF Current
<1>5. QED
  BY <1>1, <1>2, <1>3, <1>4, WorldKeeps

\* An upgrade replaces the version that was current until now.
LEMMA UpgradeKeeps ==
    ASSUME IInv, Upgrade, UNCHANGED mix
    PROVE  IInv'
<1>1. /\ world' = [world EXCEPT !.installed = @ + 1, !.replaced = Append(@, world.now)]
      /\ UNCHANGED <<cache, at, client, child, answer, temps, shared>>
  BY DEF Upgrade
<1>2. world \in [now : Nat, installed : Nat \ {0}, replaced : Seq(Nat), kills : Nat] /\ Len(world.replaced) = world.installed - 1
  BY DEF IInv, TypeOK
<1>3. /\ world'.now = world.now /\ world'.installed = world.installed + 1 /\ world'.replaced = Append(world.replaced, world.now)
      /\ world' \in [now : Nat, installed : Nat \ {0}, replaced : Seq(Nat), kills : Nat] /\ world.now <= world'.now
  <2>1. /\ world.now \in Nat /\ world.installed \in Nat /\ world.kills \in Nat
        /\ world.replaced \in Seq(Nat) /\ Append(world.replaced, world.now) \in Seq(Nat)
    BY <1>2
  <2>2. world' = [now |-> world.now, installed |-> world.installed + 1,
                  replaced |-> Append(world.replaced, world.now), kills |-> world.kills]
    BY <1>1, <1>2
  <2>3. QED
    BY <2>1, <2>2
<1>4. Len(world'.replaced) = world'.installed - 1
  <2>1. world.replaced \in Seq(Nat) /\ world.now \in Nat /\ world.installed \in Nat
    BY <1>2
  <2>2. Len(Append(world.replaced, world.now)) = Len(world.replaced) + 1
    BY <2>1
  <2>3. QED
    BY <1>2, <1>3, <2>1, <2>2
<1>5. ASSUME NEW v, NEW t, t \in Int, t <= world.now, Current(v, t)
      PROVE  Current(v, t)'
  <2>1. CASE v \in 1..world.installed /\ v # world.installed
    <3>1. v \in 1..Len(world.replaced) /\ world'.replaced[v] = world.replaced[v]
      BY <1>2, <1>3, <2>1
    <3>2. world.replaced[v] >= t \/ v = Unknown
      BY <1>5, <2>1 DEF Current
    <3>3. QED
      BY <1>2, <1>3, <2>1, <3>1, <3>2 DEF Current, Unknown
  <2>2. CASE v = world.installed
    <3>1. world'.replaced[v] = world.now
      BY <1>2, <1>3, <2>2
    <3>2. QED
      BY <1>2, <1>3, <1>5, <2>2, <3>1 DEF Current
  <2>3. CASE v = Unknown
    BY <2>3 DEF Current
  <2>4. QED
    BY <1>5, <2>1, <2>2, <2>3 DEF Current
<1>6. QED
  BY <1>1, <1>3, <1>4, <1>5, WorldKeeps

\* The service starts without requests, files or shares.
LEMMA InitInv ==
    ASSUME Init
    PROVE  IInv
<1>1. /\ mix \in Mixes /\ world = [now |-> 0, installed |-> 1, replaced |-> <<>>, kills |-> 0]
      /\ cache = [version |-> Empty, time |-> 0] /\ at = [r \in Requests |-> "none"]
      /\ client = [r \in Requests |-> NoClient] /\ child = [r \in Requests |-> NoChild]
      /\ answer = [r \in Requests |-> Nothing] /\ DOMAIN temps = {} /\ DOMAIN shared = {}
      /\ temps = <<>> /\ shared = <<>>
  BY DEF Init
<1>2. TypeOK
  <2>1. NoClient \in Clients(Nat) /\ NoClient.kind = "none" /\ "none" \in Places
    BY DEF NoClient, Clients, Places
  <2>2. /\ at \in [Requests -> Places] /\ client = [r \in Requests |-> client[r]]
        /\ child \in [Requests -> Children] /\ answer = [r \in Requests |-> answer[r]]
        /\ temps = [f \in DOMAIN temps |-> temps[f]] /\ shared = [id \in DOMAIN shared |-> shared[id]]
    BY <1>1, <2>1, NoChildType
  <2>3. \A r \in Requests : client[r] \in Clients(IF Is(r, "share") THEN Payloads ELSE Nat)
    BY <1>1, <2>1 DEF Is
  <2>4. world \in [now : Nat, installed : Nat \ {0}, replaced : Seq(Nat), kills : Nat] /\ Len(world.replaced) = world.installed - 1
    BY <1>1
  <2>5. cache \in [version : Int, time : Nat]
    BY <1>1 DEF Empty
  <2>6. QED
    BY <1>1, <2>2, <2>3, <2>4, <2>5 DEF TypeOK
<1>3. TempsInv /\ CacheInv /\ StoreInv /\ OrderInv
  BY <1>1 DEF TempsInv, CacheInv, StoreInv, OrderInv, Storing
<1>4. ASSUME NEW r \in Requests PROVE RequestInv(r)
  <2>1. at[r] = "none" /\ client[r].kind = "none" /\ client[r].begun = 0 /\ child[r].doing = "none"
        /\ child[r].in = 0 /\ child[r].read = 0
    BY <1>1 DEF NoClient, NoChild, Process
  <2>2. PlaceInv(r) /\ StreamInv(r) /\ WasmInv(r) /\ AnswerInv(r) /\ ShareInv(r) /\ OpenInv(r)
    BY <2>1 DEF PlaceInv, StreamInv, WasmInv, AnswerInv, ShareInv, OpenInv, Is, Busy, Idle, Finished, Storing
  <2>3. VersionInv(r)
    BY <1>1, <2>1 DEF VersionInv, Is
  <2>4. QED
    BY <2>2, <2>3 DEF RequestInv
<1>5. QED
  BY <1>2, <1>3, <1>4 DEF IInv

\* Nothing happens.
LEMMA StutterKeeps ==
    ASSUME IInv, UNCHANGED vars
    PROVE  IInv'
<1>1. UNCHANGED <<mix, cache, at, client, child, answer, temps, shared>> /\ UNCHANGED world
  BY DEF vars
<1>2. /\ world \in [now : Nat, installed : Nat \ {0}, replaced : Seq(Nat), kills : Nat]
      /\ Len(world.replaced) = world.installed - 1
  BY DEF IInv, TypeOK
<1>3. \A v, t : t \in Int /\ t <= world.now /\ Current(v, t) => Current(v, t)'
  BY <1>1 DEF Current
<1>4. world.now <= world'.now
  BY <1>1, <1>2
<1>5. QED
  BY <1>1, <1>2, <1>3, <1>4, WorldKeeps

\* A step of the service, of a compiler, of a client, or of the world keeps the
\* invariant.
LEMMA NextKeeps ==
    ASSUME IInv, [Next]_vars
    PROVE  IInv'
<1>1. ASSUME NEW r \in Requests, UNCHANGED mix, Request(r) PROVE IInv'
  BY <1>1, RequestKeeps
<1>2. ASSUME NEW r \in Requests, UNCHANGED mix, Handler(r) PROVE IInv'
  BY <1>2, HandlerKeeps
<1>3. ASSUME NEW r \in Requests, UNCHANGED mix, Child(r) PROVE IInv'
  BY <1>3, ChildKeeps
<1>4. ASSUME NEW r \in Requests, UNCHANGED mix, Leave(r) PROVE IInv'
  BY <1>4, LeaveKeeps
<1>5. QED
  BY <1>1, <1>2, <1>3, <1>4, KillKeeps, TickKeeps, UpgradeKeeps, StutterKeeps DEF Next
-----------------------------------------------------------------------------
\* Everything the service promises rests on this: compilers belong to busy
\* requests, what was sent of a body is accounted for, the files of a
\* compilation are its own, and versions and shares are what they were.
THEOREM Invariance == Spec => []IInv
<1>1. Init => IInv
  BY InitInv
<1>2. IInv /\ [Next]_vars => IInv'
  BY NextKeeps
<1>3. QED
  BY <1>1, <1>2, PTL DEF Spec

\* A client is answered with what the compiler made of exactly the body it sent.
THEOREM OwnBodyAnswered == Spec => []AnswersOwnBody
<1>1. IInv => AnswersOwnBody
  BY DEF IInv, RequestInv, AnswerInv, OwnAnswer, AnswersOwnBody
<1>2. QED
  BY <1>1, Invariance, PTL

\* Of the temporary files of a request that was answered, at most the object file of a
\* program that could not be linked is left.
THEOREM FilesOfAnsweredRemoved == Spec => []TempsRemoved
<1>1. IInv => TempsRemoved
  BY DEF IInv, TempsInv, TempsRemoved
<1>2. QED
  BY <1>1, Invariance, PTL

\* A version that is shown was on disk within CacheFor before the request.
THEOREM VersionIsFresh == Spec => []FreshVersion
<1>1. ASSUME IInv PROVE FreshVersion
  <2> SUFFICES ASSUME NEW r \in Requests, Is(r, "version"), at[r] = "answered",
                      answer[r][2] \notin {Unknown, world.installed}
               PROVE  world.replaced[answer[r][2]] > client[r].begun - CacheFor
    BY DEF FreshVersion
  <2> DEFINE v == answer[r][2]
  <2>1. v \in 1..world.installed /\ world.replaced[v] >= client[r].begun - CacheFor + 1
    BY <1>1 DEF IInv, RequestInv, VersionInv, Current
  <2>2. v \in 1..Len(world.replaced) /\ world.replaced \in Seq(Nat)
    BY <1>1, <2>1 DEF IInv, TypeOK
  <2>3. world.replaced[v] \in Nat /\ client[r].begun \in Nat
    BY <1>1, <2>2, ClientTypes DEF IInv
  <2>4. QED
    BY <2>1, <2>3, ServiceAssumption
<1>2. QED
  BY <1>1, Invariance, PTL

\* A link that was given out leads to a program, and to the whole of what was shared
\* last under its id, unless a crash stopped that one.
THEOREM LinksStay == Spec => []LinksLead
<1>1. IInv => LinksLead
  BY DEF IInv, RequestInv, OpenInv, LeadsToLast, LinksLead
<1>2. QED
  BY <1>1, Invariance, PTL
=============================================================================
