----------------------------- MODULE ContentLog -----------------------------
(***************************************************************************)
(* The content output (internal/contentlog/content.go) and the response    *)
(* writer that feeds it (internal/gateway/response_writer.go).  Every      *)
(* request owns a capture that numbers its events; producers never wait:   *)
(* an event goes to a bounded queue or is dropped and leaves a gap.  One   *)
(* goroutine writes the queue to files that it seals when they are full,   *)
(* once a minute, and at Close.  A collector may take sealed files away at *)
(* any time.  The process may die at any step, in the middle of a write    *)
(* too, and a new one opens the directory it left.                         *)
(*                                                                         *)
(* A capture belongs to one handler, so an enqueue and the gap a refused   *)
(* one leaves are one step.  Dequeuing a packet and writing it are two.    *)
(*                                                                         *)
(* Abstracted: a whole line has LineBytes bytes and a torn one has one;    *)
(* the payload, its offsets and its digest are the event's number; input   *)
(* and output chunks are chunks.  The checks of the directory itself       *)
(* (permissions, lock, foreign files) are not modelled.                    *)
(***************************************************************************)
EXTENDS Integers, Sequences, FiniteSets

CONSTANTS
    Captures,        \* requests whose content is captured
    MaxChunks,       \* bound on the chunks of one request
    Files,           \* bound: names of content files, in the order they are created
    LineBytes,       \* bytes of a whole line
    FileBytes, DirectoryBytes, QueueEvents,   \* Config
    MaxEntries,      \* maxDirectoryEntries
    MaxFaults,       \* bound on failed file operations
    MaxCrashes,      \* bound on crashes
    None             \* no file, no packet

\* An event, as it is queued and as it is written.
Lines == [cap : Captures, seq : 0 .. MaxChunks, terminal : BOOLEAN, complete : BOOLEAN]
Torn == [cap |-> None, seq |-> 0, terminal |-> FALSE, complete |-> FALSE]

ASSUME ContentBounds ==
    /\ IsFiniteSet(Files) /\ Files = 1 .. Cardinality(Files)
    /\ {LineBytes, FileBytes, DirectoryBytes, QueueEvents} \subseteq Nat
    /\ LineBytes > 1 /\ FileBytes >= LineBytes /\ DirectoryBytes >= FileBytes
    /\ QueueEvents >= 1
    /\ MaxChunks \in Nat /\ MaxEntries \in Nat
    /\ MaxFaults \in Nat /\ MaxCrashes \in Nat
    /\ None \notin Files \cup Captures \cup Lines

VARIABLES
    capture,       \* per request: phase, seq, gap and contentWriteFailed
    up,            \* a process runs
    queue, closed, \* Log.queue and Log.closed
    writer,        \* "run" or "done": where Log.run is
    packet,        \* the packet it holds
    current, size, \* Log.file and Log.size
    used,          \* Log.used
    file,          \* the directory: state and lines of every file
    faults, crashes

capVars  == <<capture>>
logVars  == <<queue, closed, writer, packet, current, size, used>>
vars == <<capVars, up, logVars, file, faults, crashes>>

NewCapture == [phase |-> "new", seq |-> 0, gap |-> FALSE, failed |-> FALSE]

Init ==
    /\ capture = [c \in Captures |-> NewCapture]
    /\ up = TRUE
    /\ queue = <<>> /\ closed = FALSE
    /\ writer = "run" /\ packet = None
    /\ current = None /\ size = 0 /\ used = 0
    /\ file = [f \in Files |-> [state |-> "none", lines |-> <<>>]]
    /\ faults = 0 /\ crashes = 0

-----------------------------------------------------------------------------
(* Producers.                                                              *)

\* The queue admits a packet: it is open and not full.
Accepts == ~closed /\ Len(queue) < QueueEvents

emitIgnoringGap(c, terminal, complete, phase) ==
    LET e == [cap |-> c, seq |-> capture[c].seq, terminal |-> terminal, complete |-> complete]
    IN  /\ queue' = IF Accepts THEN Append(queue, e) ELSE queue
        /\ capture' = [capture EXCEPT ![c].phase = phase, ![c].seq = @ + 1]

\* Capture.emit: a refused event uses up its number and leaves a gap.
emit(c, terminal, complete, phase) ==
    LET e == [cap |-> c, seq |-> capture[c].seq, terminal |-> terminal, complete |-> complete]
    IN  /\ queue' = IF Accepts THEN Append(queue, e) ELSE queue
        /\ capture' = [capture EXCEPT ![c].phase = phase, ![c].seq = @ + 1,
                                      ![c].gap = @ \/ ~Accepts]

\* One chunk of the admitted body (Start) or of the response (Write).
Chunk(c) ==
    /\ up
    /\ capture[c].phase \in {"new", "open"}
    /\ capture[c].seq < MaxChunks
    /\ emit(c, FALSE, FALSE, "open")
    /\ UNCHANGED <<up, closed, writer, packet, current, size, used, file, faults, crashes>>

\* The client takes only part of a write, or a flush fails.
WriteFails(c) ==
    /\ up
    /\ capture[c].phase = "open" /\ ~capture[c].failed
    /\ capture' = [capture EXCEPT ![c].failed = TRUE]
    /\ UNCHANGED <<up, logVars, file, faults, crashes>>

\* Finish's own look at the gap, after finishContent's outcome.
Whole(c, success) == success /\ ~capture[c].failed /\ ~capture[c].gap

\* finishContent: contentSuccess may be false for any failed call, and a
\* cancelled request is no success.
Finish(c) ==
    /\ up
    /\ capture[c].phase = "open"
    /\ \E success \in BOOLEAN : emit(c, TRUE, Whole(c, success), "ended")
    /\ UNCHANGED <<up, closed, writer, packet, current, size, used, file, faults, crashes>>

\* Log.Close; a handler that outlives the drain deadline may still emit.
Close ==
    /\ up /\ ~closed
    /\ closed' = TRUE
    /\ UNCHANGED <<capVars, up, queue, writer, packet, current, size, used, file, faults, crashes>>

-----------------------------------------------------------------------------
(* The directory.                                                          *)

Present == {f \in Files : file[f].state \notin {"none", "taken"}}

\* The lines of the files present, as pairs of a file and a position.
Positions == UNION {{f} \X DOMAIN file[f].lines : f \in Present}

TornAt == {l \in Positions : file[l[1]].lines[l[2]] = Torn}

UsedBytes == LineBytes * Cardinality(Positions \ TornAt) + Cardinality(TornAt)

\* scan counts every entry, the lock file too.
ScanPasses == Cardinality(Present) + 1 < MaxEntries

\* A file is created under the next name, as long as the model has one.
CanCreate == \E f \in Files : file[f].state = "none"

NewFile == CHOOSE f \in Files : /\ file[f].state = "none"
                                /\ \A g \in Files : file[g].state = "none" => f <= g

\* A file operation that fails.
Fault == faults < MaxFaults /\ faults' = faults + 1

\* seal forgets the file first; a failed sync, close or rename leaves it active.
sealRenamingFirst(ok) ==
    /\ IF current = None THEN file' = file
       ELSE file' = [file EXCEPT ![current].state = "sealed"]
    /\ current' = IF ok THEN None ELSE current
    /\ size' = IF ok THEN 0 ELSE size
    /\ IF ok THEN UNCHANGED faults ELSE current # None /\ Fault

seal(ok) ==
    /\ IF current # None /\ ok
         THEN file' = [file EXCEPT ![current].state = "sealed"]
         ELSE file' = file
    /\ current' = None /\ size' = 0
    /\ IF ok THEN UNCHANGED faults ELSE current # None /\ Fault

-----------------------------------------------------------------------------
(* The writer goroutine.                                                   *)

Idle == up /\ writer = "run" /\ packet = None
Holds == up /\ packet # None

markedAsQueued(p) == p

\* A terminal event still claims completeness only if no event before it
\* was dropped or failed in the meantime.
marked(p) == IF p.terminal /\ capture[p.cap].gap THEN [p EXCEPT !.complete = FALSE] ELSE p

Dequeue ==
    /\ Idle /\ queue # <<>>
    /\ packet' = marked(Head(queue))
    /\ queue' = Tail(queue)
    /\ UNCHANGED <<capVars, up, closed, writer, current, size, used, file, faults, crashes>>

\* The failed packet's capture has a gap.
dropPacket ==
    /\ capture' = [capture EXCEPT ![packet.cap].gap = TRUE]
    /\ packet' = None

MustRotate == current # None /\ size + LineBytes > FileBytes

\* write, the seal of a full file: its failure loses the packet.
Rotate ==
    /\ Holds /\ MustRotate
    /\ \/ seal(TRUE) /\ UNCHANGED <<capVars, packet>>
       \/ seal(FALSE) /\ dropPacket
    /\ UNCHANGED <<up, queue, closed, writer, used, crashes>>

MustScan == current = None \/ used + LineBytes > DirectoryBytes

\* used after write's own look at the directory
Scanned == IF MustScan THEN UsedBytes ELSE used

FitsBeforeWrite == Scanned < DirectoryBytes

Fits == Scanned + LineBytes <= DirectoryBytes

\* write gets as far as writing the line.
CanWrite ==
    /\ Holds /\ ~MustRotate
    /\ MustScan => ScanPasses
    /\ Fits
    /\ current = None => CanCreate

Target == IF current = None THEN NewFile ELSE current

\* line joins the target file, which is created if there is none.
Appended(line) ==
    [file EXCEPT ![Target] = [state |-> "active", lines |-> Append(@.lines, line)]]

Write ==
    /\ CanWrite
    /\ file' = Appended(packet)
    /\ current' = Target /\ size' = size + LineBytes /\ used' = Scanned + LineBytes
    /\ packet' = None
    /\ UNCHANGED <<capVars, up, queue, closed, writer, faults, crashes>>

keepTornFile ==
    /\ file' = Appended(Torn)
    /\ current' = Target /\ size' = size + 1 /\ used' = Scanned + 1

\* A partial line ends its file: it is closed, still active.
closeTornFile ==
    /\ file' = Appended(Torn)
    /\ current' = None /\ size' = 0 /\ used' = Scanned + 1

ShortWrite ==
    /\ CanWrite
    /\ Fault
    /\ closeTornFile
    /\ dropPacket
    /\ UNCHANGED <<up, queue, closed, writer, crashes>>

\* The directory cannot be scanned, is full, or the file cannot be created.
WriteRefused ==
    /\ Holds /\ ~MustRotate
    /\ \/ MustScan /\ ~ScanPasses /\ UNCHANGED <<used, faults>>
       \/ MustScan /\ Fault /\ UNCHANGED used
       \/ (MustScan => ScanPasses) /\ ~Fits /\ used' = Scanned /\ UNCHANGED faults
       \/ current = None /\ ScanPasses /\ Fits /\ used' = Scanned /\ Fault
    /\ dropPacket
    /\ UNCHANGED <<up, queue, closed, writer, current, size, file, crashes>>

\* The ticker seals what has been written.
Tick ==
    /\ Idle /\ current # None
    /\ \E ok \in BOOLEAN : seal(ok)
    /\ UNCHANGED <<capVars, up, queue, closed, writer, packet, used, crashes>>

StopsWhenClosed == closed

\* A closed channel still delivers what it holds.
StopsWhenDrained == closed /\ queue = <<>>

\* The last seal, after which Close returns.
RunEnds ==
    /\ Idle /\ StopsWhenDrained
    /\ \E ok \in BOOLEAN : seal(ok)
    /\ writer' = "done"
    /\ UNCHANGED <<capVars, up, queue, closed, packet, used, crashes>>

-----------------------------------------------------------------------------
(* The process and the collector.                                          *)

\* What a process that ends takes along.
loseMemory ==
    /\ up' = FALSE
    /\ queue' = <<>> /\ packet' = None /\ writer' = "done"
    /\ current' = None /\ size' = 0
    /\ capture' = [c \in Captures |->
                     IF capture[c].phase = "open" THEN [capture[c] EXCEPT !.phase = "ended"]
                                                  ELSE capture[c]]
    /\ UNCHANGED <<closed, used, faults>>

\* The process dies, possibly within a write.
Crash ==
    /\ up /\ crashes < MaxCrashes
    /\ \/ UNCHANGED file
       \/ CanWrite /\ file' = Appended(Torn)
    /\ loseMemory
    /\ crashes' = crashes + 1

\* The process ends after Close.
Exit ==
    /\ up /\ writer = "done"
    /\ loseMemory
    /\ UNCHANGED <<file, crashes>>

Active == {f \in Files : file[f].state = "active"}

\* contentlog.Open hands off what the last process left; a failed rename
\* fails the start.
Open ==
    /\ ~up /\ ScanPasses
    /\ \/ /\ file' = [f \in Files |-> IF f \in Active THEN [file[f] EXCEPT !.state = "interrupted"]
                                                      ELSE file[f]]
          /\ up' = TRUE /\ closed' = FALSE /\ writer' = "run"
          /\ used' = UsedBytes
          /\ UNCHANGED faults
       \/ /\ \E f \in Active : \E S \in SUBSET (Active \ {f}) :
                file' = [g \in Files |-> IF g \in S THEN [file[g] EXCEPT !.state = "interrupted"]
                                                    ELSE file[g]]
          /\ Fault
          /\ UNCHANGED <<up, closed, writer, used>>
    /\ UNCHANGED <<capVars, queue, packet, current, size, crashes>>

\* The collector takes a file that was handed off.
Collect ==
    /\ \E f \in Files : /\ file[f].state \in {"sealed", "interrupted"}
                        /\ file' = [file EXCEPT ![f].state = "taken"]
    /\ UNCHANGED <<capVars, up, logVars, faults, crashes>>

Next ==
    \/ \E c \in Captures : Chunk(c) \/ WriteFails(c) \/ Finish(c)
    \/ Close
    \/ Dequeue \/ Rotate \/ Write \/ ShortWrite \/ WriteRefused
    \/ Tick \/ RunEnds
    \/ Crash \/ Exit \/ Open \/ Collect

Spec == Init /\ [][Next]_vars

\* The writer goroutine runs.
Fairness == WF_vars(Dequeue \/ Rotate \/ Write \/ ShortWrite \/ WriteRefused \/ RunEnds)

FairSpec == Spec /\ Fairness

-----------------------------------------------------------------------------
(* Properties.                                                             *)

\* The types of the captures, the writer and the directory.
TypeOK ==
    /\ capture \in [Captures -> [phase : {"new", "open", "ended"}, seq : 0 .. MaxChunks + 1,
                                 gap : BOOLEAN, failed : BOOLEAN]]
    /\ up \in BOOLEAN /\ closed \in BOOLEAN /\ writer \in {"run", "done"}
    /\ queue \in Seq(Lines) /\ Len(queue) <= QueueEvents
    /\ packet \in Lines \cup {None} /\ current \in Files \cup {None}
    /\ size \in 0 .. FileBytes /\ used \in Nat
    /\ file \in [Files -> [state : {"none", "active", "sealed", "interrupted", "taken"},
                            lines : Seq(Lines \cup {Torn})]]
    /\ faults \in 0 .. MaxFaults /\ crashes \in 0 .. MaxCrashes

Persisted(c, n) ==
    \E f \in Files : \E i \in DOMAIN file[f].lines :
        file[f].lines[i].cap = c /\ file[f].lines[i].seq = n /\ file[f].lines[i] # Torn

\* content_end with complete=true is a promise to the collector: all events
\* of the request before it are in the files too, whatever was dropped, failed
\* or torn between the moment Finish looked and the moment the line was
\* written, and whatever crashed since.
CompleteIsWhole ==
    \A f \in Files : \A i \in DOMAIN file[f].lines :
        LET e == file[f].lines[i] IN
            e.terminal /\ e.complete => \A n \in 0 .. e.seq - 1 : Persisted(e.cap, n)

\* No line follows a partial one, and a file with a partial line is never
\* sealed: only the next Open hands it off, as interrupted.
TornLineLast ==
    \A f \in Files : \A i \in DOMAIN file[f].lines :
        file[f].lines[i] = Torn => i = Len(file[f].lines) /\ file[f].state # "sealed"

\* The files present never exceed directory_bytes, with the counter that write
\* trusts between two scans, partial lines and crashes taken into account.
DirectoryBounded == UsedBytes <= DirectoryBytes

\* The files, the counters and the goroutine belong together: the types, and
\* the two invariants above.
DirectoryConsistent == TypeOK /\ TornLineLast /\ DirectoryBounded

\* A file that was handed off is never written again and never active again.
HandedOffFrozen ==
    [][\A f \in Files : file[f].state \notin {"none", "active"} =>
           /\ file'[f].lines = file[f].lines
           /\ file'[f].state # "active"]_vars

\* Close waits for the writer: it drains the queue and seals the last file,
\* unless the process dies first.
WriterDrains == closed ~> (~up \/ (writer = "done" /\ queue = <<>>))

-----------------------------------------------------------------------------
(* The inductive invariant.                                                *)

\* A capture that has not ended has a number left for its terminal event,
\* and one that has not begun has used none.
CapturesInStep ==
    \A c \in Captures :
        /\ capture[c].phase # "ended" => capture[c].seq <= MaxChunks
        /\ capture[c].phase = "new" => capture[c].seq = 0

\* The file being written is active and has no partial line; a file that was
\* not created is empty; and used is no less than what is there.
CurrentSound ==
    /\ current # None =>
        /\ up /\ file[current].state = "active"
        /\ \A i \in DOMAIN file[current].lines : file[current].lines[i] # Torn
        /\ UsedBytes <= used
    /\ current = None => size = 0
    /\ \A f \in Files : file[f].state = "none" => file[f].lines = <<>>
    /\ IsFiniteSet(Positions)

\* Event n of capture c is in a file, in the writer's hands or before
\* position i of the queue.
Safe(c, n, i) ==
    \/ Persisted(c, n)
    \/ packet # None /\ packet.cap = c /\ packet.seq = n
    \/ \E j \in DOMAIN queue : j < i /\ queue[j].cap = c /\ queue[j].seq = n

\* As long as a capture has no gap, what it has emitted before is safe: of a
\* capture that has not ended, of a terminal event that is queued and, with
\* nothing left in the queue, of one the writer holds.
NothingLost ==
    /\ \A c \in Captures : capture[c].phase # "ended" /\ ~capture[c].gap =>
          \A n \in 0 .. capture[c].seq - 1 : Safe(c, n, Len(queue) + 1)
    /\ \A i \in DOMAIN queue :
          queue[i].terminal /\ queue[i].complete /\ ~capture[queue[i].cap].gap =>
            \A n \in 0 .. queue[i].seq - 1 : Safe(queue[i].cap, n, i)
    /\ packet # None /\ packet.terminal /\ packet.complete =>
          \A n \in 0 .. packet.seq - 1 : Persisted(packet.cap, n)

IInv ==
    /\ DirectoryConsistent
    /\ CapturesInStep
    /\ CurrentSound
    /\ NothingLost
    /\ CompleteIsWhole

=============================================================================
