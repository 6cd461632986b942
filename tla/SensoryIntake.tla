---------------------------- MODULE SensoryIntake ----------------------------
(***************************************************************************)
(* An external feeder and the membrane that reads it: the rolling JSONL    *)
(* writer of the feeder kit appends lines to a file and rotates it by      *)
(* renaming; the sensory membrane, another process, polls the file with a  *)
(* remembered offset, deduplicates, buffers and publishes stimuli.         *)
(* Nothing synchronises the two: a line may be half on disk when it is     *)
(* read, and the file may be replaced between the check of its size and    *)
(* its opening.                                                            *)
(*                                                                         *)
(* An envelope is a number; its line is Width[n] bytes, the last of them   *)
(* the newline.  A byte is a pair <<envelope, position>>.  The membrane is *)
(* enabled and not a dry run; files stay below max_file_size_mb.           *)
(***************************************************************************)
EXTENDS Integers, Sequences

CONSTANTS
    Order,        \* the sources, in the order they were registered
    MaxWrites,    \* envelopes each feeder writes
    Width,        \* bytes of the line of an envelope, newline included
    Content,      \* two envelopes with one content have one recurrence key
    KeyLength,    \* how much of a malformed text is its recurrence key: 64 characters
    MaxInFile,    \* max_events of the rolling writer
    MaxPerPoll,   \* max_events_per_poll of a source
    MaxTotal,     \* max_total_events of the membrane
    Capacity,     \* of the buffer
    Batch,        \* max_per_batch of the buffer
    Window,       \* dedup_window of the buffer
    MaxPolls      \* bound: polls in a behaviour

Sources == {Order[i] : i \in 1..Len(Order)}
Envelopes == 1..MaxWrites
Byte == Envelopes \X Nat

ASSUME IntakeAssumption ==
    /\ Order \in Seq(Sources) /\ Order # <<>>
    /\ \A b \in {MaxWrites, KeyLength, MaxInFile, MaxPerPoll, MaxTotal, Capacity, Batch, Window, MaxPolls} :
          b \in Nat \ {0}
    /\ Width \in [Envelopes -> Nat \ {0, 1}]
    /\ Content \in [Envelopes -> Envelopes]

VARIABLES
    files,      \* files[s]: what every file the feeder of s made holds, oldest first
    live,       \* live[s]: the one at output_path, 0 when there is none
    inFile,     \* _events_in_file of the writer
    next,       \* the envelope being written
    sent,       \* bytes of its line that are on disk
    stage,      \* where poll_once is
    todo,       \* sources it has still to poll, the present one first
    handle,     \* the file the adapter has open
    cursor,     \* its position in it
    got,        \* result.events, those not yet handled
    nread,      \* lines the loop of _poll has counted
    offset,     \* _offset of the adapter of each source
    from,       \* history: the file that offset was taken in, 0 before any
    status,     \* status of the source in the registry
    handled,    \* history: the texts poll_once has taken from each source
    total,      \* total_events
    buffer,     \* the buffer, oldest first
    recent,     \* _recent_keys of the buffer
    published,  \* history: what went to the bus
    polls       \* poll_count

feeder == <<files, live, inFile, next, sent>>
adapter == <<handle, cursor, nread, offset, from>>
sink == <<total, buffer, recent, handled>>
vars == <<feeder, adapter, sink, stage, todo, got, status, published, polls>>

Init ==
    /\ files = [s \in Sources |-> <<>>]
    /\ live = [s \in Sources |-> 0]
    /\ inFile = [s \in Sources |-> 0]
    /\ next = [s \in Sources |-> 1]
    /\ sent = [s \in Sources |-> 0]
    /\ stage = "idle"
    /\ todo = <<>>
    /\ handle = 0
    /\ cursor = 0
    /\ got = <<>>
    /\ nread = 0
    /\ offset = [s \in Sources |-> 0]
    /\ from = [s \in Sources |-> 0]
    /\ status = [s \in Sources |-> "registered"]
    /\ handled = [s \in Sources |-> {}]
    /\ total = 0
    /\ buffer = <<>>
    /\ recent = <<>>
    /\ published = <<>>
    /\ polls = 0

-----------------------------------------------------------------------------
(* The feeder. *)

Line(n) == [i \in 1..Width[n] |-> <<n, i>>]

\* os.rename of a full file, when the next envelope is to be written.
Rotate(s) ==
    /\ next[s] <= MaxWrites
    /\ sent[s] = 0
    /\ inFile[s] >= MaxInFile
    /\ live' = [live EXCEPT ![s] = 0]
    /\ inFile' = [inFile EXCEPT ![s] = 0]
    /\ UNCHANGED <<files, next, sent, adapter, sink, stage, todo, got, status, published, polls>>

\* Opens the file for appending, which makes it if need be, and flushes the
\* line as far as byte k: a line longer than the stream's buffer, or a batch
\* of lines, reaches the disk in pieces.
Write(s, k) ==
    LET n == next[s]
        piece == SubSeq(Line(n), sent[s] + 1, k)
    IN  /\ n <= MaxWrites
        /\ sent[s] > 0 \/ inFile[s] < MaxInFile
        /\ sent[s] < k /\ k <= Width[n]
        /\ IF live[s] = 0
           THEN /\ files' = [files EXCEPT ![s] = Append(@, piece)]
                /\ live' = [live EXCEPT ![s] = Len(files[s]) + 1]
           ELSE /\ files' = [files EXCEPT ![s][live[s]] = @ \o piece]
                /\ UNCHANGED live
        /\ IF k = Width[n]
           THEN /\ next' = [next EXCEPT ![s] = @ + 1]
                /\ inFile' = [inFile EXCEPT ![s] = @ + 1]
                /\ sent' = [sent EXCEPT ![s] = 0]
           ELSE /\ sent' = [sent EXCEPT ![s] = k]
                /\ UNCHANGED <<next, inFile>>
    /\ UNCHANGED <<adapter, sink, stage, todo, got, status, published, polls>>

-----------------------------------------------------------------------------
(* The membrane. *)

\* poll_once goes on to the next source, or to _publish after the last.
NextSource ==
    /\ todo' = Tail(todo)
    /\ stage' = IF Len(todo) > 1 THEN "size" ELSE "publish"

StartPoll ==
    /\ stage = "idle"
    /\ polls < MaxPolls
    /\ total < MaxTotal
    /\ polls' = polls + 1
    /\ todo' = Order
    /\ stage' = "size"
    /\ UNCHANGED <<feeder, adapter, sink, got, status, published>>

\* enabled_sources leaves it out.
SkipDisabled ==
    /\ stage = "size"
    /\ status[Head(todo)] = "disabled"
    /\ NextSource
    /\ UNCHANGED <<feeder, adapter, sink, got, status, published, polls>>

\* The file is not there, when its size is taken or when it is opened.
Missing ==
    /\ stage \in {"size", "open"}
    /\ LET s == Head(todo) IN
       /\ status[s] # "disabled"
       /\ live[s] = 0
       /\ status' = [status EXCEPT ![s] = "degraded"]
    /\ NextSource
    /\ UNCHANGED <<feeder, adapter, sink, got, published, polls>>

\* A file that is shorter than the offset has been replaced.
TakeSize ==
    /\ stage = "size"
    /\ LET s == Head(todo) IN
       /\ status[s] # "disabled"
       /\ live[s] # 0
       /\ offset' = IF Len(files[s][live[s]]) < offset[s]
                    THEN [offset EXCEPT ![s] = 0] ELSE offset
    /\ stage' = "open"
    /\ UNCHANGED <<feeder, handle, cursor, nread, from, sink, todo, got, status, published, polls>>

\* From here on the adapter has that file, whatever is renamed.
OpenFile ==
    /\ stage = "open"
    /\ LET s == Head(todo) IN
       /\ live[s] # 0
       /\ handle' = live[s]
       /\ cursor' = offset[s]
    /\ stage' = "lines"
    /\ UNCHANGED <<feeder, nread, offset, from, sink, todo, got, status, published, polls>>

\* What readline returns at the cursor: to the newline, or all there is.
Rest == LET f == files[Head(todo)][handle] IN SubSeq(f, cursor + 1, Len(f))
IsNewline(b) == b[2] = Width[b[1]]
ReadTo(k) ==
    /\ k \in 1..Len(Rest)
    /\ \A i \in 1..(k - 1) : ~IsNewline(Rest[i])
    /\ IsNewline(Rest[k]) \/ k = Len(Rest)

\* The text without its newline; json.loads takes it when it is a whole line.
Strip(t) == IF IsNewline(t[Len(t)]) THEN SubSeq(t, 1, Len(t) - 1) ELSE t
Parsed(t) == t[1][2] = 1 /\ Len(t) = Width[t[1][1]] - 1

\* Slip: a line that cannot be parsed is passed over.
ReadWholeLine(k) ==
    /\ stage = "lines"
    /\ nread < MaxPerPoll
    /\ ReadTo(k)
    /\ cursor' = cursor + k
    /\ LET text == Strip(SubSeq(Rest, 1, k)) IN
       IF text = <<>> \/ ~Parsed(text) THEN UNCHANGED <<got, nread>>
       ELSE /\ got' = Append(got, text)
            /\ nread' = nread + 1
    /\ UNCHANGED <<feeder, handle, offset, from, sink, stage, todo, status, published, polls>>

ReadLine(k) ==
    /\ stage = "lines"
    /\ nread < MaxPerPoll
    /\ ReadTo(k)
    /\ cursor' = cursor + k
    /\ LET text == Strip(SubSeq(Rest, 1, k)) IN
       IF text = <<>> THEN UNCHANGED <<got, nread>>
       ELSE /\ got' = Append(got, text)
            /\ nread' = nread + 1
    /\ UNCHANGED <<feeder, handle, offset, from, sink, stage, todo, status, published, polls>>

\* Slip: the position is remembered only at the end of the file.
CloseFileAtEnd ==
    /\ stage = "lines"
    /\ nread >= MaxPerPoll \/ Rest = <<>>
    /\ LET s == Head(todo) IN
       /\ offset' = IF Rest = <<>> THEN [offset EXCEPT ![s] = cursor] ELSE offset
       /\ from' = [from EXCEPT ![s] = handle]
       /\ status' = IF got = <<>> THEN status ELSE [status EXCEPT ![s] = "active"]
    /\ handle' = 0 /\ cursor' = 0 /\ nread' = 0
    /\ IF got = <<>> THEN NextSource ELSE stage' = "handle" /\ UNCHANGED todo
    /\ UNCHANGED <<feeder, sink, got, published, polls>>

\* End of the file or of the poll's share; the position is remembered.
CloseFile ==
    /\ stage = "lines"
    /\ nread >= MaxPerPoll \/ Rest = <<>>
    /\ LET s == Head(todo) IN
       /\ offset' = [offset EXCEPT ![s] = cursor]
       /\ from' = [from EXCEPT ![s] = handle]
       /\ status' = IF got = <<>> THEN status ELSE [status EXCEPT ![s] = "active"]
    /\ handle' = 0 /\ cursor' = 0 /\ nread' = 0
    /\ IF got = <<>> THEN NextSource ELSE stage' = "handle" /\ UNCHANGED todo
    /\ UNCHANGED <<feeder, sink, got, published, polls>>

\* Of a text that cannot be parsed its opening characters are the key.
RecurrenceKey(s, text) ==
    IF Parsed(text) THEN <<s, TRUE, Content[text[1][1]]>>
    ELSE <<s, FALSE, IF Len(text) <= KeyLength THEN text ELSE SubSeq(text, 1, KeyLength)>>

\* SensoryBuffer.admit: not twice within the window; the oldest gives way.
Admit(s, text) ==
    LET key == RecurrenceKey(s, text)
    IN  IF \E i \in 1..Len(recent) : recent[i] = key
        THEN UNCHANGED <<buffer, recent>>
        ELSE /\ buffer' = Append(IF Len(buffer) >= Capacity THEN Tail(buffer) ELSE buffer,
                                 <<s, text>>)
             /\ recent' = Append(IF Len(recent) >= Window THEN Tail(recent) ELSE recent, key)

\* Slip: the total is only looked at between polls.
HandleEventOn ==
    /\ stage = "handle"
    /\ LET s == Head(todo)
           text == Head(got)
       IN  /\ total' = total + 1
           /\ Admit(s, text)
           /\ handled' = [handled EXCEPT ![s] = @ \cup {text}]
           /\ got' = Tail(got)
           /\ IF Len(got) = 1 THEN NextSource ELSE UNCHANGED <<stage, todo>>
    /\ UNCHANGED <<feeder, adapter, status, published, polls>>

\* One event of the result.  At the total the loop over the result is left,
\* the loop over the sources is not.
HandleEvent ==
    /\ stage = "handle"
    /\ LET s == Head(todo)
           text == Head(got)
           rest == IF total + 1 >= MaxTotal THEN <<>> ELSE Tail(got)
       IN  /\ total' = total + 1
           /\ Admit(s, text)
           /\ handled' = [handled EXCEPT ![s] = @ \cup {text}]
           /\ got' = rest
           /\ IF rest = <<>> THEN NextSource ELSE UNCHANGED <<stage, todo>>
    /\ UNCHANGED <<feeder, adapter, status, published, polls>>

\* One batch goes to the bus.  An event whose publish raises is not counted and the loop goes on;
\* the bus has handed it to its subscribers by then, it is the bus's own log that failed.
Publish ==
    LET n == IF Len(buffer) < Batch THEN Len(buffer) ELSE Batch
    IN  /\ stage = "publish"
        /\ published' = published \o SubSeq(buffer, 1, n)
        /\ buffer' = SubSeq(buffer, n + 1, Len(buffer))
        /\ stage' = "idle"
        /\ UNCHANGED <<feeder, adapter, total, recent, handled, todo, got, status, polls>>

\* disable_source, between polls: the adapter is dropped for good.
Disable(s) ==
    /\ stage = "idle"
    /\ status[s] # "disabled"
    /\ status' = [status EXCEPT ![s] = "disabled"]
    /\ UNCHANGED <<feeder, adapter, sink, stage, todo, got, published, polls>>

Feed(s) == Rotate(s) \/ \E n \in Envelopes : n = next[s] /\ \E k \in 1..Width[n] : Write(s, k)
Poll ==
    \/ StartPoll \/ SkipDisabled \/ Missing \/ TakeSize \/ OpenFile
    \/ stage = "lines" /\ \E k \in 1..Len(Rest) : ReadLine(k)
    \/ CloseFile \/ HandleEvent \/ Publish

Next == Poll \/ \E s \in Sources : Feed(s) \/ Disable(s)

Spec == Init /\ [][Next]_vars

-----------------------------------------------------------------------------
(* Properties. *)

Text == Seq(Byte)

\* Every variable has its type.
TypeOK ==
    /\ files \in [Sources -> Seq(Seq(Byte))]
    /\ live \in [Sources -> Nat] /\ from \in [Sources -> Nat]
    /\ \A s \in Sources : live[s] \in 0..Len(files[s]) /\ from[s] \in 0..Len(files[s])
    /\ inFile \in [Sources -> 0..MaxInFile]
    /\ next \in [Sources -> 1..(MaxWrites + 1)]
    /\ sent \in [Sources -> Nat]
    /\ stage \in {"idle", "size", "open", "lines", "handle", "publish"}
    /\ todo \in Seq(Sources)
    /\ stage \in {"size", "open", "lines", "handle"} => todo # <<>>
    /\ {handle, cursor, total, nread} \subseteq Nat
    /\ stage = "lines" => handle \in 1..Len(files[Head(todo)])
    /\ got \in Seq(Text)
    /\ offset \in [Sources -> Nat]
    /\ status \in [Sources -> {"registered", "active", "degraded", "disabled"}]
    /\ handled \in [Sources -> SUBSET Text]
    /\ buffer \in Seq(Sources \X Text)
    /\ published \in Seq(Sources \X Text)
    /\ Len(buffer) <= Capacity
    /\ Len(recent) <= Window
    /\ polls \in 0..MaxPolls

\* What has reached the bus, waits in the buffer or is still to be handled, the
\* earliest first; a source and a text each.
Stimuli == published \o buffer \o [i \in 1..Len(got) |-> <<Head(todo), got[i]>>]

\* Of two whole lines of one source the second was written later.
InOrder(e, f) ==
    e[1] = f[1] /\ Parsed(e[2]) /\ Parsed(f[2]) => e[2][1][1] < f[2][1][1]

\* However the feeder writes, tears its lines and rotates, no envelope becomes
\* a stimulus twice, and the stimuli of a source come in the order in which
\* its feeder wrote them (offset and rotation check of _poll, admit, emit_batch).
InOrderOnce ==
    LET st == Stimuli IN \A i, j \in 1..Len(st) : i < j => InOrder(st[i], st[j])

\* What the offset of s has passed in the file it was taken in, and what
\* poll_once was given of it.
Passed(s) ==
    LET f == files[s][from[s]] IN
    {f[p] : p \in {q \in 1..Len(f) : q <= offset[s] /\ ~IsNewline(f[q])}}
Given(s) ==
    LET texts == handled[s] \cup IF stage = "handle" /\ Head(todo) = s THEN {got[i] : i \in 1..Len(got)} ELSE {}
    IN  UNION {{t[i] : i \in 1..Len(t)} : t \in texts}

\* A file that has not been replaced is read without a gap: the offset never
\* passes a byte that was not handed to the membrane, whatever the bound on
\* one poll and wherever a line was cut, until max_total_events is reached.
NothingSkipped ==
    \A s \in Sources : from[s] = 1 /\ total < MaxTotal => Passed(s) \subseteq Given(s)

\* The total is passed by at most one event for every source but the first:
\* the inner loop of poll_once stops at the total, the outer one does not.
TotalBounded == total <= MaxTotal + Len(Order) - 1
=============================================================================
