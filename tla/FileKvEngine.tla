---------------------------- MODULE FileKvEngine ----------------------------
(***************************************************************************)
(* The storage engine (FileKvEngine): a map in memory and the append-only  *)
(* file kv.log it is rebuilt from; the commands that Raft replicates and   *)
(* the engine applies (kv_command.cpp); snapshots of it (Snapshotter).     *)
(*                                                                         *)
(* All three formats are fields separated by blanks, so a field that is    *)
(* empty disappears when the text is read back.  A text is a sequence of   *)
(* fields here, reading it drops the empty ones, and the hex form of a     *)
(* string stands for the string: it is neither "-" nor a letter.           *)
(*                                                                         *)
(* A write holds mutex_ and appends one line per mutation before it        *)
(* changes the map; the process may die after any line, and an append may  *)
(* fail: the file is not opened, or the disk takes a part of the line      *)
(* only.  That part stays, and the next line continues it.                 *)
(***************************************************************************)
EXTENDS Integers, Ordered, FiniteSets, FiniteSetsExt, SequencesExt

CONSTANTS
  Key, Value,  \* strings, EmptyString too: no code refuses it
  EmptyString,
  NoValue,     \* no string: the key is absent
  SnapshotPrefix,  \* snapshot prefixes: <<prefix, the strings that begin with it>>
  MaxLines,    \* bound: lines of kv.log
  MaxCuts      \* bound: lines of which the disk took a part

ASSUME EngineAssumption ==
  /\ NoValue \notin Key \cup Value \cup {EmptyString}
  /\ {"-", "P", "D", "PUT", "DELETE", "BATCH", "META", "KV", "ids", "odd"} \cap
       (Key \cup Value \cup {EmptyString, NoValue}) = {}
  /\ EmptyString \notin Nat /\ MaxLines \in Nat /\ MaxCuts \in Nat
  /\ \A p \in SnapshotPrefix : p[2] \subseteq Key \cup Value \cup {EmptyString}
  /\ \A p \in SnapshotPrefix : p[1] # EmptyString => EmptyString \notin p[2]

VARIABLES
  up,
  data,      \* data_
  log,       \* kv.log: lines
  cut,       \* the last line has no end: the next one continues it
  batch,     \* the mutations of the WriteBatch in progress
  done,      \* how many of them are in the file
  snapshot,  \* the snapshot file
  acked,     \* history: the value of each key's last acknowledged write
  meant,     \* history: the mutations its caller asked for
  maybe,     \* history: mutations of unknown outcome
  saved,     \* history: the pairs the snapshot was made of
  cuts,      \* history: how many lines the disk took a part of
  nameless   \* history: the empty key was written or deleted

vars == <<up, data, log, cut, batch, done, snapshot, acked, meant, maybe, saved, cuts, nameless>>

String == Key \cup Value \cup {EmptyString}
Absent == [k \in String |-> NoValue]
NoFile == <<"none">>

\* A mutation is a record; NoValue deletes.
Mutation == [key : Key, value : Value \cup {NoValue}]
Pairs(ms) == {<<m.key, m.value>> : m \in Range(ms)}

Init ==
  /\ up = FALSE /\ data = Absent /\ log = <<>> /\ batch = <<>> /\ done = 0
  /\ snapshot = NoFile /\ saved = {} /\ cut = FALSE /\ cuts = 0 /\ nameless = FALSE
  /\ acked = [k \in Key |-> NoValue] /\ meant = <<>> /\ maybe = {}

Read(text) ==
  LET At == InOrder({i \in DOMAIN text : text[i] # EmptyString})
  IN  IF \A i \in DOMAIN text : text[i] # EmptyString
      THEN text ELSE [j \in DOMAIN At |-> text[At[j]]]
Field(fields, i) == IF i \in DOMAIN fields THEN fields[i] ELSE EmptyString
HexDecodes(f) == f \in String

\* "-" where the value is empty or there is none.
ValueHex(m) == IF m.value \in {NoValue, EmptyString} THEN "-" ELSE m.value
FromHex(f) == IF f = "-" THEN EmptyString ELSE f
Letter(m) == IF m.value = NoValue THEN "D" ELSE "P"

-----------------------------------------------------------------------------
\* kv_command: what Raft replicates and how it is applied.

EncodeCommand(kind, ms) ==
  CASE kind = "PUT"    -> <<"PUT", ms[1].key, ms[1].value>>
    [] kind = "DELETE" -> <<"DELETE", ms[1].key>>
    [] kind = "BATCH"  -> <<"BATCH", Len(ms)>> \o
         [i \in 1 .. 3 * Len(ms) |->
            LET m == ms[(i + 2) \div 3]
            IN  CASE i % 3 = 1 -> Letter(m) [] i % 3 = 2 -> m.key [] OTHER -> ValueHex(m)]

\* The mutations ApplyKvCommand hands to the engine.
DecodeCommand(text) ==
  LET f == Read(text)
      n == IF f[1] = "BATCH" THEN f[2] ELSE 1
      Of(i) == LET a == 3 * i
               IN  CASE f[1] = "PUT"    -> [key |-> Field(f, 2), value |-> Field(f, 3)]
                     [] f[1] = "DELETE" -> [key |-> Field(f, 2), value |-> NoValue]
                     [] f[1] = "BATCH"  -> [key |-> Field(f, a + 1),
                                            value |-> IF Field(f, a) = "P"
                                                      THEN FromHex(Field(f, a + 2)) ELSE NoValue]
  IN  [i \in 1 .. n |-> Of(i)]

-----------------------------------------------------------------------------
\* kv.log

\* Mutant of Line: the value comes before the key.
LineValueFirst(m) == <<Letter(m), ValueHex(m), m.key>>

Line(m) == <<Letter(m), m.key, ValueHex(m)>>

LineKey(line)   == Field(Read(line), 2)
LineValue(line) ==
  LET f   == Read(line)
      hex == IF Field(f, 3) = EmptyString THEN "-" ELSE Field(f, 3)
  IN  IF f[1] = "D" THEN NoValue ELSE FromHex(hex)

\* Replay accepts every line.
Replays(lines) == \A i \in DOMAIN lines :
  /\ Field(Read(lines[i]), 1) \in {"P", "D"}
  /\ HexDecodes(LineKey(lines[i])) /\ LineValue(lines[i]) \in String \cup {NoValue}

\* Mutant of Replayed: a key keeps its first value.
ReplayedFirst(lines) == [k \in String |->
  LET on == {i \in DOMAIN lines : LineKey(lines[i]) = k}
  IN  IF on = {} THEN NoValue ELSE LineValue(lines[Min(on)])]

\* Line i is the last one about key k.
LastAbout(lines, k, i) ==
  /\ LineKey(lines[i]) = k
  /\ \A j \in DOMAIN lines : j > i => LineKey(lines[j]) # k

\* The map Replay builds.
Replayed(lines) == [k \in String |->
  IF \A i \in DOMAIN lines : LineKey(lines[i]) # k THEN NoValue
  ELSE LineValue(lines[CHOOSE i \in DOMAIN lines : LastAbout(lines, k, i)])]

\* Nobody holds mutex_.
Idle == up /\ batch = <<>>

Open ==
  /\ ~up /\ Replays(log)
  /\ up' = TRUE /\ data' = Replayed(log)
  /\ UNCHANGED <<log, cut, batch, done, snapshot, acked, meant, maybe, saved, cuts, nameless>>

Crash ==
  /\ up
  /\ up' = FALSE /\ data' = Absent
  /\ batch' = <<>> /\ done' = 0 /\ meant' = <<>> /\ maybe' = {}
  /\ UNCHANGED <<log, cut, snapshot, acked, saved, cuts, nameless>>

\* The map after the mutations, in order.
Written(ms, d) == [k \in DOMAIN d |->
  LET on == {i \in DOMAIN ms : ms[i].key = k}
  IN  IF on = {} THEN d[k] ELSE ms[Max(on)].value]

\* WriteBatch begins with the mutations ms; the caller meant wanted.
Begin(ms, wanted) ==
  /\ Idle /\ Len(log) + Len(ms) <= MaxLines
  /\ batch' = ms /\ done' = 0 /\ meant' = wanted
  /\ maybe' = maybe \cup Pairs(wanted)
  /\ nameless' = (nameless \/ \E i \in DOMAIN wanted : wanted[i].key = EmptyString)
  /\ UNCHANGED <<up, data, log, cut, snapshot, acked, saved, cuts>>

\* A command is applied, a Put, a Delete or a Batch, unless a field of it does
\* not decode.
ApplyKvCommand(kind, ms) ==
  LET decoded == DecodeCommand(EncodeCommand(kind, ms))
  IN  /\ Idle
      /\ \A i \in DOMAIN decoded :
           HexDecodes(decoded[i].key) /\ decoded[i].value \in String \cup {NoValue}
      /\ Begin(decoded, ms)

\* What two fields make that no blank separates: half of a byte and the letter
\* D, a digit too, make a byte; nothing else decodes.
Joined(f, g) == IF f = "odd" /\ g = "D" THEN String \ {EmptyString} ELSE {"odd"}

\* The file after the text was added to it.
LogWith(text) ==
  IF text = <<>> THEN {log}
  ELSE IF cut THEN {[log EXCEPT ![Len(log)] = Front(@) \o <<f>> \o Tail(text)] :
                      f \in Joined(Last(Last(log)), text[1])}
  ELSE {Append(log, text)}

AppendMutation ==
  /\ done < Len(batch)
  /\ log' \in LogWith(Line(batch[done + 1])) /\ cut' = FALSE /\ done' = done + 1
  /\ UNCHANGED <<up, data, batch, snapshot, acked, meant, maybe, saved, cuts, nameless>>

\* The file cannot be opened: the batch returns with the lines before this one
\* in the file and none in the map.
AppendFails ==
  /\ done < Len(batch)
  /\ batch' = <<>> /\ done' = 0 /\ meant' = <<>>
  /\ UNCHANGED <<up, data, log, cut, snapshot, acked, maybe, saved, cuts, nameless>>

\* What the disk may take of a line: none of it, some whole fields, or a last one
\* cut inside its hex form.  Strings are one byte here: half of one is "odd".
Parts(line) ==
  {SubSeq(line, 1, n) : n \in 0 .. 3} \cup
  {SubSeq(line, 1, n - 1) \o <<"odd">> : n \in {i \in 2 .. 3 : line[i] \notin {"-", EmptyString}}}

\* The disk takes a part of the line.  A line longer than the stream's buffer is
\* written here and the batch returns the error; a shorter one is written when
\* the stream is closed, which nothing checks, and the batch goes on.
WriteFails ==
  /\ done < Len(batch) /\ cuts < MaxCuts /\ cuts' = cuts + 1
  /\ \E part \in Parts(Line(batch[done + 1])) :
       log' \in LogWith(part) /\ cut' = (cut \/ part # <<>>)
  /\ \/ done' = done + 1 /\ UNCHANGED <<batch, meant>>
     \/ batch' = <<>> /\ done' = 0 /\ meant' = <<>>
  /\ UNCHANGED <<up, data, snapshot, acked, maybe, saved, nameless>>

Finish ==
  /\ batch # <<>> /\ done = Len(batch)
  /\ data' = Written(batch, data) /\ acked' = Written(meant, acked)
  /\ maybe' = {m \in maybe : \A i \in DOMAIN meant : meant[i].key # m[1]}
  /\ batch' = <<>> /\ done' = 0 /\ meant' = <<>>
  /\ UNCHANGED <<up, log, cut, snapshot, saved, cuts, nameless>>

-----------------------------------------------------------------------------
\* Snapshotter

ScanPrefix(p) == {k \in p[2] : data[k] # NoValue}

\* META, its three numbers and the prefix; a KV record per pair, in some order.
Create(p) ==
  /\ Idle
  /\ LET keys == SetToSeq(ScanPrefix(p))
     IN  /\ saved' = {<<k, data[k]>> : k \in Range(keys)}
         /\ snapshot' = <<"META", "ids", p[1]>> \o
              [i \in 1 .. 3 * Len(keys) |->
                 LET k == keys[(i + 2) \div 3]
                 IN  CASE i % 3 = 1 -> "KV" [] i % 3 = 2 -> k [] OTHER -> data[k]]
  /\ UNCHANGED <<up, data, log, cut, batch, done, acked, meant, maybe, cuts, nameless>>

\* Mutant of Records: a record cut short at the end of the file is dropped.
WholeRecords(f) == 1 .. Len(f) \div 3

\* Restore reads records of three fields, the last of which may be cut short.
Records(f) == 1 .. (Len(f) + 2) \div 3

KeyField(f, r)   == Field(f, 3 * r - 1)
ValueField(f, r) == Field(f, 3 * r)

\* A field of the wrong kind ends it; a field that is missing is empty.
Parses(f) == \A r \in Records(f) :
  \/ f[3 * r - 2] = "META" /\ HexDecodes(ValueField(f, r))
  \/ f[3 * r - 2] = "KV" /\ HexDecodes(KeyField(f, r)) /\ HexDecodes(ValueField(f, r))

\* The mutations of the KV records, in their order.
Parse(text) ==
  LET f  == Read(text)
      kv == InOrder({r \in Records(f) : f[3 * r - 2] = "KV"})
  IN  [ok    |-> Parses(f),
       pairs |-> [j \in DOMAIN kv |->
                    [key |-> KeyField(f, kv[j]), value |-> ValueField(f, kv[j])]]]

Restore ==
  /\ Idle /\ snapshot # NoFile
  /\ LET read == Parse(snapshot)
     IN  read.ok /\ read.pairs # <<>> /\ Begin(read.pairs, read.pairs)

Next ==
  \/ Open \/ Crash \/ AppendMutation \/ AppendFails \/ WriteFails \/ Finish \/ Restore
  \/ \E m \in Mutation : ApplyKvCommand(IF m.value = NoValue THEN "DELETE" ELSE "PUT", <<m>>)
  \/ \E m, n \in Mutation : ApplyKvCommand("BATCH", <<m, n>>)
  \/ \E p \in SnapshotPrefix : Create(p)

Spec == Init /\ [][Next]_vars
-----------------------------------------------------------------------------
\* Properties.

\* The two ways to spoil kv.log: a line the disk took a part of, and the empty
\* key, which disappears between the blanks of its line.
Spoiled == cuts > 0 \/ nameless

\* A log that neither spoiled replays, wherever a batch failed to open the file
\* or the process died.
CanReopen == ~Spoiled => Replays(log)

\* src/README.md:107 promises recovery after a restart, so Replay must accept
\* what the engine wrote.  It does not: empty_key.cfg and cut_line.cfg show how.
LogReplays == Replays(log)

\* As long as nothing spoiled the log, the engine is the store of module KvStore:
\* a crash or a failed append inside a batch loses no acknowledged write, and of
\* the unacknowledged ones only those not overwritten since can turn up at a
\* restart.
Durable == INSTANCE KvStore WITH
  kv <- [k \in Key |-> IF up THEN data[k] ELSE Replayed(log)[k]]

ImplementsKvStore ==
  Durable!Init /\ [][~Spoiled' => Durable!Next \/ UNCHANGED Durable!vars]_vars

\* A snapshot is restored as it was saved or refused, by an engine that goes on
\* after a spoiled write too.
SnapshotExactOrRefused ==
  snapshot # NoFile =>
    LET read == Parse(snapshot) IN read.ok => Pairs(read.pairs) = saved
=============================================================================
