-------------------------------- MODULE Files --------------------------------
(***************************************************************************)
(* The scripts that read and rewrite files in place: certsecure.write_hosts *)
(* and make_cert, file.read and file.write on Linux and on Windows.  A     *)
(* shell's `> file` empties the file, then writes; a reader or a second    *)
(* writer can come in between, and a script that dies leaves a part.       *)
(*                                                                         *)
(* A content is its lines, and whether the last one lacks its newline.  A  *)
(* relayed file or a PEM file is one line; "junk" is a line that is only   *)
(* part of what it was.  Sizes matter for the relay's limits only.         *)
(***************************************************************************)
EXTENDS Integers, Sequences, FiniteSets

CONSTANTS
  Plans,        \* sets of commands <<name, argument>>
  Slots,        \* 1 .. n: how many scripts run at once
  Pairs,        \* bound: the key pairs that make_cert may come up with
  MaxOverlaps,  \* bound: deliveries while a script is running
  MaxTears      \* bound: scripts that die


VARIABLES
  plan,        \* the commands of this machine
  file,        \* what each path holds
  run,         \* per slot: the script that runs there
  last,        \* the run that ended last, with what it reported, if none began since
  overlapped,  \* history: deliveries while a script was running
  torn,        \* history: scripts that died
  start,       \* history: what the paths held at first
  handed,      \* history: relayed contents that a file.read gave out
  refused,     \* history: contents file.write answered with InvalidParam
  unspawned    \* history: contents whose script could not be started

history == <<overlapped, torn, start, handed, refused, unspawned>>
vars    == <<plan, file, run, last, history>>

Content(lines) == [lines |-> lines, open |-> FALSE]
Empty == Content(<<>>)

-----------------------------------------------------------------------------
(* The relay's limits.                                                     *)

RelayCapBytes == 256 * 1024

\* Variant: no room for the padding of the last group.
RelayCapB64Exact == (RelayCapBytes \div 3) * 4

RelayCapB64 == (RelayCapBytes \div 3) * 4 + 4

B64(n) == ((n + 2) \div 3) * 4

\* Contents by their size in bytes: a CRL, one near what a Linux argument
\* holds, one beyond it, the largest file that file.read hands out, one byte
\* more, and one that file.write refuses.
SizeOf == [crl |-> 5000, large |-> 98301, huge |-> 98302, cap |-> 262144,
           over |-> 262145, excess |-> 262147]
Size(c) == IF c.lines = <<>> \/ c.lines[1] \notin DOMAIN SizeOf
             THEN 0 ELSE SizeOf[c.lines[1]]

\* The content is an argument of the shell's command line: 131072 bytes with
\* its NUL on Linux, 32767 characters for the whole line on Windows.
ArgumentMax(name) == IF name = "file.write" THEN 131071 ELSE 32766

-----------------------------------------------------------------------------
(* /etc/hosts.  Lines: "own" (the operator's), the markers "begin" and     *)
(* "end", and an entry per block, "e1" or "e2".                            *)

Entries == {"e1", "e2"}

\* Variant: everything behind a begin marker is taken for the block.
DeletedToTheEnd(ls, i) == \E b \in 1 .. i : ls[b] = "begin"

\* sed '/^begin$/,/^end$/d': a range starts at a begin marker and ends with
\* the first end marker behind it, or with the file.
Deleted(ls, i) ==
  \E b \in 1 .. i : ls[b] = "begin" /\ \A k \in b + 1 .. i - 1 : ls[k] # "end"

Kept(ls) ==
  LET keep[i \in 0 .. Len(ls)] ==
        IF i = 0 THEN <<>>
        ELSE IF Deleted(ls, i) THEN keep[i - 1] ELSE Append(keep[i - 1], ls[i])
  IN keep[Len(ls)]

\* sed leaves a last line without newline as it is.
Sed(c) ==
  LET n == Len(c.lines) IN
  [lines |-> Kept(c.lines), open |-> c.open /\ n > 0 /\ ~Deleted(c.lines, n)]

\* Variant: the old block stays.
AppendOnly(c, e) ==
  Content(c.lines \o <<"begin", e, "end">>)

\* printf ... >> $tmp.  Behind a line without newline the begin marker is not
\* a line of its own: a marker's line is spoiled, an address line is not (the
\* rest of it is a comment).
Rewritten(c, e) ==
  LET s == Sed(c)
      n == Len(s.lines)
      glued == [s.lines EXCEPT ![n] = IF @ \in {"begin", "end"} THEN "junk" ELSE @]
  IN Content(IF s.open THEN glued \o <<e, "end">> ELSE s.lines \o <<"begin", e, "end">>)

-----------------------------------------------------------------------------
(* The scripts, as sequences of steps on a path.                           *)

Step(op, path) == [op |-> op, path |-> path]

WriteHosts  == <<Step("edit", "hosts"), Step("truncate", "hosts"), Step("write", "hosts")>>

\* Variant: the certificate handed out is read before it is written.
MakeCertReadsFirst ==
  <<Step("encode", "cert"), Step("truncate", "key"), Step("write", "key"),
    Step("truncate", "cert"), Step("write", "cert"), Step("digest", "cert")>>

MakeCert ==
  <<Step("truncate", "key"), Step("write", "key"),
    Step("truncate", "cert"), Step("write", "cert"),
    Step("encode", "cert"), Step("digest", "cert")>>

FileRead    == <<Step("size", "path"), Step("encode", "path"), Step("digest", "path")>>
FileWrite   == <<Step("truncate", "path"), Step("write", "path"), Step("digest", "path")>>

\* ReadAllBytes and WriteAllBytes hold the file alone, and the digest is of
\* the bytes in memory.
WindowsRead  == <<Step("take", "path")>>
WindowsWrite == <<Step("swap", "path")>>

Script(name) ==
  CASE name = "write_hosts"   -> WriteHosts
    [] name = "make_cert"     -> MakeCert
    [] name = "file.read"     -> FileRead
    [] name = "file.write"    -> FileWrite
    [] name = "windows.read"  -> WindowsRead
    [] name = "windows.write" -> WindowsWrite

Reads  == {"file.read", "windows.read"}
Writes == {"file.write", "windows.write"}

\* A command as it is delivered: its name, and what it is given to write.
Commands == ({"write_hosts"} \X Entries) \cup (Writes \X DOMAIN SizeOf) \cup
            ((Reads \cup {"make_cert"}) \X {""})

ASSUME FilesAssumption ==
  /\ Plans \subseteq SUBSET Commands
  /\ Slots \subseteq Nat /\ MaxOverlaps \in Nat /\ MaxTears \in Nat

Idle == [cmd |-> "idle", arg |-> "", pc |-> 0, buf |-> Empty, content |-> Empty,
         digest |-> Empty, alone |-> TRUE, failed |-> FALSE]
Busy == {s \in Slots : run[s] # Idle}

Text == {"own", "begin", "end", "junk"} \cup Entries \cup Pairs \cup DOMAIN SizeOf

IsContent(c) == c.open \in BOOLEAN /\ \A i \in 1 .. Len(c.lines) : c.lines[i] \in Text

TypeOK ==
  /\ \A p \in DOMAIN file : IsContent(file[p])
  /\ \A s \in Slots : /\ run[s] = Idle \/ <<run[s].cmd, run[s].arg>> \in plan
                                       \/ run[s].cmd = "make_cert"
                      /\ IsContent(run[s].buf) /\ IsContent(run[s].content)
                      /\ IsContent(run[s].digest)
  /\ overlapped \in 0 .. MaxOverlaps /\ torn \in 0 .. MaxTears
  /\ \A h \in {handed, refused, unspawned} : h \subseteq DOMAIN SizeOf

\* Hosts files: the operator's lines, with a block of an earlier plan in front
\* of the last one or none, ending in a newline or not.
HostsFiles == [lines : {<<"own">>, <<"begin", "e1", "end", "own">>,
                        <<"own", "begin", "e1", "end", "own">>},
               open : BOOLEAN]

Init ==
  /\ plan \in Plans
  /\ \E h \in HostsFiles, x \in DOMAIN SizeOf :
       /\ file = [p \in {"hosts", "path", "key", "cert"} |->
                    CASE p = "hosts" -> h [] p = "path" -> Content(<<x>>)
                      [] OTHER -> Empty]
       /\ \A c \in plan : c[1] # "write_hosts" => h = Content(<<"own">>)
       /\ \A c \in plan : c[1] \notin Reads \cup Writes => x = "crl"
  /\ run = [s \in Slots |-> Idle] /\ last = Idle
  /\ overlapped = 0 /\ torn = 0 /\ start = file
  /\ handed = {} /\ refused = {} /\ unspawned = {}

-----------------------------------------------------------------------------
(* Deliveries.                                                             *)

TooLong(c)     == c[1] \in Writes /\ B64(SizeOf[c[2]]) > RelayCapB64
Unspawnable(c) == c[1] \in Writes /\ B64(SizeOf[c[2]]) > ArgumentMax(c[1])

\* What the run writes: its argument, or a key pair of its own.
InUse == UNION ({{file[p].lines[i] : i \in DOMAIN file[p].lines} : p \in {"key", "cert"}}
                \cup {{run[s].arg} : s \in Slots})
Argument(c) == IF c[1] = "make_cert" THEN CHOOSE p \in Pairs : p \notin InUse ELSE c[2]

Deliver(s, c) ==
  /\ ~TooLong(c) /\ ~Unspawnable(c)
  /\ c[1] = "make_cert" => ~(Pairs \subseteq InUse)   \* bound: Pairs
  /\ run[s] = Idle /\ \A t \in Slots : t < s => run[t] # Idle
  /\ Busy = {} \/ overlapped < MaxOverlaps
  /\ overlapped' = IF Busy = {} THEN overlapped ELSE overlapped + 1
  /\ run' = [t \in Slots |->
       IF t = s
         THEN [Idle EXCEPT !.cmd = c[1], !.arg = Argument(c), !.pc = 1,
                           !.buf = IF c[1] \in Reads THEN Empty ELSE Content(<<Argument(c)>>),
                           !.alone = (Busy = {})]
         ELSE IF t \in Busy THEN [run[t] EXCEPT !.alone = FALSE] ELSE run[t]]
  /\ last' = Idle
  /\ UNCHANGED <<plan, file, torn, start, handed, refused, unspawned>>

Refuse(c) ==
  /\ TooLong(c)
  /\ refused' = refused \cup {c[2]}
  /\ UNCHANGED <<plan, file, run, last, overlapped, torn, start, handed, unspawned>>

\* Command::output() returns an error: the system refuses the argument list.
SpawnFails(c) ==
  /\ ~TooLong(c) /\ Unspawnable(c)
  /\ unspawned' = unspawned \cup {c[2]}
  /\ UNCHANGED <<plan, file, run, last, overlapped, torn, start, handed, refused>>

-----------------------------------------------------------------------------
(* The steps.                                                              *)

Current(s) == Script(run[s].cmd)[run[s].pc]
At(s, ops) == /\ run[s] # Idle /\ run[s].pc <= Len(Script(run[s].cmd))
              /\ Current(s).op \in ops
Here(s)    == file[Current(s).path]

Move(s, r) == run' = [run EXCEPT ![s] = [r EXCEPT !.pc = @ + 1]]
Fail(s)    == run' = [run EXCEPT ![s].failed = TRUE,
                                 ![s].pc = Len(Script(run[s].cmd)) + 1]
NoHistory  == UNCHANGED <<plan, last, history>>

Edit(s) ==
  /\ At(s, {"edit"})
  /\ Move(s, [run[s] EXCEPT !.buf = Rewritten(Here(s), run[s].arg)])
  /\ UNCHANGED file /\ NoHistory

Truncate(s) ==
  /\ At(s, {"truncate"})
  /\ file' = [file EXCEPT ![Current(s).path] = Empty]
  /\ Move(s, run[s])
  /\ NoHistory

\* Variant: a writer goes on at its old offset, behind a hole.
OverHole(new, old) == {Content(<<"hole">> \o new.lines)}

\* Both writers start at offset 0: what the other wrote beyond it stays, the
\* first line of it cut.
Over(new, old) ==
  {new} \cup {[lines |-> Append(new.lines, "junk") \o SubSeq(old.lines, k, Len(old.lines)),
               open |-> old.open] : k \in 2 .. Len(old.lines)}

\* Variant: a write that is broken off does not end the script.
WriteUnchecked(s) ==
  /\ At(s, {"write"})
  /\ file' \in {[file EXCEPT ![Current(s).path] = run[s].buf],
                [file EXCEPT ![Current(s).path] = Empty]}
  /\ Move(s, run[s])
  /\ NoHistory

Write(s) ==
  /\ At(s, {"write"})
  /\ \E c \in Over(run[s].buf, Here(s)) : file' = [file EXCEPT ![Current(s).path] = c]
  /\ Move(s, run[s])
  /\ NoHistory

SizeCheck(s) ==
  /\ At(s, {"size"})
  /\ IF Size(Here(s)) > RelayCapBytes THEN Fail(s) ELSE Move(s, run[s])
  /\ UNCHANGED file /\ NoHistory

\* openssl prints nothing for a file that is no certificate, and its status is
\* lost in the command substitution.
Readable(s) == IF run[s].cmd = "make_cert" /\ (Here(s).open \/ Len(Here(s).lines) # 1)
                 THEN Empty ELSE Here(s)

Encode(s) ==
  /\ At(s, {"encode"})
  /\ Move(s, [run[s] EXCEPT !.content = Readable(s)])
  /\ UNCHANGED file /\ NoHistory

Digest(s) ==
  /\ At(s, {"digest"})
  /\ Move(s, [run[s] EXCEPT !.digest = Readable(s)])
  /\ UNCHANGED file /\ NoHistory

Take(s) ==
  /\ At(s, {"take"})
  /\ IF Size(Here(s)) > RelayCapBytes THEN Fail(s)
     ELSE Move(s, [run[s] EXCEPT !.content = Here(s), !.digest = Here(s)])
  /\ UNCHANGED file /\ NoHistory

Swap(s) ==
  /\ At(s, {"swap"})
  /\ file' = [file EXCEPT ![Current(s).path] = run[s].buf]
  /\ Move(s, [run[s] EXCEPT !.digest = run[s].buf])
  /\ NoHistory

\* The other process has the file open: the call throws.
SwapRefused(s) ==
  /\ At(s, {"swap", "take"}) /\ Cardinality(Busy) > 1
  /\ Fail(s)
  /\ UNCHANGED file /\ NoHistory

\* The handler reports: a read and make_cert what they read, a write what it
\* was given, each with the digest.
Report(r) == IF r.cmd \in Writes \cup {"write_hosts"} THEN [r EXCEPT !.content = r.buf] ELSE r

End(s) ==
  /\ run[s] # Idle /\ run[s].pc = Len(Script(run[s].cmd)) + 1
  /\ run' = [run EXCEPT ![s] = Idle]
  /\ last' = Report(run[s])
  /\ handed' = IF run[s].cmd \in Reads /\ ~run[s].failed
                 THEN handed \cup {x \in DOMAIN SizeOf : run[s].content = Content(<<x>>)}
                 ELSE handed
  /\ UNCHANGED <<plan, file, overlapped, torn, start, refused, unspawned>>

\* What a write that is broken off leaves: some lines, perhaps part of the
\* next, perhaps all of it but its newline.
Parts(c) ==
  {Content(SubSeq(c.lines, 1, k)) : k \in 0 .. Len(c.lines)} \cup
  UNION {{[lines |-> Append(SubSeq(c.lines, 1, k - 1), x), open |-> TRUE] :
            x \in {"junk", c.lines[k]}} : k \in 1 .. Len(c.lines)}

\* The script dies (killed, out of space, the machine goes down).
Die(s) ==
  /\ run[s] # Idle /\ torn < MaxTears
  /\ torn' = torn + 1
  /\ IF At(s, {"write", "swap"})
       THEN \E c \in Parts(run[s].buf) \cup {Here(s)} :
              file' = [file EXCEPT ![Current(s).path] = c]
       ELSE UNCHANGED file
  /\ run' = [run EXCEPT ![s] = Idle]
  /\ last' = [Report(run[s]) EXCEPT !.failed = TRUE]
  /\ UNCHANGED <<plan, overlapped, start, handed, refused, unspawned>>

Next ==
  \/ \E s \in Slots, c \in plan : Deliver(s, c)
  \/ \E c \in plan : Refuse(c) \/ SpawnFails(c)
  \/ \E s \in Slots :
       \/ Edit(s) \/ Truncate(s) \/ Write(s) \/ SizeCheck(s) \/ Encode(s) \/ Digest(s)
       \/ Take(s) \/ Swap(s) \/ SwapRefused(s) \/ End(s) \/ Die(s)

Spec == Init /\ [][Next]_vars

-----------------------------------------------------------------------------
(* Properties.                                                             *)

Sound == last # Idle /\ ~last.failed
Count(ls, texts) == Cardinality({i \in DOMAIN ls : ls[i] \in texts})

\* The digest reported beside a content is the digest of that content, of a
\* read and of a write: on Windows always, on Linux (where stat, base64 and
\* sha256sum open the file one after the other) if nothing overlapped the run.
DigestMatches ==
  Sound /\ last.cmd # "write_hosts" /\ (last.alone \/ last.cmd \in {"windows.read", "windows.write"})
    => last.digest = last.content

\* What the last run reported as written is in the file, whatever half-written
\* file an earlier one left; for make_cert, certificate and key belong together.
WrittenIsThere ==
  Sound /\ last.alone /\ Busy = {} =>
    /\ last.cmd \in Writes => file["path"] = last.content
    /\ last.cmd = "make_cert" => /\ file["cert"] = Content(<<last.arg>>)
                                 /\ file["key"] = file["cert"]
                                 /\ last.content = file["cert"]
    /\ last.cmd = "write_hosts" => /\ Count(file["hosts"].lines, {last.arg}) > 0
                                   /\ ~file["hosts"].open

\* The operator's lines of /etc/hosts survive any number of runs, as long as
\* none overlaps another or dies.
OwnLinesKept ==
  overlapped = 0 /\ torn = 0 /\ Busy = {} =>
    Count(file["hosts"].lines, {"own"}) = Count(start["hosts"].lines, {"own"})

\* A hosts file that ends in a newline holds one block after every run.
OneBlock ==
  overlapped = 0 /\ torn = 0 /\ Busy = {} /\ ~start["hosts"].open =>
    Count(file["hosts"].lines, Entries) <= 1

\* file.write takes whatever file.read hands out.
RelayAccepts == handed \cap refused = {}

\* "a re-run replaces its own previous entries instead of appending
\* duplicates", "a half-written file from an interrupted run converges rather
\* than accumulating".
RerunReplaces ==
  overlapped = 0 /\ Busy = {} /\ Sound => Count(file["hosts"].lines, Entries) <= 1

\* "Content rides base64 in params/results with a 256 KiB cap": what a read
\* within the cap hands out can be written.
RelayCarries == handed \cap unspawned = {}

=============================================================================
