------------------------------ MODULE LogMixer ------------------------------
(***************************************************************************)
(* How the logs of the nodes become one stream (logs/simlogger.go,         *)
(* logs/aggregator.go).  A node's SimLogger owns an io.Pipe.  Two          *)
(* goroutines write whole lines to it: transformEventLogs, for the events  *)
(* of the daemon, and AddNode, which announces the node with WriteEvent.   *)
(* The aggregator's mixScanner of the node collects a line and writes it   *)
(* to the aggregator's io.Pipe, which all scanners share and the /logs     *)
(* pump reads.                                                             *)
(*                                                                         *)
(* A line is a sequence of units, the last of which is its newline; a Read *)
(* takes a bounded number of units of one Write, so that a long line takes *)
(* several Reads.  io.Pipe (external) holds a lock for the whole of a      *)
(* Write and hands its data to the Reads, with nothing buffered between.   *)
(***************************************************************************)
EXTENDS EventConvert

CONSTANTS
  Nodes,     \* the nodes that join
  Nil,       \* nobody writes to the pipe
  LineBuf,   \* units a scanner's Read takes at most
  ReadBuf,   \* units the pump's Read takes at most
  MaxLen,    \* bound: units of a line
  MaxLines   \* bound: lines a node's events are converted to

Sources == {"transform", "announce"}

ASSUME MixAssumption ==
  /\ Nil \notin Nodes \cup Sources
  /\ {LineBuf, ReadBuf, MaxLen, MaxLines} \subseteq Nat \ {0}

VARIABLES
  tpc,      \* [Nodes -> where transformEventLogs is]
  owed,     \* [Nodes -> lines of the decoded event not encoded yet]
  apc,      \* [Nodes -> where AddNode's announcement is]
  accepted, \* [Nodes -> [Sources -> lines whose Write returned nil]]
  npipe,    \* [Nodes -> the SimLogger's pipe]
  spc,      \* [Nodes -> where mixScanner is]
  part,     \* [Nodes -> the units mixScanner has of its line]
  apipe,    \* the aggregator's pipe
  reading,  \* the pump still reads
  tail,     \* units read since the last newline
  shown     \* [Nodes -> [Sources -> whole lines read, in order]]

transformVars == <<tpc, owed>>
nodeVars == <<tpc, owed, apc, accepted, npipe>>
readerVars == <<apipe, reading, tail, shown>>
vars == <<tpc, owed, apc, accepted, npipe, spc, part, apipe, reading, tail, shown>>

Line(n, src, num, len) ==
  [i \in 1 .. len |-> [node |-> n, src |-> src, num |-> num, at |-> i, len |-> len]]

EndsLine(s) == s[Len(s)].at = s[Len(s)].len

-----------------------------------------------------------------------------
(* io.Pipe: who holds the write lock, what is left of that Write, and       *)
(* whether the write side is open.                                          *)

NewPipe == [owner |-> Nil, rest |-> <<>>, open |-> TRUE]

Hold(pipe, w, data) == [pipe EXCEPT !.owner = w, !.rest = data]

Smaller(a, b) == IF a < b THEN a ELSE b

Chunk(pipe, cap) == SubSeq(pipe.rest, 1, Smaller(cap, Len(pipe.rest)))

\* The Write returns, and its lock is free, when its last unit is taken.
Taken(pipe, cap) ==
  IF Len(pipe.rest) <= cap
    THEN Hold(pipe, Nil, <<>>)
    ELSE [pipe EXCEPT !.rest = SubSeq(@, cap + 1, Len(@))]

-----------------------------------------------------------------------------
Init ==
  /\ tpc = [n \in Nodes |-> "off"]
  /\ owed = [n \in Nodes |-> 0]
  /\ apc = [n \in Nodes |-> "off"]
  /\ accepted = [n \in Nodes |-> [src \in Sources |-> 0]]
  /\ npipe = [n \in Nodes |-> NewPipe]
  /\ spc = [n \in Nodes |-> "off"]
  /\ part = [n \in Nodes |-> <<>>]
  /\ apipe = NewPipe
  /\ reading = TRUE
  /\ tail = <<>>
  /\ shown = [n \in Nodes |-> [src \in Sources |-> 0]]

\* NewSimLogger starts transformEventLogs, MixReader starts mixScanner, and
\* AddNode goes on to announce the node.
MixReader(n) ==
  /\ apc[n] = "off"
  /\ tpc' = [tpc EXCEPT ![n] = "decode"]
  /\ spc' = [spc EXCEPT ![n] = "read"]
  /\ apc' = [apc EXCEPT ![n] = "announce"]
  /\ UNCHANGED <<owed, accepted, npipe, part, readerVars>>

\* Mutant of Decode: an event with two lines is counted as three.
DecodeTooMany(n, k) ==
  /\ tpc[n] = "decode"
  /\ accepted[n]["transform"] + k <= MaxLines
  /\ owed' = [owed EXCEPT ![n] = IF k = 2 THEN 3 ELSE k]
  /\ tpc' = [tpc EXCEPT ![n] = IF k = 0 THEN "decode" ELSE "encode"]
  /\ UNCHANGED <<apc, accepted, npipe, spc, part, readerVars>>

\* How many lines an event may become.  Left out are events with which the
\* process ends.
LineCounts == {Len(ConvertEL2SL("node1", e)) : e \in Convertible}

\* An event becomes k lines.
Decode(n, k) ==
  /\ tpc[n] = "decode"
  /\ accepted[n]["transform"] + k <= MaxLines
  /\ owed' = [owed EXCEPT ![n] = k]
  /\ tpc' = [tpc EXCEPT ![n] = IF k = 0 THEN "decode" ELSE "encode"]
  /\ UNCHANGED <<apc, accepted, npipe, spc, part, readerVars>>

\* The daemon's stream ends or holds something that is not JSON: CloseWithError.
DecodeError(n) ==
  /\ tpc[n] = "decode"
  /\ tpc' = [tpc EXCEPT ![n] = "stopped"]
  /\ npipe' = [npipe EXCEPT ![n].open = FALSE]
  /\ UNCHANGED <<owed, apc, accepted, spc, part, readerVars>>

\* e.Encode(&om) starts its Write once it has the pipe's lock.
Encode(n) ==
  /\ tpc[n] = "encode"
  /\ npipe[n].owner = Nil
  /\ \E len \in 1 .. MaxLen :
       npipe' = [npipe EXCEPT ![n] =
         Hold(@, "transform", Line(n, "transform", accepted[n]["transform"] + 1, len))]
  /\ tpc' = [tpc EXCEPT ![n] = "writing"]
  /\ UNCHANGED <<owed, apc, accepted, spc, part, readerVars>>

\* WriteEvent gets the lock.  It may have found the pipe open before it was
\* closed, and then still meets a scanner that waits for data.
WriteEvent(n) ==
  /\ apc[n] = "announce"
  /\ npipe[n].owner = Nil
  /\ \E len \in 1 .. MaxLen :
       npipe' = [npipe EXCEPT ![n] = Hold(@, "announce", Line(n, "announce", 1, len))]
  /\ apc' = [apc EXCEPT ![n] = "writing"]
  /\ UNCHANGED <<transformVars, accepted, spc, part, readerVars>>

\* Mutant of WriteEventError: the writer does not notice that the pipe is closed.
WriteEventHangs(n) == FALSE /\ apc[n] = "writing" /\ UNCHANGED vars

\* WriteEvent finds the pipe closed, before or during its Write.
WriteEventError(n) ==
  /\ apc[n] \in {"announce", "writing"}
  /\ ~npipe[n].open
  /\ apc' = [apc EXCEPT ![n] = "failed"]
  /\ npipe' = [npipe EXCEPT ![n] = IF apc[n] = "writing" THEN Hold(@, Nil, <<>>) ELSE @]
  /\ UNCHANGED <<transformVars, accepted, spc, part, readerVars>>

-----------------------------------------------------------------------------
(* mixScanner *)

\* A Read of a closed pipe fails at once, and mixScanner returns.
BeginRead(n) ==
  /\ spc[n] = "read"
  /\ spc' = [spc EXCEPT ![n] = IF npipe[n].open THEN "wait" ELSE "exit"]
  /\ UNCHANGED <<nodeVars, part, readerVars>>

ReadFails(n) ==
  /\ spc[n] = "wait"
  /\ ~npipe[n].open
  /\ spc' = [spc EXCEPT ![n] = "exit"]
  /\ UNCHANGED <<nodeVars, part, readerVars>>

\* The writer of the pipe goes on when all of its line is taken.
WriteReturns(n, src) ==
  /\ accepted' = [accepted EXCEPT ![n][src] = @ + 1]
  /\ IF src = "transform"
       THEN /\ owed' = [owed EXCEPT ![n] = @ - 1]
            /\ tpc' = [tpc EXCEPT ![n] = IF owed[n] = 1 THEN "decode" ELSE "encode"]
            /\ UNCHANGED apc
       ELSE /\ apc' = [apc EXCEPT ![n] = "announced"]
            /\ UNCHANGED transformVars

\* Mutant of ReadPiece: what one Read took counts as a line.
ReadPieceAsLine(n) ==
  LET piece == Chunk(npipe[n], LineBuf) IN
  /\ spc[n] = "wait"
  /\ npipe[n].rest # <<>>
  /\ part' = [part EXCEPT ![n] = @ \o piece]
  /\ spc' = [spc EXCEPT ![n] = "write"]
  /\ npipe' = [npipe EXCEPT ![n] = Taken(@, LineBuf)]
  /\ IF Len(npipe[n].rest) <= LineBuf
       THEN WriteReturns(n, npipe[n].owner)
       ELSE UNCHANGED <<transformVars, apc, accepted>>
  /\ UNCHANGED readerVars

\* A Read takes a piece of the line; ReadBytes returns at its newline.
ReadPiece(n) ==
  LET piece == Chunk(npipe[n], LineBuf) IN
  /\ spc[n] = "wait"
  /\ npipe[n].rest # <<>>
  /\ part' = [part EXCEPT ![n] = @ \o piece]
  /\ spc' = [spc EXCEPT ![n] = IF EndsLine(piece) THEN "write" ELSE "read"]
  /\ npipe' = [npipe EXCEPT ![n] = Taken(@, LineBuf)]
  /\ IF Len(npipe[n].rest) <= LineBuf
       THEN WriteReturns(n, npipe[n].owner)
       ELSE UNCHANGED <<transformVars, apc, accepted>>
  /\ UNCHANGED readerVars

\* Mutant of WriteLine: without the lock, its units get ahead of others'.
WriteLineUnlocked(n) ==
  /\ spc[n] = "write"
  /\ apipe' = Hold(apipe, n, part[n] \o apipe.rest)
  /\ spc' = [spc EXCEPT ![n] = "writing"]
  /\ part' = [part EXCEPT ![n] = <<>>]
  /\ UNCHANGED <<nodeVars, reading, tail, shown>>

\* Mutant of WriteLine: a scanner whose stream was closed drops its line.
WriteLineIfOpen(n) ==
  /\ spc[n] = "write"
  /\ npipe[n].open
  /\ apipe.owner = Nil
  /\ apipe' = Hold(apipe, n, part[n])
  /\ spc' = [spc EXCEPT ![n] = "writing"]
  /\ part' = [part EXCEPT ![n] = <<>>]
  /\ UNCHANGED <<nodeVars, reading, tail, shown>>

\* a.pw.Write(l): the lock of the aggregator's pipe keeps other lines out.
WriteLine(n) ==
  /\ spc[n] = "write"
  /\ apipe.owner = Nil
  /\ apipe' = Hold(apipe, n, part[n])
  /\ spc' = [spc EXCEPT ![n] = "writing"]
  /\ part' = [part EXCEPT ![n] = <<>>]
  /\ UNCHANGED <<nodeVars, reading, tail, shown>>

-----------------------------------------------------------------------------
(* The reader of the merged log. *)

\* A line counts as shown if it is whole and the next one of its source.
Whole(s) ==
  LET first == s[1] IN
  /\ s = Line(first.node, first.src, first.num, first.len)
  /\ first.num = shown[first.node][first.src] + 1

ReadMerged ==
  LET piece == Chunk(apipe, ReadBuf)
      line == tail \o piece
  IN
  /\ reading
  /\ apipe.rest # <<>>
  /\ apipe' = Taken(apipe, ReadBuf)
  /\ spc' = IF Len(apipe.rest) <= ReadBuf
              THEN [spc EXCEPT ![apipe.owner] = "read"] ELSE spc
  /\ tail' = IF EndsLine(piece) THEN <<>> ELSE line
  /\ shown' = IF EndsLine(piece) /\ Whole(line)
                THEN [shown EXCEPT ![line[1].node][line[1].src] = @ + 1] ELSE shown
  /\ UNCHANGED <<nodeVars, part, reading>>

\* The pump has returned, and nobody reads the pipe any more.
StopReading ==
  /\ reading
  /\ reading' = FALSE
  /\ UNCHANGED <<nodeVars, spc, part, apipe, tail, shown>>

-----------------------------------------------------------------------------
Transform(n) == (\E k \in LineCounts : Decode(n, k)) \/ DecodeError(n) \/ Encode(n)

Announce(n) == WriteEvent(n) \/ WriteEventError(n)

MixScanner(n) == BeginRead(n) \/ ReadFails(n) \/ ReadPiece(n) \/ WriteLine(n)

Next ==
  \/ \E n \in Nodes : MixReader(n) \/ Transform(n) \/ Announce(n) \/ MixScanner(n)
  \/ ReadMerged
  \/ StopReading

Spec == Init /\ [][Next]_vars

(* Goroutines that can run do run, and the pump reads while it lives.  The   *)
(* daemon owes no event and nodes need not join.  A pipe's lock may be taken *)
(* by others first, but not for ever, because MaxLines bounds their lines    *)
(* (Go's mutexes hand over to a waiter that starves).                        *)
Fairness ==
  /\ WF_vars(ReadMerged)
  /\ \A n \in Nodes : /\ WF_vars(Encode(n))
                      /\ WF_vars(WriteEvent(n))
                      /\ WF_vars(WriteEventError(n))
                      /\ WF_vars(BeginRead(n) \/ ReadFails(n) \/ ReadPiece(n))
                      /\ WF_vars(WriteLine(n))

FairSpec == Spec /\ Fairness

-----------------------------------------------------------------------------
(* Properties *)

Units ==
  [node : Nodes, src : Sources, num : 1 .. MaxLines, at : 1 .. MaxLen, len : 1 .. MaxLen]

Pipes(writers, opens) == [owner : writers \cup {Nil}, rest : Seq(Units), open : opens]

\* Every variable has its type.
TypeOK ==
  /\ tpc \in [Nodes -> {"off", "decode", "encode", "writing", "stopped"}]
  /\ owed \in [Nodes -> 0 .. 2]
  /\ apc \in [Nodes -> {"off", "announce", "writing", "announced", "failed"}]
  /\ accepted \in [Nodes -> [Sources -> 0 .. MaxLines]]
  /\ npipe \in [Nodes -> Pipes(Sources, BOOLEAN)]
  /\ spc \in [Nodes -> {"off", "read", "wait", "write", "writing", "exit"}]
  /\ part \in [Nodes -> Seq(Units)]
  /\ apipe \in Pipes(Nodes, {TRUE})
  /\ reading \in BOOLEAN
  /\ tail \in Seq(Units)
  /\ shown \in [Nodes -> [Sources -> 0 .. MaxLines]]

\* aggregator.go: the mixer merges line by line, and interleaved writes do not
\* break up lines.  Every line read was one line written, whole and in order,
\* and a node has at most one line on its way.
Mix == INSTANCE LineMix

RefinesLineMix == Mix!Spec

\* What the reader has of a line is the beginning of one line.
TailIntact ==
  \A i \in 1 .. Len(tail) : tail[i] = [tail[1] EXCEPT !.at = i]

\* An accepted line is shown, unless the pump returns, even if its node's
\* stream is closed right after.
AcceptedIsShown ==
  \A n \in Nodes, src \in Sources : []<>(shown[n][src] = accepted[n][src] \/ ~reading)

\* The announcement of a node that joined is not held up for ever by its
\* events, nor by other nodes': it is shown, or its stream was closed.
AnnouncementEnds ==
  \A n \in Nodes :
    (apc[n] = "announce") ~>
      (shown[n]["announce"] = 1 \/ apc[n] = "failed" \/ ~reading)

\* Some node's transformer takes an event of its daemon next, whichever it is.
Decoding == \E n \in Nodes : tpc[n] = "decode"

\* convertEL2SL: a mined block and its broadcast, and a deal and its file, come
\* out together and agree, or do not come out (simlogger.go:143, 270).
PairsAgree == Decoding => PairsConverted

\* What a viewer reads of blocks, deals and payments is the same from every
\* node's log, and what it reads of a node names that node (simlogger.go:123-293).
ActorNotLogger == Decoding => ActorsConverted

\* simlogger.go:328, "askID bidID sig data": the line of an addDeal message
\* shows the data of the deal.
AddDealShowsData == Decoding => AddDealConverted
=============================================================================
