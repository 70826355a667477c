------------------------- MODULE LogPipelineProofs -------------------------
(* The proofs about LogPipeline: it keeps to the specifications of both its      *)
(* parts, so that what is proved of them holds of it, and what holds only of     *)
(* both together.                                                                *)
EXTENDS LogPipeline, LogMixerProofs

HandlerProofs == INSTANCE LogHandlerProofs

-----------------------------------------------------------------------------
(* The parts *)

(* Every step of the pipeline is a step of the log mixer, or leaves it alone.    *)
LEMMA MixerSteps == [PipeNext]_pipeVars => [Next]_vars
<1>1. ASSUME NEW n \in Nodes, NodeLogs(n) PROVE Next
  BY <1>1 DEF NodeLogs, Next
<1>2. ReadChunk => Next
  BY DEF ReadChunk, Next
<1>3. Outside \/ PumpStep \/ UNCHANGED pipeVars => UNCHANGED vars
  BY DEF Outside, PumpStep, MixerRests, mixVars, pipeVars
<1>4. QED
  BY <1>1, <1>2, <1>3 DEF PipeNext

(* Every step of the pipeline is a step of the log endpoint, or leaves it alone. *)
LEMMA HandlerSteps == [PipeNext]_pipeVars => [Handler!Next]_(Handler!vars)
<1> USE DEF Handler!vars, pumpVars
<1>1. ASSUME NEW n \in Nodes, NodeLogs(n) PROVE UNCHANGED Handler!vars
  BY <1>1 DEF NodeLogs, PumpRests
<1>2. ReadChunk => Handler!Next
  BY DEF ReadChunk, Handler!Next
<1>3. Outside \/ PumpStep => Handler!Next
  BY DEF Outside, PumpStep, Handler!Next
<1>4. UNCHANGED pipeVars => UNCHANGED Handler!vars
  BY DEF pipeVars
<1>5. QED
  BY <1>1, <1>2, <1>3, <1>4 DEF PipeNext

(* The log mixer of the pipeline is a log mixer: its reader is the pump.         *)
THEOREM MixerInside == PipeSpec => Spec
<1>1. PipeInit => Init
  BY DEF PipeInit
<1>2. QED
  BY <1>1, MixerSteps, PTL DEF PipeSpec, Spec

(* The log endpoint of the pipeline is a log endpoint: its log is the mixer's.   *)
THEOREM HandlerInside == PipeSpec => Handler!Spec
<1>1. PipeInit => Handler!Init
  BY DEF PipeInit
<1>2. QED
  BY <1>1, HandlerSteps, PTL DEF PipeSpec, Handler!Spec

(* Viewers of the real log get whole lines in order: the merged log of the       *)
(* pipeline is what LineMix promises.                                            *)
THEOREM MixKept == PipeSpec => RefinesLineMix
BY MixerInside, Refinement, PTL

LEMMA SameSpec == Handler!Spec <=> HandlerProofs!Spec
<1>1. Handler!Init <=> HandlerProofs!Init
  BY DEF Handler!Init, HandlerProofs!Init, Handler!Slots, HandlerProofs!Slots
<1>2. Handler!Next <=> HandlerProofs!Next
  BY DEF Handler!Next, HandlerProofs!Next, Handler!Cancel, HandlerProofs!Cancel,
         Handler!Read, HandlerProofs!Read, Handler!ReadError,
         HandlerProofs!ReadError, Handler!Control, HandlerProofs!Control,
         Handler!WriteSlot, HandlerProofs!WriteSlot, Handler!Handler,
         HandlerProofs!Handler, Handler!Client, HandlerProofs!Client,
         Handler!Deliver, HandlerProofs!Deliver, Handler!HandleHttp,
         HandlerProofs!HandleHttp, Handler!AddWriter, HandlerProofs!AddWriter,
         Handler!Wait, HandlerProofs!Wait, Handler!Stall, HandlerProofs!Stall,
         Handler!Resume, HandlerProofs!Resume, Handler!Drop, HandlerProofs!Drop,
         Handler!SetConn, HandlerProofs!SetConn, Handler!FirstWriter,
         HandlerProofs!FirstWriter, Handler!SelectWriter,
         HandlerProofs!SelectWriter, Handler!SelectDone, HandlerProofs!SelectDone,
         Handler!SelectDefault, HandlerProofs!SelectDefault, Handler!DrainWriterCh,
         HandlerProofs!DrainWriterCh, Handler!StartCatchUp,
         HandlerProofs!StartCatchUp, Handler!Advance, HandlerProofs!Advance,
         Handler!NextSlot, HandlerProofs!NextSlot, Handler!SkipSlot,
         HandlerProofs!SkipSlot, Handler!FailSlot, HandlerProofs!FailSlot,
         Handler!EndCatchUp, HandlerProofs!EndCatchUp, Handler!DeliverError,
         HandlerProofs!DeliverError, Handler!Store, HandlerProofs!Store,
         Handler!clientVars, HandlerProofs!clientVars, Handler!seen,
         HandlerProofs!seen, Handler!ringVars, HandlerProofs!ringVars,
         Handler!loopVars, HandlerProofs!loopVars
<1>3. QED
  BY <1>1, <1>2, PTL DEF Handler!Spec, HandlerProofs!Spec, Handler!vars, HandlerProofs!vars

LEMMA Assumed == HandlerProofs!NilAssumption /\ HandlerProofs!SizeAssumption
BY PipeAssumption DEF Handler!NilAssumption, Handler!SizeAssumption,
                      HandlerProofs!NilAssumption, HandlerProofs!SizeAssumption

LEMMA HandlerInvariant == PipeSpec => []HandlerProofs!IInv
<1>1. HandlerProofs!Spec => []HandlerProofs!IInv
  BY Assumed, HandlerProofs!Invariance
<1>2. QED
  BY <1>1, HandlerInside, SameSpec, PTL

LEMMA MixerInvariant == PipeSpec => []IInv
BY MixerInside, Invariance, PTL

-----------------------------------------------------------------------------
(* Before the first viewer *)

Attached(c) == hs[c] \in {"waiting", "returned"}

(* The pump starts only with a viewer, and nothing is shown before it starts.    *)
StartsWithViewer ==
  /\ wch # <<>> \/ pc # "first" => \E c \in Clients : Attached(c)
  /\ pc = "first" => \A n \in Nodes, src \in Sources : shown[n][src] = 0

LEMMA StaysAttached ==
  ASSUME Handler!TypeOK, [Handler!Next]_(Handler!vars), NEW c \in Clients, Attached(c)
  PROVE  Attached(c)'
<1>0. hs \in [Clients -> {"idle", "sending", "waiting", "returned"}]
  BY DEF Handler!TypeOK, Handler!HandlerStates
<1>1. ASSUME NEW d \in Clients, Handler!Handler(d) \/ Handler!Client(d)
      PROVE  Attached(c)'
  BY <1>0, <1>1 DEF Attached, Handler!Handler, Handler!Client, Handler!HandleHttp,
     Handler!AddWriter, Handler!Wait, Handler!Stall, Handler!Resume, Handler!Drop, Handler!SetConn
<1>2. ASSUME hs' = hs PROVE Attached(c)'
  BY <1>2 DEF Attached
<1>3. ASSUME \A d \in Clients : ~(Handler!Handler(d) \/ Handler!Client(d))
      PROVE  hs' = hs
  BY <1>3
  DEF Handler!Next, Handler!Cancel, Handler!Read, Handler!ReadError, Handler!Control,
      Handler!WriteSlot, Handler!Deliver, Handler!FirstWriter, Handler!SelectWriter,
      Handler!SelectDone, Handler!SelectDefault, Handler!DrainWriterCh, Handler!SkipSlot,
      Handler!FailSlot, Handler!EndCatchUp, Handler!Store, Handler!StartCatchUp,
      Handler!DeliverError, Handler!clientVars, Handler!vars
<1>4. QED
  BY <1>1, <1>2, <1>3

(* The pump and its channel leave their first state only for a client that has   *)
(* queued, and the pump does not come back to it.                                *)
LEMMA StartStep ==
  ASSUME Handler!TypeOK, [Handler!Next]_(Handler!vars)
  PROVE  /\ wch' # <<>> \/ pc' # "first" =>
              wch # <<>> \/ pc # "first" \/ \E c \in Clients : Attached(c)'
         /\ pc' = "first" => pc = "first"
<1>0. hs \in [Clients -> {"idle", "sending", "waiting", "returned"}]
  BY DEF Handler!TypeOK, Handler!HandlerStates
<1>1. ASSUME NEW c \in Clients, Handler!AddWriter(c)
      PROVE  Attached(c)' /\ pc' = pc
  BY <1>0, <1>1 DEF Attached, Handler!AddWriter
<1>2. ASSUME \A c \in Clients : ~Handler!AddWriter(c)
      PROVE  /\ wch' # <<>> \/ pc' # "first" => wch # <<>> \/ pc # "first"
             /\ pc' = "first" => pc = "first"
  BY <1>2
  DEF Handler!Next, Handler!Cancel, Handler!Read, Handler!ReadError, Handler!Control,
      Handler!WriteSlot, Handler!Deliver, Handler!FirstWriter, Handler!SelectWriter,
      Handler!SelectDone, Handler!SelectDefault, Handler!DrainWriterCh, Handler!SkipSlot,
      Handler!FailSlot, Handler!EndCatchUp, Handler!Store, Handler!StartCatchUp,
      Handler!DeliverError, Handler!Handler, Handler!Client, Handler!HandleHttp, Handler!Wait,
      Handler!Stall, Handler!Resume, Handler!Drop, Handler!SetConn, Handler!vars
<1>3. QED
  BY <1>1, <1>2

(* Only the pump's Read shows anything. *)
LEMMA ShownByRead ==
  ASSUME [PipeNext]_pipeVars
  PROVE  shown' = shown \/ (Handler!Read /\ ReadMerged)
<1>1. ASSUME NEW n \in Nodes, NodeLogs(n) PROVE shown' = shown
  BY <1>1 DEF NodeLogs, MixReader, Transform, Decode, DecodeError, Encode, Announce, WriteEvent,
              WriteEventError, MixScanner, BeginRead, ReadFails, ReadPiece, WriteLine,
              nodeVars, readerVars
<1>2. Outside \/ PumpStep \/ UNCHANGED pipeVars => shown' = shown
  BY DEF Outside, PumpStep, MixerRests, mixVars, pipeVars, vars
<1>3. QED
  BY <1>1, <1>2 DEF PipeNext, ReadChunk

LEMMA StartsWithViewerStep ==
  ASSUME Handler!TypeOK, StartsWithViewer, [PipeNext]_pipeVars
  PROVE  StartsWithViewer'
<1>1. [Handler!Next]_(Handler!vars)
  BY HandlerSteps
<1>2. wch' # <<>> \/ pc' # "first" => \E c \in Clients : Attached(c)'
  BY <1>1, StartStep, StaysAttached DEF StartsWithViewer
<1>3. ASSUME pc' = "first" PROVE \A n \in Nodes, src \in Sources : shown'[n][src] = 0
  <2>1. pc = "first"
    BY <1>1, <1>3, StartStep
  <2>2. ~Handler!Read
    BY <2>1 DEF Handler!Read
  <2>3. shown' = shown
    BY <2>2, ShownByRead
  <2>4. QED
    BY <2>1, <2>3 DEF StartsWithViewer
<1>4. QED
  BY <1>2, <1>3 DEF StartsWithViewer

LEMMA SameTypes == HandlerProofs!IInv => Handler!TypeOK
BY DEF HandlerProofs!IInv, HandlerProofs!TypeOK, Handler!TypeOK, HandlerProofs!HandlerStates,
       Handler!HandlerStates, HandlerProofs!ConnStates, Handler!ConnStates,
       HandlerProofs!PumpStates, Handler!PumpStates, HandlerProofs!Slots, Handler!Slots

(* logs.go:42: until a viewer has queued, nothing is shown, and therefore a node *)
(* gets rid of one line at most, however many events its daemon has.             *)
THEOREM OneLineBeforeViewerAlways == PipeSpec => []OneLineBeforeViewer
<1>1. PipeInit => StartsWithViewer
  BY DEF PipeInit, Init, Handler!Init, StartsWithViewer
<1>2. HandlerProofs!IInv /\ StartsWithViewer /\ [PipeNext]_pipeVars => StartsWithViewer'
  BY SameTypes, StartsWithViewerStep
<1>3. IInv /\ StartsWithViewer => OneLineBeforeViewer
  <2> SUFFICES ASSUME IInv, StartsWithViewer, \A c \in Clients : hs[c] \in {"idle", "sending"},
                      NEW n \in Nodes
               PROVE  accepted[n]["transform"] + accepted[n]["announce"] <= 1
    BY DEF OneLineBeforeViewer
  <2>1. \A src \in Sources : shown[n][src] = 0
    BY DEF StartsWithViewer, Attached
  <2>2. NodeFits(n) /\ TypeOK /\ ReaderFits
    BY DEF IInv
  <2>3. Quiet(n) \/ \E src \in Sources : Behind(n, src)
    <3>1. CASE spc[n] = "write"
      BY <2>2, <3>1 DEF NodeFits, ScannerFits, Collected
    <3>2. CASE spc[n] = "writing"
      <4>1. apipe.owner = n /\ n # Nil
        BY <2>2, <3>2, MixAssumption DEF NodeFits, ScannerFits
      <4>2. QED
        BY <2>2, <4>1 DEF ReaderFits
    <3>3. QED
      BY <2>2, <3>1, <3>2 DEF NodeFits, ScannerFits, TypeOK
  <2>4. /\ accepted[n]["transform"] \in Nat /\ accepted[n]["announce"] \in Nat
        /\ "transform" \in Sources /\ "announce" \in Sources
    BY <2>2, Counts
  <2>5. \E src \in Sources : \A other \in Sources \ {src} :
          accepted[n][src] <= 1 /\ accepted[n][other] = 0
    BY <2>1, <2>3, <2>4 DEF Quiet, Behind
  <2>6. QED
    BY <2>4, <2>5 DEF Sources
<1>4. QED
  BY <1>1, <1>2, <1>3, HandlerInvariant, MixerInvariant, PTL DEF PipeSpec

-----------------------------------------------------------------------------
(* What is in the chunks *)

(* All chunks read are one text of whole lines, up to where the reader is.       *)
LogFits ==
  /\ log \in Seq(Seq(Units)) /\ Len(log) = last
  /\ \A k \in 1 .. Len(log) :
       /\ log[k] # <<>> /\ Joined(log[k])
       /\ k < Len(log) => Follows(log[k][Len(log[k])], log[k + 1][1])
  /\ log = <<>> => tail = <<>>
  /\ log # <<>> => log[1][1].at = 1
  /\ log # <<>> =>
       LET final == log[Len(log)][Len(log[Len(log)])] IN
       IF tail = <<>> THEN final.at = final.len ELSE final = tail[Len(tail)]

(* A Read takes m units of line num of the source, after the first k of its len  *)
(* units, and the line is shown when these are the last.                         *)
Takes(n, src, num, len, k, m) ==
  LET line == Line(n, src, num, len)
      piece == Chunk(apipe, ReadBuf)
  IN
  /\ num = shown[n][src] + 1
  /\ k \in 0 .. len - 1 /\ m \in 1 .. len - k
  /\ IsCut(tail, line, 0, k) /\ IsCut(piece, line, k, k + m)
  /\ IF k + m = len
       THEN tail' = <<>> /\ shown' = [shown EXCEPT ![n][src] = num]
       ELSE tail' = tail \o piece /\ shown' = shown

LEMMA ReadTakes ==
  ASSUME IInv, ReadMerged
  PROVE  \E n \in Nodes, src \in Sources, num \in 1 .. MaxLines, len \in 1 .. MaxLen :
           \E k, m \in Nat : Takes(n, src, num, len, k, m)
<1> DEFINE piece == Chunk(apipe, ReadBuf)
<1> USE MixAssumption
<1>0. TypeOK /\ ReaderFits
  BY DEF IInv
<1>1. apipe.rest # <<>> /\ tail' = IF EndsLine(piece) THEN <<>> ELSE tail \o piece
  BY DEF ReadMerged
<1>2. PICK n \in Nodes, src \in Sources :
        /\ apipe.owner = n /\ Behind(n, src)
        /\ \/ /\ Len(apipe.rest) <= ReadBuf
              /\ shown' = [shown EXCEPT ![n][src] = shown[n][src] + 1]
           \/ ~(Len(apipe.rest) <= ReadBuf) /\ shown' = shown
  BY MergedRead
<1>3. PICK other \in Sources :
        Behind(n, other) /\ Split(tail, apipe.rest, n, other, accepted[n][other])
  BY <1>0, <1>1, <1>2 DEF ReaderFits
<1>4. other = src
  BY <1>0, <1>2, <1>3, Counts DEF Behind
<1>5. PICK num \in 1 .. MaxLines : num = accepted[n][src] /\ num = shown[n][src] + 1
  BY <1>0, <1>2, Counts DEF Behind
<1>6. PICK len \in 1 .. MaxLen :
        \E k \in 0 .. len - 1 :
          /\ IsCut(tail, Line(n, src, num, len), 0, k)
          /\ IsCut(apipe.rest, Line(n, src, num, len), k, len)
  BY <1>3, <1>4, <1>5 DEF Split
<1>7. PICK k \in 0 .. len - 1 :
        /\ IsCut(tail, Line(n, src, num, len), 0, k)
        /\ IsCut(apipe.rest, Line(n, src, num, len), k, len)
  BY <1>6
<1> DEFINE m == Smaller(ReadBuf, Len(apipe.rest))
<1>8. /\ k \in Nat /\ m \in Nat /\ len \in Nat /\ m \in 1 .. len - k /\ k + m \in Nat
      /\ k < k + m /\ k + m <= len
      /\ (Len(apipe.rest) <= ReadBuf) <=> (k + m = len)
  BY <1>7 DEF IsCut, Smaller
<1>9. IsCut(piece, Line(n, src, num, len), k, k + m)
  <2> DEFINE line == Line(n, src, num, len)
  <2>1. IsCut(apipe.rest, line, k, len) /\ k \in Nat /\ len \in Nat
    BY <1>7, <1>8
  <2>2. piece = SubSeq(apipe.rest, 1, m)
    BY DEF Chunk
  <2>3. k < len /\ m \in 1 .. len - k
    BY <1>8
  <2> HIDE DEF line, m, piece
  <2>4. IsCut(SubSeq(apipe.rest, 1, m), line, k, k + m)
    BY <2>1, <2>3, CutTwo
  <2>5. QED
    BY <2>2, <2>4 DEF line
<1> HIDE DEF piece, m
<1>10. EndsLine(piece) <=> k + m = len
  BY <1>8, <1>9, CutEnds
<1>11. IF k + m = len
         THEN tail' = <<>> /\ shown' = [shown EXCEPT ![n][src] = num]
         ELSE tail' = tail \o piece /\ shown' = shown
  BY <1>1, <1>2, <1>5, <1>8, <1>10
<1>12. Takes(n, src, num, len, k, m)
  BY <1>5, <1>7, <1>8, <1>9, <1>11 DEF Takes, piece
<1>13. QED
  BY <1>8, <1>12

(* The units of a cut are those of the line, from where it is cut. *)
LEMMA CutUnits ==
  ASSUME NEW n \in Nodes, NEW src \in Sources, NEW num \in 1 .. MaxLines,
         NEW len \in 1 .. MaxLen, NEW from \in Nat, NEW to \in Nat, from <= to, to <= len,
         NEW s, IsCut(s, Line(n, src, num, len), from, to)
  PROVE  /\ s \in Seq(Units) /\ Len(s) = to - from
         /\ \A i \in 1 .. to - from :
              s[i] = [node |-> n, src |-> src, num |-> num, at |-> from + i, len |-> len]
<1> DEFINE line == Line(n, src, num, len)
           unit(i) == [node |-> n, src |-> src, num |-> num, at |-> i, len |-> len]
<1>1. \A i \in 1 .. len : line[i] = unit(i)
  BY LineUnits
<1>2. \A i \in 1 .. to - from : from + i \in 1 .. len
  BY MixAssumption
<1> HIDE DEF line
<1>3. s \in Seq(Units) /\ Len(s) = to - from /\ \A i \in 1 .. to - from : s[i] = line[from + i]
  BY DEF IsCut, line
<1> HIDE DEF unit
<1>4. \A i \in 1 .. to - from : s[i] = unit(from + i)
  BY <1>1, <1>2, <1>3
<1>5. QED
  BY <1>3, <1>4 DEF unit

(* What a Read of the merged log takes are the next units of the line that the   *)
(* reader is in, or the first ones of a line if it is in none.                   *)
LEMMA ReadGoesOn ==
  ASSUME IInv, ReadMerged
  PROVE  LET piece == Chunk(apipe, ReadBuf) IN
         /\ piece \in Seq(Units) /\ piece # <<>> /\ Joined(piece)
         /\ tail # <<>> => /\ tail[Len(tail)].at < tail[Len(tail)].len
                           /\ Follows(tail[Len(tail)], piece[1])
         /\ tail = <<>> => piece[1].at = 1
         /\ tail' = <<>> => piece[Len(piece)].at = piece[Len(piece)].len
         /\ tail' # <<>> => tail'[Len(tail')] = piece[Len(piece)]
<1> DEFINE piece == Chunk(apipe, ReadBuf)
<1> USE MixAssumption
<1>1. PICK n \in Nodes, src \in Sources, num \in 1 .. MaxLines, len \in 1 .. MaxLen :
        \E k, m \in Nat : Takes(n, src, num, len, k, m)
  BY ReadTakes
<1>2. PICK k \in Nat, m \in Nat : Takes(n, src, num, len, k, m)
  BY <1>1
<1> DEFINE line == Line(n, src, num, len)
           unit(i) == [node |-> n, src |-> src, num |-> num, at |-> i, len |-> len]
<1> HIDE DEF piece
<1>5. /\ IsCut(tail, line, 0, k) /\ IsCut(piece, line, k, k + m)
      /\ k \in 0 .. len - 1 /\ m \in 1 .. len - k
      /\ tail' = IF k + m = len THEN <<>> ELSE tail \o piece
  BY <1>2 DEF Takes, piece
<1>6. /\ len \in Nat /\ k < len
      /\ k + m \in Nat /\ k <= k + m /\ k < k + m /\ k + m <= len
  BY <1>5
<1> HIDE DEF line
<1>9. piece \in Seq(Units) /\ Len(piece) = m /\ \A i \in 1 .. m : piece[i] = unit(k + i)
  <2>1. (k + m) - k = m
    BY <1>6
  <2>2. QED
    BY <1>5, <1>6, <2>1, CutUnits DEF line
<1>10. piece # <<>>
  BY <1>5, <1>6, <1>9, EmptySeq
<1>11. \A i \in 1 .. len - 1 : Follows(unit(i), unit(i + 1))
  BY <1>6 DEF Follows
<1> HIDE DEF unit
<1>12. Joined(piece)
  <2> SUFFICES ASSUME NEW i \in 1 .. m - 1 PROVE Follows(piece[i], piece[i + 1])
    BY <1>9 DEF Joined
  <2>1. k + i \in 1 .. len - 1 /\ i \in 1 .. m /\ i + 1 \in 1 .. m /\ k + (i + 1) = (k + i) + 1
    BY <1>6
  <2>2. QED
    BY <1>9, <1>11, <2>1
<1>13. tail \in Seq(Units) /\ Len(tail) = k /\ \A i \in 1 .. k : tail[i] = unit(i)
  <2>1. k - 0 = k /\ 0 <= k /\ k <= len /\ \A i \in 1 .. k : 0 + i = i
    BY <1>6
  <2>2. /\ tail \in Seq(Units) /\ Len(tail) = k - 0
        /\ \A i \in 1 .. k - 0 : tail[i] = unit(0 + i)
    BY <1>5, <2>1, CutUnits DEF line, unit
  <2>3. QED
    BY <2>1, <2>2
<1>14. ASSUME tail # <<>>
       PROVE  /\ tail[Len(tail)].at < tail[Len(tail)].len
              /\ Follows(tail[Len(tail)], piece[1])
  <2>1. k \in 1 .. k /\ k \in 1 .. len - 1
    <3>1. k # 0
      BY <1>13, <1>14, EmptySeq
    <3>2. QED
      BY <1>6, <3>1
  <2>2. tail[Len(tail)] = unit(k) /\ piece[1] = unit(k + 1)
    BY <1>6, <1>9, <1>13, <2>1
  <2>3. unit(k).at = k /\ unit(k).len = len
    BY DEF unit
  <2>4. QED
    BY <1>6, <1>11, <2>1, <2>2, <2>3
<1>15. ASSUME tail = <<>> PROVE piece[1].at = 1
  <2>1. k = 0
    BY <1>13, <1>15, EmptySeq
  <2>2. piece[1] = unit(1)
    BY <1>6, <1>9, <2>1
  <2>3. QED
    BY <2>2 DEF unit
<1>17. ASSUME tail' = <<>> PROVE piece[Len(piece)].at = piece[Len(piece)].len
  <2>1. k + m = len
    <3>1. SUFFICES tail \o piece # <<>>
      BY <1>5, <1>17
    <3>2. Len(tail \o piece) = k + m
      BY <1>9, <1>13, ConcatProperties
    <3>3. QED
      BY <1>6, <3>2, EmptySeq
  <2>2. m \in 1 .. m /\ piece[m] = unit(len)
    BY <1>5, <1>9, <2>1
  <2>3. QED
    BY <1>9, <2>2 DEF unit
<1>18. ASSUME tail' # <<>> PROVE tail'[Len(tail')] = piece[Len(piece)]
  <2>1. tail' = tail \o piece
    BY <1>5, <1>18
  <2>2. Len(tail \o piece) = k + m /\ (tail \o piece)[k + m] = piece[m]
    <3>1. k + m \in 1 .. k + m /\ ~(k + m <= k) /\ (k + m) - k = m
      BY <1>6
    <3>2. /\ Len(tail \o piece) = k + m
          /\ \A i \in 1 .. k + m :
               (tail \o piece)[i] = IF i <= k THEN tail[i] ELSE piece[i - k]
      <4>1. Len(tail) = k /\ Len(piece) = m /\ tail \in Seq(Units) /\ piece \in Seq(Units)
        BY <1>9, <1>13
      <4>2. /\ Len(tail \o piece) = Len(tail) + Len(piece)
            /\ \A i \in 1 .. Len(tail) + Len(piece) :
                 (tail \o piece)[i] = IF i <= Len(tail) THEN tail[i] ELSE piece[i - Len(tail)]
        BY <4>1, ConcatProperties
      <4>3. QED
        BY <4>1, <4>2
    <3>3. QED
      BY <3>1, <3>2
  <2>3. QED
    BY <1>9, <2>1, <2>2
<1>19. QED
  BY <1>9, <1>10, <1>12, <1>14, <1>15, <1>17, <1>18 DEF piece

(* The log grows by Reads alone. *)
LEMMA OnlyReads ==
  ASSUME [PipeNext]_pipeVars, ~ReadChunk
  PROVE  UNCHANGED <<log, last, tail, shown>>
<1>1. ASSUME NEW n \in Nodes, NodeLogs(n) PROVE UNCHANGED <<log, last, tail, shown>>
  BY <1>1 DEF NodeLogs, MixReader, Transform, Decode, DecodeError, Encode, Announce, WriteEvent,
              WriteEventError, MixScanner, BeginRead, ReadFails, ReadPiece, WriteLine,
              nodeVars, readerVars, PumpRests, pumpVars
<1>2. PumpStep => UNCHANGED last
  BY DEF PumpStep, Handler!Control,
    Handler!WriteSlot, Handler!Deliver, Handler!FirstWriter, Handler!SelectWriter,
    Handler!SelectDone, Handler!SelectDefault, Handler!DrainWriterCh, Handler!SkipSlot,
    Handler!FailSlot, Handler!EndCatchUp, Handler!Store, Handler!StartCatchUp,
    Handler!DeliverError
<1>3. Outside => UNCHANGED last
  BY DEF Outside, Handler!Handler, Handler!Client, Handler!HandleHttp, Handler!AddWriter,
    Handler!Wait, Handler!Stall, Handler!Resume, Handler!Drop, Handler!SetConn
<1>4. Outside \/ PumpStep => UNCHANGED <<log, tail, shown>>
  BY DEF Outside, PumpStep, MixerRests, mixVars, vars
<1>5. UNCHANGED pipeVars => UNCHANGED <<log, last, tail, shown>>
  BY DEF pipeVars, mixVars, pumpVars, vars
<1>6. QED
  BY <1>1, <1>2, <1>3, <1>4, <1>5 DEF PipeNext

LEMMA LogFitsStep ==
  ASSUME IInv, LogFits, last \in Nat, [PipeNext]_pipeVars
  PROVE  LogFits'
<1>1. ASSUME ReadChunk PROVE LogFits'
  <2> DEFINE piece == Chunk(apipe, ReadBuf)
             k == Len(log)
  <2>1. log' = Append(log, piece) /\ last' = last + 1 /\ ReadMerged
    BY <1>1 DEF ReadChunk, Handler!Read
  <2>2. /\ piece \in Seq(Units) /\ piece # <<>> /\ Joined(piece)
        /\ tail # <<>> => /\ tail[Len(tail)].at < tail[Len(tail)].len
                          /\ Follows(tail[Len(tail)], piece[1])
        /\ tail = <<>> => piece[1].at = 1
        /\ tail' = <<>> => piece[Len(piece)].at = piece[Len(piece)].len
        /\ tail' # <<>> => tail'[Len(tail')] = piece[Len(piece)]
    BY <2>1, ReadGoesOn
  <2> HIDE DEF piece
  <2>3. log \in Seq(Seq(Units)) /\ k \in Nat /\ k = last
    BY DEF LogFits
  <2>4. /\ log' \in Seq(Seq(Units)) /\ Len(log') = k + 1
        /\ \A i \in 1 .. k : log'[i] = log[i]
        /\ log'[k + 1] = piece
    BY <2>1, <2>2, <2>3, AppendProperties
  <2>5. ASSUME k >= 1 PROVE Follows(log[k][Len(log[k])], piece[1])
    <3> DEFINE final == log[k][Len(log[k])]
    <3>1. log # <<>>
      BY <2>5, EmptySeq
    <3>2. IF tail = <<>> THEN final.at = final.len ELSE final = tail[Len(tail)]
      BY <3>1 DEF LogFits
    <3>3. CASE tail # <<>>
      BY <2>2, <3>2, <3>3
    <3>4. CASE tail = <<>>
      <4> HIDE DEF final
      <4>1. final.at = final.len /\ piece[1].at = 1
        BY <2>2, <3>2, <3>4
      <4>2. final.at \in Nat
        <5>1. k \in 1 .. k /\ log[k] \in Seq(Units) /\ log[k] # <<>>
          BY <2>3, <2>5, ElementOfSeq DEF LogFits
        <5>2. final \in Units
          BY <5>1, EmptySeq DEF final
        <5>3. QED
          BY <5>2, MixAssumption DEF Units
      <4>3. ~(final.at < final.len)
        BY <4>1, <4>2
      <4>4. QED
        BY <4>1, <4>3 DEF Follows, final
    <3>5. QED
      BY <3>3, <3>4
  <2>6. ASSUME NEW i \in 1 .. k + 1
        PROVE  /\ log'[i] # <<>> /\ Joined(log'[i])
               /\ i < k + 1 => Follows(log'[i][Len(log'[i])], log'[i + 1][1])
    <3>1. CASE i = k + 1
      BY <2>2, <2>3, <2>4, <3>1
    <3>2. CASE i = k
      <4>1. k \in 1 .. k /\ k >= 1
        BY <2>3, <3>2
      <4>2. log'[i] = log[k] /\ log'[i + 1] = piece
        BY <2>3, <2>4, <3>2, <4>1
      <4>3. log[k] # <<>> /\ Joined(log[k])
        BY <4>1 DEF LogFits
      <4>4. QED
        BY <2>5, <4>1, <4>2, <4>3
    <3>3. CASE i < k
      <4>1. i \in 1 .. k /\ i + 1 \in 1 .. k
        BY <2>3, <3>3
      <4>2. log'[i] = log[i] /\ log'[i + 1] = log[i + 1]
        BY <2>4, <4>1
      <4>3. QED
        BY <3>3, <4>1, <4>2 DEF LogFits
    <3>4. QED
      BY <2>3, <3>1, <3>2, <3>3
  <2>7. log' # <<>>
    BY <2>3, <2>4, EmptySeq
  <2>8. LET final == log'[Len(log')][Len(log'[Len(log')])] IN
        IF tail' = <<>> THEN final.at = final.len ELSE final = tail'[Len(tail')]
    BY <2>2, <2>4
  <2>9. Len(log') = last'
    BY <2>1, <2>3, <2>4
  <2>10. log'[1][1].at = 1
    <3>1. CASE log = <<>>
      <4>1. tail = <<>> /\ k = 0
        BY <3>1, EmptySeq DEF LogFits
      <4>2. QED
        BY <2>2, <2>4, <4>1
    <3>2. CASE log # <<>>
      <4>1. 1 \in 1 .. k
        BY <2>3, <3>2, EmptySeq
      <4>2. QED
        BY <2>4, <3>2, <4>1 DEF LogFits
    <3>3. QED
      BY <3>1, <3>2
  <2>11. QED
    BY <2>4, <2>6, <2>7, <2>8, <2>9, <2>10 DEF LogFits
<1>2. ASSUME ~ReadChunk PROVE UNCHANGED <<log, last, tail>>
  BY <1>2, OnlyReads
<1>3. UNCHANGED <<log, last, tail>> => LogFits'
  BY DEF LogFits, Joined
<1>4. QED
  BY <1>1, <1>2, <1>3

-----------------------------------------------------------------------------
(* The numbers of the lines in the chunks *)

(* The lines of the source of which the reader has the first unit. *)
Begun(n, src) ==
  IF tail # <<>> /\ tail[1].node = n /\ tail[1].src = src
    THEN shown[n][src] + 1 ELSE shown[n][src]

(* The lines begun have each begun in one chunk, in order, and no others have.   *)
Numbered(n, src) ==
  /\ \A i \in 1 .. Len(log), a \in Nat : Begins(log[i], n, src, a) => a <= Begun(n, src)
  /\ \A a \in 1 .. Begun(n, src) : \E i \in 1 .. Len(log) : Begins(log[i], n, src, a)
  /\ \A i, k \in 1 .. Len(log), a, b \in Nat :
       Begins(log[i], n, src, a) /\ Begins(log[k], n, src, b) => ((i < k) <=> (a < b))

AllNumbered == \A n \in Nodes, src \in Sources : Numbered(n, src)

(* A Read begins the next line of one source, or goes on with the line begun.    *)
LEMMA ReadBegins ==
  ASSUME IInv, ReadMerged, NEW n \in Nodes, NEW src \in Sources
  PROVE  LET piece == Chunk(apipe, ReadBuf) IN
         /\ Begun(n, src) \in Nat
         /\ \/ /\ Begun(n, src)' = Begun(n, src)
               /\ \A a \in Nat : ~Begins(piece, n, src, a)
            \/ /\ Begun(n, src)' = Begun(n, src) + 1
               /\ \A a \in Nat : Begins(piece, n, src, a) <=> a = Begun(n, src) + 1
<1> DEFINE piece == Chunk(apipe, ReadBuf)
<1> USE MixAssumption
<1>1. PICK here \in Nodes, from \in Sources, num \in 1 .. MaxLines, len \in 1 .. MaxLen :
        \E k, m \in Nat : Takes(here, from, num, len, k, m)
  BY ReadTakes
<1>2. PICK k \in Nat, m \in Nat : Takes(here, from, num, len, k, m)
  BY <1>1
<1> DEFINE line == Line(here, from, num, len)
           unit(i) == [node |-> here, src |-> from, num |-> num, at |-> i, len |-> len]
           same == n = here /\ src = from
<1> HIDE DEF piece
<1>3. /\ IsCut(tail, line, 0, k) /\ IsCut(piece, line, k, k + m)
      /\ num = shown[here][from] + 1
      /\ k \in 0 .. len - 1 /\ m \in 1 .. len - k
      /\ IF k + m = len
           THEN tail' = <<>> /\ shown' = [shown EXCEPT ![here][from] = num]
           ELSE tail' = tail \o piece /\ shown' = shown
  BY <1>2 DEF Takes, piece
<1>4. /\ len \in Nat /\ k < len /\ k <= len
      /\ k + m \in Nat /\ k <= k + m /\ k < k + m /\ k + m <= len
  BY <1>3
<1> HIDE DEF line
<1>5. piece \in Seq(Units) /\ Len(piece) = m /\ \A i \in 1 .. m : piece[i] = unit(k + i)
  <2> HIDE DEF unit
  <2>1. PICK to : to = k + m
    OBVIOUS
  <2>2. to - k = m
    BY <1>4, <2>1
  <2>3. IsCut(piece, line, k, to) /\ to \in Nat /\ k <= to /\ to <= len
    BY <1>3, <1>4, <2>1
  <2>4. /\ piece \in Seq(Units) /\ Len(piece) = to - k
        /\ \A i \in 1 .. to - k : piece[i] = unit(k + i)
    BY <2>3, CutUnits DEF line, unit
  <2>5. QED
    BY <2>2, <2>4
<1>6. tail \in Seq(Units) /\ Len(tail) = k /\ \A i \in 1 .. k : tail[i] = unit(i)
  <2>1. k - 0 = k /\ 0 <= k /\ \A i \in 1 .. k : 0 + i = i
    BY <1>4
  <2> HIDE DEF unit
  <2>2. IsCut(tail, line, 0, k) /\ 0 \in Nat /\ 0 <= k /\ k <= len
    BY <1>3, <1>4, <2>1
  <2>3. /\ tail \in Seq(Units) /\ Len(tail) = k - 0
        /\ \A i \in 1 .. k - 0 : tail[i] = unit(0 + i)
    BY <2>2, CutUnits DEF line, unit
  <2>4. QED
    BY <2>1, <2>3
<1>7. /\ shown \in [Nodes -> [Sources -> 0 .. MaxLines]] /\ shown[n][src] \in Nat
      /\ shown[here][from] \in Nat
  <2>1. TypeOK
    BY DEF IInv
  <2>2. QED
    BY <2>1, Counts DEF TypeOK
<1>8. tail = <<>> <=> k = 0
  BY <1>6, EmptySeq
<1>9. tail # <<>> => tail[1].node = here /\ tail[1].src = from
  <2>1. tail # <<>> => tail[1] = unit(1)
    BY <1>6, <1>8
  <2>2. QED
    BY <2>1
<1>10. Begun(n, src) = IF k # 0 /\ same THEN shown[n][src] + 1 ELSE shown[n][src]
  BY <1>8, <1>9 DEF Begun
<1>11. Begun(n, src)' = IF same THEN shown[n][src] + 1 ELSE shown[n][src]
  <2>1. CASE k + m = len
    <3>1. tail' = <<>> /\ shown' = [shown EXCEPT ![here][from] = num]
      BY <1>3, <2>1
    <3>2. shown'[n][src] = IF same THEN num ELSE shown[n][src]
      BY <1>7, <3>1
    <3>3. QED
      BY <1>3, <3>1, <3>2 DEF Begun
  <2>2. CASE k + m # len
    <3>1. tail' = tail \o piece /\ shown' = shown
      BY <1>3, <2>2
    <3>2. tail' # <<>> /\ tail'[1] = unit(1)
      <4>1. /\ Len(tail \o piece) = k + m
            /\ (tail \o piece)[1] = IF 1 <= k THEN tail[1] ELSE piece[1 - k]
        <5>1. /\ Len(tail \o piece) = Len(tail) + Len(piece)
              /\ \A i \in 1 .. Len(tail) + Len(piece) :
                   (tail \o piece)[i] = IF i <= Len(tail) THEN tail[i] ELSE piece[i - Len(tail)]
          BY <1>5, <1>6, ConcatProperties
        <5>2. 1 \in 1 .. k + m
          BY <1>4
        <5>3. QED
          BY <1>5, <1>6, <5>1, <5>2
      <4>2. tail \o piece # <<>>
        BY <1>4, <4>1, EmptySeq
      <4>3. CASE 1 <= k
        BY <1>4, <1>6, <3>1, <4>1, <4>2, <4>3
      <4>4. CASE ~(1 <= k)
        <5>1. k = 0 /\ 1 - k = 1 /\ k + 1 = 1 /\ 1 \in 1 .. m
          BY <1>3, <4>4
        <5>2. QED
          BY <1>5, <3>1, <4>1, <4>2, <4>4, <5>1
      <4>5. QED
        BY <4>3, <4>4
    <3>3. tail'[1].node = here /\ tail'[1].src = from
      BY <3>2
    <3>4. QED
      BY <3>1, <3>2, <3>3 DEF Begun
  <2>3. QED
    BY <2>1, <2>2
<1>12. ASSUME NEW a \in Nat
       PROVE  Begins(piece, n, src, a) <=> k = 0 /\ same /\ a = num
  <2>1. \A i \in 1 .. m : /\ piece[i].at = k + i /\ piece[i].node = here
                          /\ piece[i].src = from /\ piece[i].num = num
    BY <1>5
  <2>2. \A i \in 1 .. m : k + i = 1 <=> i = 1 /\ k = 0
    OBVIOUS
  <2>3. 1 \in 1 .. m
    BY <1>3
  <2>4. QED
    BY <1>5, <2>1, <2>2, <2>3 DEF Begins
<1>13. QED
  BY <1>3, <1>7, <1>10, <1>11, <1>12 DEF piece

LEMMA NumberedStep ==
  ASSUME IInv, LogFits, AllNumbered, last \in Nat, [PipeNext]_pipeVars
  PROVE  AllNumbered'
<1>1. ASSUME ReadChunk, NEW n \in Nodes, NEW src \in Sources PROVE Numbered(n, src)'
  <2> DEFINE piece == Chunk(apipe, ReadBuf)
             k == Len(log)
             b == Begun(n, src)
  <2>1. log' = Append(log, piece) /\ ReadMerged
    BY <1>1 DEF ReadChunk
  <2>2. /\ b \in Nat
        /\ \/ /\ Begun(n, src)' = b
              /\ \A a \in Nat : ~Begins(piece, n, src, a)
           \/ /\ Begun(n, src)' = b + 1
              /\ \A a \in Nat : Begins(piece, n, src, a) <=> a = b + 1
    BY <2>1, ReadBegins
  <2>3. log \in Seq(Seq(Units)) /\ k \in Nat /\ piece \in Seq(Units)
    BY <2>1, ReadGoesOn DEF LogFits
  <2> HIDE DEF piece
  <2>4. /\ Len(log') = k + 1 /\ log'[k + 1] = piece
        /\ \A i \in 1 .. k : log'[i] = log[i]
    BY <2>1, <2>3, AppendProperties
  <2>5. \A i \in 1 .. k + 1 : i \in 1 .. k \/ i = k + 1
    BY <2>3
  <2>6. /\ \A i \in 1 .. k, a \in Nat : Begins(log[i], n, src, a) => a <= b
        /\ \A a \in 1 .. b : \E i \in 1 .. k : Begins(log[i], n, src, a)
        /\ \A i, j \in 1 .. k, a, e \in Nat :
             Begins(log[i], n, src, a) /\ Begins(log[j], n, src, e) => ((i < j) <=> (a < e))
    BY DEF AllNumbered, Numbered
  <2> HIDE DEF k, b
  <2>7. ASSUME NEW i \in 1 .. k + 1, NEW a \in Nat, Begins(log'[i], n, src, a)
        PROVE  \/ i \in 1 .. k /\ Begins(log[i], n, src, a) /\ a <= b
               \/ i = k + 1 /\ a = b + 1 /\ Begun(n, src)' = b + 1
    BY <2>2, <2>4, <2>5, <2>6, <2>7
  <2>8. ASSUME NEW a \in 1 .. Begun(n, src)'
        PROVE  \E i \in 1 .. k + 1 : Begins(log'[i], n, src, a)
    <3>1. CASE a \in 1 .. b
      <4>1. PICK i \in 1 .. k : Begins(log[i], n, src, a)
        BY <2>6, <3>1
      <4>2. i \in 1 .. k + 1 /\ log'[i] = log[i]
        BY <2>3, <2>4
      <4>3. QED
        BY <4>1, <4>2
    <3>2. CASE a \notin 1 .. b
      <4>1. a = b + 1 /\ Begun(n, src)' = b + 1 /\ a \in Nat
        BY <2>2, <2>8, <3>2
      <4>2. b + 1 # b
        BY <2>2
      <4>3. Begins(piece, n, src, a)
        BY <2>2, <4>1, <4>2
      <4>4. k + 1 \in 1 .. k + 1
        BY <2>3
      <4>5. QED
        BY <2>4, <4>3, <4>4
    <3>3. QED
      BY <3>1, <3>2
  <2>9. ASSUME NEW i \in 1 .. k + 1, NEW j \in 1 .. k + 1, NEW a \in Nat, NEW e \in Nat,
               Begins(log'[i], n, src, a), Begins(log'[j], n, src, e)
        PROVE  (i < j) <=> (a < e)
    <3>1. \/ i \in 1 .. k /\ Begins(log[i], n, src, a) /\ a <= b
          \/ i = k + 1 /\ a = b + 1
      BY <2>7, <2>9
    <3>2. \/ j \in 1 .. k /\ Begins(log[j], n, src, e) /\ e <= b
          \/ j = k + 1 /\ e = b + 1
      BY <2>7, <2>9
    <3>3. CASE i = k + 1 \/ j = k + 1
      BY <2>2, <2>3, <3>1, <3>2, <3>3
    <3>4. CASE i # k + 1 /\ j # k + 1
      BY <2>6, <3>1, <3>2, <3>4
    <3>5. QED
      BY <3>3, <3>4
  <2>10. \A i \in 1 .. k + 1, a \in Nat : Begins(log'[i], n, src, a) => a <= Begun(n, src)'
    BY <2>2, <2>7
  <2>11. QED
    BY <2>4, <2>8, <2>9, <2>10 DEF Numbered, k
<1>2. ASSUME ~ReadChunk PROVE AllNumbered'
  <2>1. UNCHANGED <<log, tail, shown>>
    BY <1>2, OnlyReads
  <2>2. ASSUME NEW n \in Nodes, NEW src \in Sources PROVE Numbered(n, src)'
    <3>1. Begun(n, src)' = Begun(n, src)
      BY <2>1 DEF Begun
    <3>2. Numbered(n, src)
      BY DEF AllNumbered
    <3>3. QED
      BY <2>1, <3>1, <3>2 DEF Numbered
  <2>3. QED
    BY <2>2 DEF AllNumbered
<1>3. QED
  BY <1>1, <1>2 DEF AllNumbered

(* Chunks that follow on each other leave no line out. *)
LEMMA NumbersRead ==
  ASSUME HandlerProofs!IInv, IInv, LogFits, AllNumbered, HandlerProofs!Consecutive,
         NEW c \in Clients, NEW n \in Nodes, NEW src \in Sources
  PROVE  NoneLeftOut(c, n, src)
<1> USE MixAssumption
<1> SUFFICES ASSUME NEW i \in 1 .. Len(got[c]), NEW k \in 1 .. Len(got[c]),
                    NEW a \in 1 .. MaxLines, NEW b \in 1 .. MaxLines,
                    Begins(log[got[c][i]], n, src, a), Begins(log[got[c][k]], n, src, b)
             PROVE  /\ (i < k) <=> (a < b)
                    /\ \A num \in a .. b :
                         \E j \in i .. k : Begins(log[got[c][j]], n, src, num)
  BY DEF NoneLeftOut
<1>1. got[c] \in Seq(Nat) /\ last \in Nat /\ Len(log) = last
  BY SameTypes DEF Handler!TypeOK, LogFits
<1>2. \A j \in 1 .. Len(got[c]) : got[c][j] \in 1 .. last /\ got[c][j] = got[c][1] + (j - 1)
  BY DEF HandlerProofs!Consecutive
<1> DEFINE first == got[c][1]
           x == got[c][i]
           y == got[c][k]
<1>3. 1 \in 1 .. Len(got[c])
  BY <1>1
<1>4. first \in Nat /\ x \in 1 .. last /\ y \in 1 .. last
      /\ x = first + (i - 1) /\ y = first + (k - 1)
  <2>1. \A j \in 1 .. Len(got[c]) : got[c][j] \in 1 .. last
    BY <1>2
  <2>2. first \in 1 .. last /\ x \in 1 .. last /\ y \in 1 .. last
    BY <1>3, <2>1
  <2>3. x = first + (i - 1) /\ y = first + (k - 1)
    BY <1>2
  <2> HIDE DEF first, x, y
  <2>4. QED
    BY <1>1, <2>2, <2>3
<1>5. /\ \A x1 \in 1 .. last, d \in Nat : Begins(log[x1], n, src, d) => d <= Begun(n, src)
      /\ \A d \in 1 .. Begun(n, src) : \E x1 \in 1 .. last : Begins(log[x1], n, src, d)
      /\ \A x1, x2 \in 1 .. last, d, e \in Nat :
           Begins(log[x1], n, src, d) /\ Begins(log[x2], n, src, e)
             => ((x1 < x2) <=> (d < e))
  <2>1. Numbered(n, src)
    BY DEF AllNumbered
  <2>2. QED
    BY <1>1, <2>1 DEF Numbered
<1>6. Begins(log[x], n, src, a) /\ Begins(log[y], n, src, b)
  OBVIOUS
<1>7. a \in Nat /\ b \in Nat
  OBVIOUS
<1> HIDE DEF first, x, y
<1>8. (x < y) <=> (a < b)
  BY <1>4, <1>5, <1>6, <1>7
<1>9. (i < k) <=> (a < b)
  BY <1>1, <1>4, <1>8
<1>10. ASSUME NEW num \in a .. b
       PROVE  \E j \in i .. k : Begins(log[got[c][j]], n, src, num)
  <2>1. b <= Begun(n, src)
    BY <1>4, <1>5, <1>6, <1>7
  <2>2. num \in Nat /\ num >= 1 /\ num >= a /\ num <= b
    BY <1>7
  <2>3. PICK z \in 1 .. last : Begins(log[z], n, src, num)
    <3>1. shown[n][src] \in Nat
      BY Counts DEF IInv
    <3>2. Begun(n, src) \in Nat
      BY <3>1 DEF Begun
    <3>3. num \in 1 .. Begun(n, src)
      BY <1>7, <2>1, <2>2, <3>2
    <3>4. QED
      BY <1>5, <3>3
  <2>4. (z < x) <=> (num < a)
    BY <1>4, <1>5, <1>6, <1>7, <2>2, <2>3
  <2>5. (y < z) <=> (b < num)
    BY <1>4, <1>5, <1>6, <1>7, <2>2, <2>3
  <2>6. x <= z /\ z <= y
    BY <1>1, <1>4, <1>7, <2>2, <2>4, <2>5
  <2> DEFINE j == z - first + 1
  <2>7. j \in i .. k /\ j \in 1 .. Len(got[c]) /\ first + (j - 1) = z
    BY <1>1, <1>4, <2>6
  <2>8. got[c][j] = z
    BY <1>2, <2>7 DEF first
  <2>9. QED
    BY <2>3, <2>7, <2>8
<1>11. QED
  BY <1>9, <1>10

-----------------------------------------------------------------------------
LEMMA ChunksKept == PipeSpec => [](HandlerProofs!Consecutive /\ HandlerProofs!FromStart)
<1>1. HandlerProofs!Spec => [](HandlerProofs!Consecutive /\ HandlerProofs!FromStart)
  BY Assumed, HandlerProofs!ConsecutiveAlways, HandlerProofs!FromStartAlways, PTL
<1>2. QED
  BY <1>1, HandlerInside, SameSpec, PTL

(* A viewer reads lines: it reads on in a line or goes from one line to the next, *)
(* never from the middle of one to another, and gets the lines of each source in  *)
(* order with none left out.  This holds across the Reads that cut the lines,     *)
(* from chunk to chunk, and from the ring to the live chunks.                     *)
THEOREM ViewersReadLinesAlways == PipeSpec => []ViewersReadLines
<1>1. PipeInit => LogFits
  <2> SUFFICES ASSUME PipeInit PROVE LogFits
    OBVIOUS
  <2>1. log = <<>> /\ last = 0 /\ tail = <<>>
    BY DEF PipeInit, Init, Handler!Init
  <2>2. log \in Seq(Seq(Units)) /\ Len(log) = 0 /\ 1 .. Len(log) = {}
    BY <2>1, EmptySeq
  <2>3. QED
    BY <2>1, <2>2 DEF LogFits
<1>2. HandlerProofs!IInv /\ IInv /\ LogFits /\ [PipeNext]_pipeVars => LogFits'
  <2>1. HandlerProofs!IInv => last \in Nat
    BY SameTypes DEF Handler!TypeOK
  <2>2. QED
    BY <2>1, LogFitsStep
<1>3. ASSUME HandlerProofs!IInv, LogFits, HandlerProofs!Consecutive, NEW c \in Clients,
             NEW i \in 1 .. Len(got[c])
      PROVE  LET chunk == log[got[c][i]] IN
             /\ chunk # <<>> /\ Joined(chunk)
             /\ i < Len(got[c]) => Follows(chunk[Len(chunk)], log[got[c][i + 1]][1])
  <2>1. got[c] \in Seq(Nat) /\ last \in Nat /\ Len(log) = last
    BY <1>3, SameTypes DEF Handler!TypeOK, LogFits
  <2> DEFINE k == got[c][i]
  <2>2. k \in 1 .. last /\ (i < Len(got[c]) => got[c][i + 1] = k + 1)
    <3>1. \A j \in 1 .. Len(got[c]) : got[c][j] \in 1 .. last /\ got[c][j] = got[c][1] + (j - 1)
      BY <1>3 DEF HandlerProofs!Consecutive
    <3>2. 1 \in 1 .. Len(got[c]) /\ (i < Len(got[c]) => i + 1 \in 1 .. Len(got[c]))
      BY <1>3, <2>1
    <3>3. got[c][1] \in Int /\ (i + 1) - 1 = (i - 1) + 1
      BY <2>1, <3>1, <3>2
    <3>4. ASSUME i < Len(got[c]) PROVE got[c][i + 1] = k + 1
      <4>1. got[c][i + 1] = got[c][1] + ((i + 1) - 1) /\ k = got[c][1] + (i - 1)
        BY <3>1, <3>2, <3>4
      <4>2. QED
        BY <3>3, <4>1
    <3>5. QED
      BY <3>1, <3>4
  <2>3. i < Len(got[c]) => k + 1 \in 1 .. last
    <3>1. i < Len(got[c]) => i + 1 \in 1 .. Len(got[c])
      BY <2>1
    <3>2. \A j \in 1 .. Len(got[c]) : got[c][j] \in 1 .. last
      BY <1>3 DEF HandlerProofs!Consecutive
    <3>3. QED
      BY <2>2, <3>1, <3>2
  <2> HIDE DEF k
  <2>4. /\ log[k] # <<>> /\ Joined(log[k])
        /\ k < last => Follows(log[k][Len(log[k])], log[k + 1][1])
    BY <1>3, <2>1, <2>2 DEF LogFits
  <2>5. i < Len(got[c]) => k < last
    BY <2>1, <2>2, <2>3
  <2>6. QED
    BY <2>2, <2>4, <2>5 DEF k
<1>4. ASSUME HandlerProofs!FromStart, HandlerProofs!IInv, HandlerProofs!Consecutive, LogFits,
             NEW c \in Clients, got[c] # <<>>, last <= LogBufferSize
      PROVE  log[got[c][1]][1].at = 1
  <2>1. got[c][1] = 1
    BY <1>4 DEF HandlerProofs!FromStart
  <2>2. got[c] \in Seq(Nat)
    BY <1>4, SameTypes DEF Handler!TypeOK
  <2>3. 1 \in 1 .. Len(got[c])
    BY <1>4, <2>2, EmptySeq
  <2>4. got[c][1] \in 1 .. last
    BY <1>4, <2>3 DEF HandlerProofs!Consecutive
  <2>5. log # <<>>
    BY <1>4, <2>1, <2>4, EmptySeq DEF LogFits
  <2>6. QED
    BY <1>4, <2>1, <2>5 DEF LogFits
<1>5. HandlerProofs!IInv /\ LogFits /\ HandlerProofs!Consecutive /\ HandlerProofs!FromStart
        => \A c \in Clients : ReadsOn(c)
  BY <1>3, <1>4 DEF ReadsOn
<1>6. PipeInit => AllNumbered
  <2> SUFFICES ASSUME PipeInit, NEW n \in Nodes, NEW src \in Sources PROVE Numbered(n, src)
    BY DEF AllNumbered
  <2>1. log = <<>> /\ tail = <<>> /\ shown[n][src] = 0
    BY DEF PipeInit, Init
  <2>2. 1 .. Len(log) = {} /\ 1 .. Begun(n, src) = {}
    BY <2>1, EmptySeq DEF Begun
  <2>3. QED
    BY <2>2 DEF Numbered
<1>7. HandlerProofs!IInv /\ IInv /\ LogFits /\ AllNumbered /\ [PipeNext]_pipeVars => AllNumbered'
  <2>1. HandlerProofs!IInv => last \in Nat
    BY SameTypes DEF Handler!TypeOK
  <2>2. QED
    BY <2>1, NumberedStep
<1>8. HandlerProofs!IInv /\ IInv /\ LogFits /\ AllNumbered /\ HandlerProofs!Consecutive
        /\ HandlerProofs!FromStart => ViewersReadLines
  BY <1>5, NumbersRead DEF ViewersReadLines
<1>9. QED
  BY <1>1, <1>2, <1>6, <1>7, <1>8, HandlerInvariant, MixerInvariant, ChunksKept, PTL
     DEF PipeSpec

-----------------------------------------------------------------------------
(* What LinesAreTaken and AnnouncementSeen rest on *)

(* In the program's run the pump never returns, and so never stops reading. *)
PumpLives == ctxDone = FALSE /\ pc # "done" /\ reading = TRUE

LEMMA PumpLivesAlways == PipeSpec => []PumpLives
<1>1. PipeInit => PumpLives
  BY DEF PipeInit, Init, Handler!Init, PumpLives
<1>2. ASSUME PumpLives, [PipeNext]_pipeVars PROVE PumpLives'
  <2> USE DEF PumpLives
  <2>1. ASSUME NEW n \in Nodes, NodeLogs(n) PROVE PumpLives'
    <3>1. UNCHANGED <<ctxDone, pc>>
      BY <2>1 DEF NodeLogs, PumpRests, pumpVars
    <3>2. reading' = reading
      BY <2>1 DEF NodeLogs, MixReader, Transform, Decode, DecodeError, Encode, Announce,
                  WriteEvent, WriteEventError, MixScanner, BeginRead, ReadFails, ReadPiece,
                  WriteLine, readerVars
    <3>3. QED
      BY <1>2, <3>1, <3>2
  <2>2. CASE ReadChunk
    BY <1>2, <2>2 DEF ReadChunk, Handler!Read, ReadMerged
  <2>3. CASE Outside
    <3>1. reading' = reading
      BY <2>3 DEF Outside, MixerRests, mixVars, vars
    <3>2. UNCHANGED <<ctxDone, pc>>
      BY <1>2, <2>3
      DEF Outside, Handler!Handler, Handler!HandleHttp, Handler!AddWriter, Handler!Wait,
          Handler!Client, Handler!Stall, Handler!Resume, Handler!Drop, Handler!SetConn
    <3>3. QED
      BY <1>2, <3>1, <3>2
  <2>4. CASE PumpStep
    <3>1. reading' = reading
      BY <2>4 DEF PumpStep, MixerRests, mixVars, vars
    <3>2. ctxDone' = ctxDone /\ pc' # "done"
      BY <1>2, <2>4
      DEF PumpStep, Handler!Control, Handler!FirstWriter, Handler!SelectWriter,
          Handler!SelectDone, Handler!SelectDefault, Handler!DrainWriterCh,
          Handler!SkipSlot, Handler!FailSlot, Handler!EndCatchUp, Handler!Store,
          Handler!StartCatchUp, Handler!DeliverError, Handler!WriteSlot, Handler!Deliver
    <3>3. QED
      BY <1>2, <3>1, <3>2
  <2>5. CASE UNCHANGED pipeVars
    BY <1>2, <2>5 DEF pipeVars, pumpVars, mixVars, vars
  <2>6. QED
    BY <1>2, <2>1, <2>2, <2>3, <2>4, <2>5 DEF PipeNext
<1>3. QED
  BY <1>1, <1>2, PTL DEF PipeSpec

(* The guards of the pump's steps, other than the number of chunks that a run is *)
(* bounded by.                                                                   *)
PumpProceeds ==
  \/ pc = "first" /\ wch # <<>>
  \/ pc = "read" /\ reading /\ apipe.rest # <<>>
  \/ HandlerProofs!Proceeds

(* Once a viewer has queued, a line on its way is held up by nothing but a viewer *)
(* that stalls: until the line is read, a goroutine of its node or the pump can  *)
(* go on.  No circle of waiting closes over the two pipes, the channel of the    *)
(* writers and the responses.                                                    *)
PipeNeverStuck ==
  (\E c \in Clients : Attached(c)) =>
    \A n \in Nodes :
      Busy(n) => Proceeds(n) \/ PumpProceeds \/ \E c \in Clients : HandlerProofs!HoldsUp(c)

(* From the node to the browser nothing but a stalled viewer holds a line up, for *)
(* any number of nodes and viewers.                                               *)
THEOREM PipeNeverStuckAlways == PipeSpec => []PipeNeverStuck
<1>1. PipeSpec => [](HandlerProofs!NeverBlocked /\ HandlerProofs!FirstIsQueued)
  <2>1. HandlerProofs!Spec => [](HandlerProofs!NeverBlocked /\ HandlerProofs!FirstIsQueued)
    BY Assumed, HandlerProofs!NeverBlockedAlways, HandlerProofs!FirstIsQueuedAlways, PTL
  <2>2. QED
    BY <2>1, HandlerInside, SameSpec, PTL
<1>2. PipeSpec => []NobodyStuck
  BY MixerInside, NobodyStuckAlways, PTL
<1>3. ASSUME HandlerProofs!IInv, HandlerProofs!NeverBlocked, HandlerProofs!FirstIsQueued,
             NobodyStuck, PumpLives
      PROVE  PipeNeverStuck
  <2> SUFFICES ASSUME NEW c \in Clients, Attached(c), NEW n \in Nodes, Busy(n), ~Proceeds(n)
               PROVE  PumpProceeds \/ \E d \in Clients : HandlerProofs!HoldsUp(d)
    BY DEF PipeNeverStuck
  <2>1. apipe.rest # <<>>
    BY <1>3 DEF NobodyStuck
  <2>2. CASE pc = "first"
    <3>1. c \in HandlerProofs!Queued
      BY <1>3, <2>2 DEF HandlerProofs!FirstIsQueued, Attached
    <3>2. wch # <<>>
      BY <3>1 DEF HandlerProofs!Queued, HandlerProofs!Members
    <3>3. QED
      BY <2>2, <3>2 DEF PumpProceeds
  <2>3. CASE pc = "read"
    BY <1>3, <2>1, <2>3 DEF PumpProceeds, PumpLives
  <2>4. CASE pc \notin {"first", "read"}
    <3>1. pc # "done"
      BY <1>3 DEF PumpLives
    <3>2. HandlerProofs!Proceeds \/ \E d \in ws \cup newWs : HandlerProofs!HoldsUp(d)
      BY <1>3, <2>4, <3>1 DEF HandlerProofs!NeverBlocked
    <3>3. ws \cup newWs \subseteq Clients
      BY <1>3 DEF HandlerProofs!IInv, HandlerProofs!TypeOK
    <3>4. QED
      BY <3>2, <3>3 DEF PumpProceeds
  <2>5. QED
    BY <2>2, <2>3, <2>4
<1>4. QED
  BY <1>1, <1>2, <1>3, HandlerInvariant, PumpLivesAlways, PTL
=============================================================================
