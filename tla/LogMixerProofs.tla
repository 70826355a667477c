---------------------------- MODULE LogMixerProofs ----------------------------
(* The proofs about LogMixer: its types, that no line is broken up, and that it  *)
(* implements LineMix, for every set of nodes, lines of any length, and Reads of *)
(* any size.                                                                     *)
EXTENDS LogMixer, SequenceTheorems, TLAPS

(* s is what is between the units number from and to of the line. *)
IsCut(s, line, from, to) ==
  /\ s \in Seq(Units) /\ Len(s) = to - from
  /\ \A i \in 1 .. to - from : s[i] = line[from + i]

(* A reader has what is begun, and the writer holds what is left, of one line.   *)
Split(begun, left, n, src, num) ==
  \E len \in 1 .. MaxLen : \E k \in 0 .. len - 1 :
    /\ IsCut(begun, Line(n, src, num, len), 0, k)
    /\ IsCut(left, Line(n, src, num, len), k, len)

(* The node's line from the source, and nothing else, is accepted and not shown. *)
Behind(n, src) ==
  /\ accepted[n][src] = shown[n][src] + 1
  /\ \A other \in Sources \ {src} : accepted[n][other] = shown[n][other]

(* Who writes to the pipe of a node has its lock. *)
WriterFits(n) ==
  /\ (npipe[n].owner = "transform") <=> (tpc[n] = "writing")
  /\ (npipe[n].owner = "announce") <=> (apc[n] = "writing")
  /\ npipe[n].owner = Nil => npipe[n].rest = <<>>
  /\ (tpc[n] = "off") <=> (spc[n] = "off")
  /\ (apc[n] = "off") <=> (spc[n] = "off")
  /\ (npipe[n].open = FALSE) <=> (tpc[n] = "stopped")

(* How many lines the sources still have. *)
LinesFit(n) ==
  /\ accepted[n]["transform"] + owed[n] <= MaxLines
  /\ tpc[n] \in {"encode", "writing"} => owed[n] >= 1
  /\ apc[n] = "announced" \/ accepted[n]["announce"] = 0
  /\ apc[n] = "announced" => accepted[n]["announce"] = 1

(* Every line that the node's sources had accepted is shown. *)
Quiet(n) == \A src \in Sources : accepted[n][src] = shown[n][src]

(* Of the line that is being written to the node's pipe, this is read already.   *)
Pending(n, begun) ==
  Split(begun, npipe[n].rest, n, npipe[n].owner, accepted[n][npipe[n].owner] + 1)

(* mixScanner has the node's last accepted line. *)
Collected(n) ==
  \E src \in Sources :
    /\ Behind(n, src)
    /\ \E len \in 1 .. MaxLen : IsCut(part[n], Line(n, src, accepted[n][src], len), 0, len)

(* What mixScanner has read, and has still to read, of a line. *)
ScannerFits(n) ==
  /\ spc[n] \in {"off", "read", "wait", "exit"} => Quiet(n)
  /\ spc[n] \in {"off", "writing"} => part[n] = <<>>
  /\ spc[n] \in {"read", "wait"} /\ npipe[n].owner # Nil => Pending(n, part[n])
  /\ spc[n] \in {"read", "wait"} /\ npipe[n].owner = Nil =>
       part[n] = <<>> \/ (npipe[n].open = FALSE /\ apc[n] = "failed")
  /\ spc[n] \in {"write", "writing"} /\ npipe[n].owner # Nil => Pending(n, <<>>)
  /\ spc[n] = "write" => Collected(n)
  /\ spc[n] = "writing" => apipe.owner = n

NodeFits(n) == WriterFits(n) /\ LinesFit(n) /\ ScannerFits(n)

(* What the reader has read, and has still to read, of a line. *)
ReaderFits ==
  IF apipe.owner = Nil THEN apipe.rest = <<>> /\ tail = <<>>
  ELSE /\ spc[apipe.owner] = "writing"
       /\ \E src \in Sources :
            /\ Behind(apipe.owner, src)
            /\ Split(tail, apipe.rest, apipe.owner, src, accepted[apipe.owner][src])

IInv == TypeOK /\ (\A n \in Nodes : NodeFits(n)) /\ ReaderFits

-----------------------------------------------------------------------------
(* Lines and pieces of them *)

LEMMA LineUnits ==
  ASSUME NEW n \in Nodes, NEW src \in Sources, NEW num \in 1 .. MaxLines,
         NEW len \in 1 .. MaxLen
  PROVE  /\ Line(n, src, num, len) \in Seq(Units)
         /\ Len(Line(n, src, num, len)) = len
         /\ \A i \in 1 .. len :
              Line(n, src, num, len)[i]
                = [node |-> n, src |-> src, num |-> num, at |-> i, len |-> len]
<1> DEFINE unit(i) == [node |-> n, src |-> src, num |-> num, at |-> i, len |-> len]
           line == [i \in 1 .. len |-> unit(i)]
<1>1. len \in Nat /\ MaxLen \in Nat /\ len <= MaxLen
  BY MixAssumption
<1>2. \A i \in 1 .. len : unit(i) \in Units
  BY <1>1 DEF Units
<1>3. line \in [1 .. len -> Units]
  BY <1>2
<1>4. line \in Seq(Units) /\ Len(line) = len
  BY <1>1, <1>3, SeqDef
<1>5. Line(n, src, num, len) = line
  BY DEF Line
<1>6. QED
  BY <1>4, <1>5

(* The whole line is a piece of itself. *)
LEMMA CutAll ==
  ASSUME NEW n \in Nodes, NEW src \in Sources, NEW num \in 1 .. MaxLines,
         NEW len \in 1 .. MaxLen
  PROVE  IsCut(Line(n, src, num, len), Line(n, src, num, len), 0, len)
<1>1. len \in Nat
  BY MixAssumption
<1>2. QED
  BY <1>1, LineUnits DEF IsCut

(* No piece is the empty one. *)
LEMMA CutNone == ASSUME NEW line PROVE IsCut(<<>>, line, 0, 0)
BY EmptySeq DEF IsCut

(* A Read of a piece of a line takes its beginning, and leaves the rest.         *)
LEMMA CutTwo ==
  ASSUME NEW line, NEW from \in Nat, NEW to \in Nat, from < to,
         NEW s, IsCut(s, line, from, to), NEW m \in 1 .. to - from
  PROVE  /\ IsCut(SubSeq(s, 1, m), line, from, from + m)
         /\ IsCut(SubSeq(s, m + 1, Len(s)), line, from + m, to)
<1>1. /\ s \in Seq(Units) /\ Len(s) = to - from /\ m \in Nat /\ m <= to - from
      /\ \A i \in 1 .. to - from : s[i] = line[from + i] /\ s[i] \in Units
  BY ElementOfSeq DEF IsCut
<1> DEFINE a == SubSeq(s, 1, m)
           b == SubSeq(s, m + 1, Len(s))
<1>2. a \in Seq(Units) /\ Len(a) = m /\ \A i \in 1 .. m : a[i] = s[i]
  BY <1>1, SubSeqProperties
<1>3. /\ b \in Seq(Units) /\ Len(b) = to - (from + m)
      /\ \A i \in 1 .. to - (from + m) : b[i] = s[m + i]
  <2>1. \A i \in m + 1 .. Len(s) : s[i] \in Units
    BY <1>1
  <2>2. /\ b \in Seq(Units)
        /\ Len(b) = IF m + 1 <= Len(s) THEN Len(s) - (m + 1) + 1 ELSE 0
        /\ \A i \in 1 .. Len(s) - (m + 1) + 1 : b[i] = s[(m + 1) + i - 1]
    <3>1. m + 1 \in Int /\ Len(s) \in Int
      BY <1>1
    <3>2. QED
      BY <2>1, <3>1, SubSeqProperties
  <2>3. QED
    BY <1>1, <2>2
<1> HIDE DEF a, b
<1>4. IsCut(a, line, from, from + m)
  BY <1>1, <1>2 DEF IsCut
<1>5. IsCut(b, line, from + m, to)
  BY <1>1, <1>3 DEF IsCut
<1>6. QED
  BY <1>4, <1>5 DEF a, b

(* Pieces that follow each other make a longer one. *)
LEMMA CutJoin ==
  ASSUME NEW line, NEW k \in Nat, NEW m \in Nat, k <= m,
         NEW s, IsCut(s, line, 0, k), NEW t, IsCut(t, line, k, m)
  PROVE  IsCut(s \o t, line, 0, m)
<1>1. /\ s \in Seq(Units) /\ Len(s) = k /\ \A i \in 1 .. k : s[i] = line[i]
      /\ t \in Seq(Units) /\ Len(t) = m - k /\ \A i \in 1 .. m - k : t[i] = line[k + i]
  BY DEF IsCut
<1>2. /\ s \o t \in Seq(Units) /\ Len(s \o t) = Len(s) + Len(t)
      /\ \A i \in 1 .. Len(s) + Len(t) : (s \o t)[i] = IF i <= Len(s) THEN s[i] ELSE t[i - Len(s)]
  BY <1>1, ConcatProperties
<1>3. Len(s) + Len(t) = m
  BY <1>1
<1>4. ASSUME NEW i \in 1 .. m PROVE (s \o t)[i] = line[i]
  <2>1. CASE i <= k
    BY <1>1, <1>2, <1>3, <2>1
  <2>2. CASE ~(i <= k)
    <3>1. i - k \in 1 .. m - k /\ k + (i - k) = i
      BY <2>2
    <3>2. t[i - k] = line[i]
      BY <1>1, <3>1
    <3>3. (s \o t)[i] = t[i - k]
      BY <1>1, <1>2, <1>3, <2>2
    <3>4. QED
      BY <3>2, <3>3
  <2>3. QED
    BY <2>1, <2>2
<1>5. QED
  BY <1>2, <1>3, <1>4 DEF IsCut

(* A piece ends its line where the line ends. *)
LEMMA CutEnds ==
  ASSUME NEW n \in Nodes, NEW src \in Sources, NEW num \in 1 .. MaxLines,
         NEW len \in 1 .. MaxLen, NEW from \in Nat, NEW to \in Nat, from < to, to <= len,
         NEW s, IsCut(s, Line(n, src, num, len), from, to)
  PROVE  EndsLine(s) <=> to = len
<1>1. Len(s) \in 1 .. to - from /\ from + Len(s) = to
  BY DEF IsCut
<1>2. s[Len(s)] = Line(n, src, num, len)[to]
  BY <1>1 DEF IsCut
<1>3. s[Len(s)] = [node |-> n, src |-> src, num |-> num, at |-> to, len |-> len]
  BY <1>2, LineUnits
<1>4. QED
  BY <1>3 DEF EndsLine

(* A piece that is all of the line is the line. *)
LEMMA CutWhole ==
  ASSUME NEW n \in Nodes, NEW src \in Sources, NEW num \in 1 .. MaxLines,
         NEW len \in 1 .. MaxLen, NEW s, IsCut(s, Line(n, src, num, len), 0, len)
  PROVE  s = Line(n, src, num, len)
<1> DEFINE line == Line(n, src, num, len)
<1>1. line \in Seq(Units) /\ Len(line) = len
  BY LineUnits
<1> HIDE DEF line
<1>2. s \in Seq(Units) /\ Len(s) = len /\ \A i \in 1 .. Len(s) : s[i] = line[i]
  BY DEF IsCut, line
<1>3. s = line
  BY <1>1, <1>2, SeqEqual
<1>4. QED
  BY <1>3 DEF line

(* What a Read of at most cap units makes of a line that is split: either it     *)
(* completes the line, which is when it reads its newline, or it splits the line *)
(* further on.                                                                   *)
LEMMA ReadSplit ==
  ASSUME NEW n \in Nodes, NEW src \in Sources, NEW num \in 1 .. MaxLines,
         NEW begun, NEW left, Split(begun, left, n, src, num), NEW cap \in Nat \ {0}
  PROVE  LET piece == SubSeq(left, 1, Smaller(cap, Len(left)))
             rest == SubSeq(left, cap + 1, Len(left))
         IN  /\ Len(left) \in Nat /\ left # <<>>
             /\ Len(left) <= cap =>
                  /\ EndsLine(piece)
                  /\ \E len \in 1 .. MaxLen :
                       IsCut(begun \o piece, Line(n, src, num, len), 0, len)
             /\ Len(left) > cap =>
                  ~EndsLine(piece) /\ Split(begun \o piece, rest, n, src, num)
<1> DEFINE piece == SubSeq(left, 1, Smaller(cap, Len(left)))
           rest == SubSeq(left, cap + 1, Len(left))
<1>0. PICK len \in 1 .. MaxLen :
        \E k \in 0 .. len - 1 :
          /\ IsCut(begun, Line(n, src, num, len), 0, k)
          /\ IsCut(left, Line(n, src, num, len), k, len)
  BY DEF Split
<1>1. PICK k \in 0 .. len - 1 :
        /\ IsCut(begun, Line(n, src, num, len), 0, k)
        /\ IsCut(left, Line(n, src, num, len), k, len)
  BY <1>0
<1>2. len \in Nat /\ k \in Nat /\ k < len
  BY MixAssumption
<1>3. left \in Seq(Units) /\ Len(left) = len - k
  BY <1>1 DEF IsCut
<1>4. Len(left) \in Nat /\ left # <<>>
  <2>1. Len(<<>>) = 0
    BY EmptySeq
  <2>2. QED
    BY <1>2, <1>3, <2>1
<1> DEFINE m == Smaller(cap, Len(left))
<1>5. m \in 1 .. len - k /\ (Len(left) <= cap => m = len - k) /\ (Len(left) > cap => m = cap)
  BY <1>2, <1>3 DEF Smaller
<1> HIDE DEF m
<1>6. /\ IsCut(SubSeq(left, 1, m), Line(n, src, num, len), k, k + m)
      /\ IsCut(SubSeq(left, m + 1, Len(left)), Line(n, src, num, len), k + m, len)
  BY <1>1, <1>2, <1>5, CutTwo
<1>7. piece = SubSeq(left, 1, m)
  BY DEF m
<1> HIDE DEF piece
<1>8. k + m \in Nat /\ k <= k + m /\ k < k + m /\ k + m <= len
  BY <1>2, <1>5
<1>9. IsCut(begun \o piece, Line(n, src, num, len), 0, k + m)
  BY <1>1, <1>2, <1>6, <1>7, <1>8, CutJoin
<1>10. EndsLine(piece) <=> k + m = len
  BY <1>2, <1>6, <1>7, <1>8, CutEnds
<1>11. CASE Len(left) <= cap
  <2>1. k + m = len
    BY <1>2, <1>5, <1>11
  <2>2. EndsLine(piece) /\ IsCut(begun \o piece, Line(n, src, num, len), 0, len)
    BY <1>9, <1>10, <2>1
  <2>3. ~(Len(left) > cap)
    BY <1>4, <1>11
  <2>4. QED
    BY <1>4, <2>2, <2>3 DEF piece
<1>12. CASE ~(Len(left) <= cap)
  <2>1. Len(left) > cap /\ m = cap /\ k + m # len /\ k + m \in 0 .. len - 1
    BY <1>2, <1>3, <1>4, <1>5, <1>8, <1>12
  <2>2. rest = SubSeq(left, m + 1, Len(left))
    BY <2>1
  <2> HIDE DEF rest
  <2>3. ~EndsLine(piece)
    BY <1>10, <2>1
  <2>4. IsCut(rest, Line(n, src, num, len), k + m, len)
    BY <1>6, <2>2
  <2>5. Split(begun \o piece, rest, n, src, num)
    BY <1>9, <2>1, <2>4 DEF Split
  <2>6. QED
    BY <1>4, <1>12, <2>3, <2>5 DEF piece, rest
<1>13. QED
  BY <1>11, <1>12

(* A line is split when its Write starts. *)
LEMMA SplitStart ==
  ASSUME NEW n \in Nodes, NEW src \in Sources, NEW num \in 1 .. MaxLines,
         NEW len \in 1 .. MaxLen, NEW s, IsCut(s, Line(n, src, num, len), 0, len)
  PROVE  Split(<<>>, s, n, src, num)
<1>1. 0 \in 0 .. len - 1
  BY MixAssumption
<1>2. QED
  BY <1>1, CutNone DEF Split

LEMMA SplitTyped ==
  ASSUME NEW n, NEW src, NEW num, NEW begun, NEW left, Split(begun, left, n, src, num)
  PROVE  begun \in Seq(Units) /\ left \in Seq(Units)
BY DEF Split, IsCut

(* An event becomes at most two lines (convertEL2SL). *)
LEMMA TwoLines ==
  ASSUME NEW id, NEW el
  PROVE  Len(ConvertEL2SL(id, el)) \in 0 .. 2
<1>1. \A x, y : Len(<<>>) = 0 /\ Len(<<x>>) = 1 /\ Len(<<x, y>>) = 2
  OBVIOUS
<1>2. \A tags :
        /\ Len(AddBid(id, tags)) \in 0 .. 2 /\ Len(AddAsk(id, tags)) \in 0 .. 2
        /\ Len(MinerCreateCmd(tags)) \in 0 .. 2 /\ Len(FinishDeal(id, tags)) \in 0 .. 2
        /\ Len(FetchData(id, tags)) \in 0 .. 2 /\ Len(ProposeDeal(tags)) \in 0 .. 2
        /\ Len(SwarmConnectCmdTo(id, tags)) \in 0 .. 2 /\ Len(HeartBeat(id, tags)) \in 0 .. 2
  BY <1>1 DEF AddBid, AddAsk, MinerCreateCmd, FinishDeal, FetchData, ProposeDeal,
              SwarmConnectCmdTo, HeartBeat
<1>3. \A tags :
        /\ Len(AddNewBlock(id, tags)) \in 0 .. 2 /\ Len(ProcessNewBlock(id, tags)) \in 0 .. 2
        /\ Len(AcceptNewBestBlock(id, tags)) \in 0 .. 2
  BY <1>1 DEF AddNewBlock, ProcessNewBlock, AcceptNewBestBlock, ShowIf
<1>4. \A tags : Len(AddNewMessage(id, tags)) \in 0 .. 2
  BY <1>1 DEF AddNewMessage, AddDeal, SendPayment, ShowIf
<1>5. QED
  BY <1>1, <1>2, <1>3, <1>4 DEF ConvertEL2SL

-----------------------------------------------------------------------------
(* The conversion of events, for every event whatever its damage *)

OfPair == {"NewBlockMined", "BroadcastBlock", "MakeDeal", "SendFile"}
OfAll == OfPair \cup {"CreateMiner", "FinishDeal", "AddDeal", "SendPayment"}

HasBlock(tags) == GetBlockFromTags(tags) # {}

(* A line about the daemon with the id. *)
Own(id, x) ==
  /\ "type" \in DOMAIN x /\ x["type"] \notin OfAll
  /\ x["type"] \in {"AddAsk", "AddBid"} => "receiver" \notin DOMAIN x
  /\ IF "receiver" \in DOMAIN x THEN x["receiver"] = id
                               ELSE "from" \in DOMAIN x /\ x["from"] = id

(* A line that comes alone and is about others. *)
OfOthers(x) == "type" \in DOMAIN x /\ x["type"] \in OfAll \ OfPair

(* The two lines of a pair. *)
Mined(x, y) ==
  /\ {"from", "to", "block", "type"} \subseteq DOMAIN x \cap DOMAIN y
  /\ x["type"] = "NewBlockMined" /\ y["type"] = "BroadcastBlock"
  /\ x["from"] = y["from"] /\ x["block"] = y["block"]

Dealt(x, y) ==
  /\ {"from", "to", "data", "type"} \subseteq DOMAIN x \cap DOMAIN y
  /\ x["type"] = "MakeDeal" /\ y["type"] = "SendFile"
  /\ x["from"] = y["from"] /\ x["data"] = y["data"]
  /\ y["to"] = GetStrSafe(x["ask"], "owner")

(* Which of these a new line is follows from its fields. *)
LEMMA OwnLine ==
  ASSUME NEW id, NEW fields, "type" \in DOMAIN fields,
         fields["type"] \notin OfAll,
         fields["type"] \in {"AddAsk", "AddBid"} => "receiver" \notin DOMAIN fields,
         IF "receiver" \in DOMAIN fields THEN fields["receiver"] = id
                                         ELSE "from" \notin DOMAIN fields
  PROVE  Own(id, NewSimEvent(id, fields))
BY DEF NewSimEvent, Own

LEMMA OwnKey ==
  ASSUME NEW id, NEW e, Own(id, e), NEW key, key \notin {"type", "from", "to", "receiver"},
         NEW value
  PROVE  Own(id, SetKey(e, key, value))
BY DEF SetKey, Own

LEMMA OthersLine ==
  ASSUME NEW id, NEW fields, "type" \in DOMAIN fields, fields["type"] \in OfAll \ OfPair
  PROVE  OfOthers(NewSimEvent(id, fields))
BY DEF NewSimEvent, OfOthers

LEMMA OthersKey ==
  ASSUME NEW e, OfOthers(e), NEW key, key # "type", NEW value
  PROVE  OfOthers(SetKey(e, key, value))
BY DEF SetKey, OfOthers

(* Lines about the daemon itself come alone. *)
LEMMA OwnLines ==
  ASSUME NEW id, NEW tags
  PROVE  /\ \E x : AddBid(id, tags) = <<x>> /\ Own(id, x)
         /\ \E x : AddAsk(id, tags) = <<x>> /\ Own(id, x)
         /\ \E x : FetchData(id, tags) = <<x>> /\ Own(id, x)
         /\ \E x : SwarmConnectCmdTo(id, tags) = <<x>> /\ Own(id, x)
         /\ \E x : HeartBeat(id, tags) = <<x>> /\ Own(id, x)
         /\ HasBlock(tags) => \E x : ProcessNewBlock(id, tags) = <<x>> /\ Own(id, x)
         /\ HasBlock(tags) => \E x : AcceptNewBestBlock(id, tags) = <<x>> /\ Own(id, x)
         /\ ~HasBlock(tags) => ProcessNewBlock(id, tags) = <<>> /\ AcceptNewBestBlock(id, tags) = <<>>
<1> USE DEF OfAll, OfPair
<1>1. \E x : AddBid(id, tags) = <<x>> /\ Own(id, x)
  BY OwnLine DEF AddBid
<1>2. \E x : AddAsk(id, tags) = <<x>> /\ Own(id, x)
  BY OwnLine DEF AddAsk
<1>3. \E x : FetchData(id, tags) = <<x>> /\ Own(id, x)
  BY OwnLine DEF FetchData
<1>4. \E x : SwarmConnectCmdTo(id, tags) = <<x>> /\ Own(id, x)
  BY OwnLine DEF SwarmConnectCmdTo
<1>5. \E x : HeartBeat(id, tags) = <<x>> /\ Own(id, x)
  BY OwnLine, OwnKey DEF HeartBeat
<1>6. HasBlock(tags) => \E x : ProcessNewBlock(id, tags) = <<x>> /\ Own(id, x)
  BY OwnLine DEF ProcessNewBlock, ShowIf, HasBlock
<1>7. HasBlock(tags) => \E x : AcceptNewBestBlock(id, tags) = <<x>> /\ Own(id, x)
  BY OwnLine DEF AcceptNewBestBlock, ShowIf, HasBlock
<1>8. ~HasBlock(tags) => ProcessNewBlock(id, tags) = <<>> /\ AcceptNewBestBlock(id, tags) = <<>>
  BY DEF AcceptNewBestBlock, ProcessNewBlock, ShowIf, HasBlock
<1>9. QED
  BY <1>1, <1>2, <1>3, <1>4, <1>5, <1>6, <1>7, <1>8

(* Lines about others do not depend on the daemon's id. *)
LEMMA LinesOfOthers ==
  ASSUME NEW tags
  PROVE  /\ \E x : MinerCreateCmd(tags) = <<x>> /\ OfOthers(x)
         /\ \E x : \A id : FinishDeal(id, tags) = <<x>> /\ OfOthers(x)
         /\ \A m : \E x : \A id : AddDeal(id, m) = <<x>> /\ OfOthers(x)
         /\ \A m : \E x : SendPayment(tags, m) = <<x>> /\ OfOthers(x)
<1> USE DEF OfAll, OfPair
<1>1. \E x : MinerCreateCmd(tags) = <<x>> /\ OfOthers(x)
  BY OthersLine, OthersKey DEF MinerCreateCmd
<1>2. \E x : \A id : FinishDeal(id, tags) = <<x>> /\ OfOthers(x)
  BY OthersLine DEF FinishDeal, NewSimEvent
<1>3. \A m : \E x : \A id : AddDeal(id, m) = <<x>> /\ OfOthers(x)
  BY OthersLine DEF AddDeal, NewSimEvent
<1>4. \A m : \E x : SendPayment(tags, m) = <<x>> /\ OfOthers(x)
  BY OthersLine DEF SendPayment
<1>5. QED
  BY <1>1, <1>2, <1>3, <1>4

(* The lines of a pair agree, and do not depend on the daemon's id either. *)
LEMMA MinedLines ==
  ASSUME NEW id, NEW other, NEW b
  PROVE  /\ Mined(NewBlockMined(id, b), BroadcastBlock(id, b))
         /\ NewBlockMined(id, b) = NewBlockMined(other, b)
         /\ BroadcastBlock(id, b) = BroadcastBlock(other, b)
<1> USE DEF NewBlockMined, BroadcastBlock, NewSimEvent
<1>1. Mined(NewBlockMined(id, b), BroadcastBlock(id, b))
  BY DEF Mined
<1>2. NewBlockMined(id, b) = NewBlockMined(other, b)
  OBVIOUS
<1>3. BroadcastBlock(id, b) = BroadcastBlock(other, b)
  OBVIOUS
<1>4. QED
  BY <1>1, <1>2, <1>3

LEMMA DealtLines ==
  ASSUME NEW tags
  PROVE  Dealt(MakeDeal(tags), SendFile(tags))
BY DEF MakeDeal, SendFile, NewSimEvent, Dealt

(* What the lines of an event are, from any two daemons. *)
Converted(id, other, own, others) ==
  \/ own = <<>>
  \/ \E x, y : Own(id, x) /\ Own(other, y) /\ own = <<x>> /\ others = <<y>>
  \/ \E x : OfOthers(x) /\ own = <<x>> /\ others = <<x>>
  \/ \E x, y : (Mined(x, y) \/ Dealt(x, y)) /\ own = <<x, y>> /\ others = <<x, y>>

LEMMA EventLines ==
  ASSUME NEW id, NEW other, NEW el
  PROVE  Converted(id, other, ConvertEL2SL(id, el), ConvertEL2SL(other, el))
<1> DEFINE tags == el.Tags
<1>1. Converted(id, other, AddBid(id, tags), AddBid(other, tags))
  BY OwnLines DEF Converted
<1>2. Converted(id, other, AddAsk(id, tags), AddAsk(other, tags))
  BY OwnLines DEF Converted
<1>3. Converted(id, other, AddNewBlock(id, tags), AddNewBlock(other, tags))
  BY MinedLines DEF Converted, AddNewBlock, ShowIf
<1>4. Converted(id, other, ProcessNewBlock(id, tags), ProcessNewBlock(other, tags))
  BY OwnLines DEF Converted
<1>5. Converted(id, other, AcceptNewBestBlock(id, tags), AcceptNewBestBlock(other, tags))
  BY OwnLines DEF Converted
<1>6. Converted(id, other, MinerCreateCmd(tags), MinerCreateCmd(tags))
  BY LinesOfOthers DEF Converted
<1>7. Converted(id, other, FinishDeal(id, tags), FinishDeal(other, tags))
  BY LinesOfOthers DEF Converted
<1>8. Converted(id, other, FetchData(id, tags), FetchData(other, tags))
  BY OwnLines DEF Converted
<1>9. Converted(id, other, ProposeDeal(tags), ProposeDeal(tags))
  BY DealtLines DEF Converted, ProposeDeal
<1>10. Converted(id, other, SwarmConnectCmdTo(id, tags), SwarmConnectCmdTo(other, tags))
  BY OwnLines DEF Converted
<1>11. Converted(id, other, AddNewMessage(id, tags), AddNewMessage(other, tags))
  <2> DEFINE m == CHOOSE m \in GetMsgFromTags(tags) : TRUE
  <2>1. \A k : AddNewMessage(k, tags) =
               IF GetMsgFromTags(tags) = {} THEN <<>>
               ELSE CASE m.method = "addDeal" -> AddDeal(k, m)
                      [] m.method = "" -> SendPayment(tags, m)
                      [] OTHER -> <<>>
    BY DEF AddNewMessage, ShowIf
  <2>2. Converted(id, other, AddDeal(id, m), AddDeal(other, m))
    BY LinesOfOthers DEF Converted
  <2>3. Converted(id, other, SendPayment(tags, m), SendPayment(tags, m))
    BY LinesOfOthers DEF Converted
  <2>4. Converted(id, other, <<>>, <<>>)
    BY DEF Converted
  <2> HIDE DEF m
  <2>5. CASE GetMsgFromTags(tags) = {}
    BY <2>1, <2>4, <2>5
  <2>6. CASE GetMsgFromTags(tags) # {} /\ m.method = "addDeal"
    BY <2>1, <2>2, <2>6
  <2>7. CASE GetMsgFromTags(tags) # {} /\ m.method # "addDeal" /\ m.method = ""
    BY <2>1, <2>3, <2>7
  <2>8. CASE GetMsgFromTags(tags) # {} /\ m.method # "addDeal" /\ m.method # ""
    BY <2>1, <2>4, <2>8
  <2>9. QED
    BY <2>5, <2>6, <2>7, <2>8
<1>12. Converted(id, other, HeartBeat(id, tags), HeartBeat(other, tags))
  BY OwnLines DEF Converted
<1>13. Converted(id, other, <<>>, <<>>)
  BY DEF Converted
<1>14. QED
  BY <1>1, <1>2, <1>3, <1>4, <1>5, <1>6, <1>7, <1>8, <1>9, <1>10, <1>11, <1>12, <1>13
  DEF ConvertEL2SL

(* convertEL2SL, whatever the event and whatever is missing or broken in it: a    *)
(* block and its broadcast, a deal and its file come out together and agree, or  *)
(* do not come out.                                                              *)
THEOREM EventPairs ==
  ASSUME NEW id, NEW el
  PROVE  PairFits(ConvertEL2SL(id, el))
<1> DEFINE s == ConvertEL2SL(id, el)
<1>1. Converted(id, id, s, s)
  BY EventLines
<1> HIDE DEF s
<1>2. ASSUME s = <<>>
      PROVE  PairFits(s)
  BY <1>2 DEF PairFits
<1>3. ASSUME NEW x, Own(id, x) \/ OfOthers(x), s = <<x>>
      PROVE  PairFits(s)
  BY <1>3 DEF PairFits, Own, OfOthers, OfAll, OfPair
<1>4. ASSUME NEW x, NEW y, Mined(x, y), s = <<x, y>>
      PROVE  PairFits(s)
  BY <1>4 DEF PairFits, Mined
<1>5. ASSUME NEW x, NEW y, Dealt(x, y), s = <<x, y>>
      PROVE  PairFits(s)
  BY <1>5 DEF PairFits, Dealt
<1>6. PairFits(s)
  BY <1>1, <1>2, <1>3, <1>4, <1>5 DEF Converted
<1>7. QED
  BY <1>6 DEF s

(* convertEL2SL, of the same event logged by two daemons: who acted does not     *)
(* depend on the daemon, and lines about the daemon name it.                     *)
THEOREM EventActors ==
  ASSUME NEW id, NEW other, id # other, NEW el
  PROVE  ActorFits(id, ConvertEL2SL(id, el), ConvertEL2SL(other, el))
<1> DEFINE s == ConvertEL2SL(id, el)
           t == ConvertEL2SL(other, el)
<1>1. Converted(id, other, s, t)
  BY EventLines
<1> HIDE DEF s, t
<1>2. ASSUME s = <<>>
      PROVE  ActorFits(id, s, t)
  BY <1>2 DEF ActorFits
<1>3. ASSUME NEW x, NEW y, Own(id, x), Own(other, y), s = <<x>>, t = <<y>>
      PROVE  ActorFits(id, s, t)
  <2>1. x # y
    BY <1>3 DEF Own
  <2>2. id \in {x.from, At(x, "receiver")}
    BY <1>3 DEF Own, At
  <2>3. QED
    BY <1>3, <2>1, <2>2 DEF ActorFits, Own, OfAll, OfPair
<1>4. ASSUME NEW x, OfOthers(x), s = <<x>>, t = <<x>>
      PROVE  ActorFits(id, s, t)
  BY <1>4 DEF ActorFits, OfOthers, OfAll, OfPair
<1>5. ASSUME NEW x, NEW y, Mined(x, y) \/ Dealt(x, y), s = <<x, y>>, t = <<x, y>>
      PROVE  ActorFits(id, s, t)
  BY <1>5 DEF ActorFits, Mined, Dealt
<1>6. ActorFits(id, s, t)
  BY <1>1, <1>2, <1>3, <1>4, <1>5 DEF Converted
<1>7. QED
  BY <1>6 DEF s, t

(* convertEL2SL: every daemon that logs an ask or a bid names itself as the one   *)
(* who asks or bids.  Of two that log the same one, at most one has the "from"    *)
(* that the comments give these lines (simlogger.go:85-86).                       *)
THEOREM EventAskers ==
  ASSUME NEW id, NEW el, NEW i \in DOMAIN ConvertEL2SL(id, el),
         ConvertEL2SL(id, el)[i].type \in {"AddAsk", "AddBid"}
  PROVE  ConvertEL2SL(id, el)[i].from = id
<1> DEFINE s == ConvertEL2SL(id, el)
<1>1. /\ Converted(id, id, s, s)
      /\ i \in DOMAIN s /\ s[i].type \in {"AddAsk", "AddBid"}
  BY EventLines
<1> HIDE DEF s
<1>2. ASSUME NEW x, Own(id, x), s = <<x>>
      PROVE  s[i].from = id
  BY <1>1, <1>2 DEF Own
<1>3. ASSUME NEW x, OfOthers(x), s = <<x>>
      PROVE  FALSE
  BY <1>1, <1>3 DEF OfOthers, OfAll, OfPair
<1>4. ASSUME NEW x, NEW y, Mined(x, y) \/ Dealt(x, y), s = <<x, y>>
      PROVE  FALSE
  BY <1>1, <1>4 DEF Mined, Dealt
<1>5. s # <<>>
  BY <1>1
<1>6. s[i].from = id
  BY <1>1, <1>2, <1>3, <1>4, <1>5 DEF Converted
<1>7. QED
  BY <1>6 DEF s

(* The events of the streams are none but events. *)
THEOREM PairsAgreeAlways == Spec => []PairsAgree
<1>1. PairsAgree
  BY EventPairs DEF PairsAgree, PairsConverted
<1>2. QED
  BY <1>1, PTL

(* The two daemons of ActorsConverted have different ids. *)
THEOREM ActorNotLoggerAlways == Spec => []ActorNotLogger
<1>1. ActorNotLogger
  BY EventActors DEF ActorNotLogger, ActorsConverted
<1>2. QED
  BY <1>1, PTL

-----------------------------------------------------------------------------
(* Steps *)

(* The step leaves the node m alone. *)
Same(m) ==
  /\ tpc'[m] = tpc[m] /\ owed'[m] = owed[m] /\ apc'[m] = apc[m] /\ npipe'[m] = npipe[m]
  /\ spc'[m] = spc[m] /\ part'[m] = part[m]
  /\ \A src \in Sources : accepted'[m][src] = accepted[m][src] /\ shown'[m][src] = shown[m][src]
  /\ apipe.owner = m => apipe'.owner = m

LEMMA SameFits ==
  ASSUME TypeOK, NEW m \in Nodes, NodeFits(m), Same(m)
  PROVE  NodeFits(m)'
<1>1. npipe[m].owner \in Sources \cup {Nil} /\ Nil \notin Sources
  BY MixAssumption DEF TypeOK, Pipes
<1>2. WriterFits(m)'
  BY DEF NodeFits, WriterFits, Same
<1>3. LinesFit(m)'
  BY DEF NodeFits, LinesFit, Same, Sources
<1>4. Quiet(m) => Quiet(m)'
  BY DEF Quiet, Same
<1>5. npipe[m].owner # Nil => \A s : Pending(m, s) => Pending(m, s)'
  <2>1. npipe[m].owner # Nil => accepted'[m][npipe[m].owner] = accepted[m][npipe[m].owner]
    BY <1>1 DEF Same
  <2>2. npipe'[m].owner = npipe[m].owner /\ npipe'[m].rest = npipe[m].rest
    BY DEF Same
  <2>3. QED
    BY <2>1, <2>2 DEF Pending
<1>6. Collected(m) => Collected(m)'
  BY DEF Collected, Behind, Same
<1>7. ScannerFits(m)'
  BY <1>4, <1>5, <1>6 DEF NodeFits, ScannerFits, Same
<1>8. QED
  BY <1>2, <1>3, <1>7 DEF NodeFits

(* The reader's pipe and what it read stay, and so does the line it reads.       *)
LEMMA SameRead ==
  ASSUME TypeOK, ReaderFits, apipe' = apipe, tail' = tail,
         apipe.owner # Nil => Same(apipe.owner)
  PROVE  ReaderFits'
BY DEF ReaderFits, Same, Behind

LEMMA InitIInv == Init => IInv
<1> SUFFICES ASSUME Init PROVE IInv
  OBVIOUS
<1> USE MixAssumption DEF Init
<1>1. NewPipe = [owner |-> Nil, rest |-> <<>>, open |-> TRUE] /\ <<>> \in Seq(Units)
  BY EmptySeq DEF NewPipe
<1>2. TypeOK
  BY <1>1 DEF TypeOK, Pipes
<1>3. ASSUME NEW n \in Nodes PROVE NodeFits(n)
  <2>1. WriterFits(n)
    BY <1>1 DEF WriterFits, Sources
  <2>2. LinesFit(n)
    BY DEF LinesFit, Sources
  <2>3. ScannerFits(n)
    BY DEF ScannerFits, Quiet
  <2>4. QED
    BY <2>1, <2>2, <2>3 DEF NodeFits
<1>4. ReaderFits
  BY <1>1 DEF ReaderFits
<1>5. QED
  BY <1>2, <1>3, <1>4 DEF IInv

(* What a step at the node n has to keep, for all nodes to fit. *)
LEMMA OthersFit ==
  ASSUME IInv, NEW n \in Nodes, NodeFits(n)', \A m \in Nodes \ {n} : Same(m)
  PROVE  \A m \in Nodes : NodeFits(m)'
<1> TAKE m \in Nodes
<1>1. CASE m = n
  BY <1>1
<1>2. CASE m # n
  BY <1>2, SameFits DEF IInv
<1>3. QED
  BY <1>1, <1>2

LEMMA MixReaderStep ==
  ASSUME IInv, NEW n \in Nodes, MixReader(n)
  PROVE  IInv'
<1> USE MixAssumption DEF MixReader, readerVars
<1>0. TypeOK /\ NodeFits(n) /\ ReaderFits
  BY DEF IInv
<1>1. TypeOK'
  BY <1>0 DEF TypeOK, Pipes
<1>2. /\ tpc[n] = "off" /\ spc[n] = "off" /\ npipe[n].owner = Nil /\ npipe[n].open # FALSE
      /\ part[n] = <<>> /\ tpc'[n] = "decode" /\ spc'[n] = "read" /\ apc'[n] = "announce"
  BY <1>0 DEF NodeFits, WriterFits, ScannerFits, TypeOK, Pipes, Sources
<1>3. WriterFits(n)'
  BY <1>0, <1>2 DEF NodeFits, WriterFits, Sources
<1>4. LinesFit(n)'
  BY <1>0, <1>2 DEF NodeFits, LinesFit
<1>5. ScannerFits(n)'
  BY <1>0, <1>2 DEF NodeFits, ScannerFits, Quiet
<1>6. \A m \in Nodes \ {n} : Same(m)
  BY <1>0 DEF Same, TypeOK, Pipes
<1>7. ReaderFits'
  BY <1>0, <1>2, <1>6, SameRead DEF ReaderFits, TypeOK, Pipes
<1>8. QED
  BY <1>1, <1>3, <1>4, <1>5, <1>6, <1>7, OthersFit DEF IInv, NodeFits

LEMMA DecodeStep ==
  ASSUME IInv, NEW n \in Nodes, NEW k \in LineCounts, Decode(n, k)
  PROVE  IInv'
<1> USE MixAssumption DEF Decode, readerVars
<1>0. TypeOK /\ NodeFits(n) /\ ReaderFits /\ k \in 0 .. 2
  BY TwoLines DEF IInv, LineCounts
<1>1. TypeOK'
  BY <1>0 DEF TypeOK, Pipes
<1>2. tpc'[n] \in {"decode", "encode"} /\ owed'[n] = k /\ (tpc'[n] = "encode" => k >= 1)
  BY <1>0 DEF TypeOK, Pipes
<1>3. WriterFits(n)'
  BY <1>0, <1>2 DEF NodeFits, WriterFits
<1>4. LinesFit(n)'
  BY <1>0, <1>2 DEF NodeFits, LinesFit
<1>5. ScannerFits(n)'
  BY <1>0, <1>2 DEF NodeFits, ScannerFits, Quiet, Pending, Collected, Behind
<1>6. \A m \in Nodes \ {n} : Same(m)
  BY <1>0 DEF Same, TypeOK, Pipes
<1>7. ReaderFits'
  BY <1>0 DEF ReaderFits, Behind
<1>8. QED
  BY <1>1, <1>3, <1>4, <1>5, <1>6, <1>7, OthersFit DEF IInv, NodeFits

LEMMA DecodeErrorStep ==
  ASSUME IInv, NEW n \in Nodes, DecodeError(n)
  PROVE  IInv'
<1> USE MixAssumption DEF DecodeError, readerVars
<1>0. TypeOK /\ NodeFits(n) /\ ReaderFits
  BY DEF IInv
<1>1. /\ tpc'[n] = "stopped" /\ npipe'[n].open = FALSE
      /\ npipe'[n].owner = npipe[n].owner /\ npipe'[n].rest = npipe[n].rest
  BY <1>0 DEF TypeOK, Pipes
<1>2. TypeOK'
  BY <1>0 DEF TypeOK, Pipes
<1>3. WriterFits(n)'
  BY <1>0, <1>1 DEF NodeFits, WriterFits
<1>4. LinesFit(n)'
  BY <1>0, <1>1 DEF NodeFits, LinesFit
<1>5. ScannerFits(n)'
  BY <1>0, <1>1 DEF NodeFits, ScannerFits, Quiet, Pending, Collected, Behind
<1>6. \A m \in Nodes \ {n} : Same(m)
  BY <1>0 DEF Same, TypeOK, Pipes
<1>7. ReaderFits'
  BY <1>0 DEF ReaderFits, Behind
<1>8. QED
  BY <1>2, <1>3, <1>4, <1>5, <1>6, <1>7, OthersFit DEF IInv, NodeFits

(* Who gets the lock of a pipe holds it, with the data to write. *)
LEMMA HoldPipe ==
  ASSUME NEW writers, NEW opens, NEW pipe \in Pipes(writers, opens),
         NEW w \in writers \cup {Nil}, NEW data \in Seq(Units)
  PROVE  /\ Hold(pipe, w, data) \in Pipes(writers, opens)
         /\ Hold(pipe, w, data).owner = w
         /\ Hold(pipe, w, data).rest = data
         /\ Hold(pipe, w, data).open = pipe.open
BY DEF Hold, Pipes

(* The lock of a pipe gets free. *)
LEMMA FreePipe ==
  ASSUME NEW writers, NEW opens, NEW pipe \in Pipes(writers, opens)
  PROVE  /\ Hold(pipe, Nil, <<>>) \in Pipes(writers, opens)
         /\ Hold(pipe, Nil, <<>>).owner = Nil
         /\ Hold(pipe, Nil, <<>>).rest = <<>>
         /\ Hold(pipe, Nil, <<>>).open = pipe.open
<1> DEFINE none == <<>>
<1>1. none \in Seq(Units) /\ Nil \in writers \cup {Nil}
  BY EmptySeq
<1> HIDE DEF none
<1>2. /\ Hold(pipe, Nil, none) \in Pipes(writers, opens)
      /\ Hold(pipe, Nil, none).owner = Nil
      /\ Hold(pipe, Nil, none).rest = none
      /\ Hold(pipe, Nil, none).open = pipe.open
  BY <1>1 DEF Hold, Pipes
<1>3. QED
  BY <1>2 DEF none

LEMMA Counts ==
  ASSUME TypeOK, NEW n \in Nodes
  PROVE  /\ MaxLines \in Nat /\ owed[n] \in 0 .. 2
         /\ "transform" \in Sources /\ "announce" \in Sources
         /\ \A src \in Sources :
              accepted[n][src] \in 0 .. MaxLines /\ shown[n][src] \in 0 .. MaxLines
<1>1. MaxLines \in Nat
  BY MixAssumption
<1>2. /\ accepted[n] \in [Sources -> 0 .. MaxLines] /\ shown[n] \in [Sources -> 0 .. MaxLines]
      /\ owed[n] \in 0 .. 2
  BY DEF TypeOK
<1>3. QED
  BY <1>1, <1>2 DEF Sources

LEMMA EncodeStep ==
  ASSUME IInv, NEW n \in Nodes, Encode(n)
  PROVE  IInv'
<1> USE MixAssumption DEF readerVars
<1>0. TypeOK /\ NodeFits(n) /\ ReaderFits
  BY DEF IInv
<1> DEFINE num == accepted[n]["transform"] + 1
<1>1. num \in 1 .. MaxLines
  <2>1. /\ accepted[n]["transform"] \in Nat /\ owed[n] \in Nat /\ MaxLines \in Nat
        /\ tpc[n] = "encode"
    BY <1>0, Counts DEF Encode
  <2>2. owed[n] >= 1 /\ accepted[n]["transform"] + owed[n] <= MaxLines
    BY <1>0, <2>1 DEF NodeFits, LinesFit
  <2>3. QED
    BY <2>1, <2>2
<1>2. PICK len \in 1 .. MaxLen :
        npipe' = [npipe EXCEPT ![n] = Hold(npipe[n], "transform", Line(n, "transform", num, len))]
  BY DEF Encode
<1> DEFINE line == Line(n, "transform", num, len)
<1>3. line \in Seq(Units) /\ IsCut(line, line, 0, len) /\ Split(<<>>, line, n, "transform", num)
  BY <1>1, LineUnits, CutAll, SplitStart DEF Sources
<1> HIDE DEF line
<1>4. /\ npipe'[n].owner = "transform" /\ npipe'[n].rest = line
      /\ npipe'[n].open = npipe[n].open
      /\ npipe'[n] \in Pipes(Sources, BOOLEAN)
      /\ \A m \in Nodes \ {n} : npipe'[m] = npipe[m]
  <2> DEFINE h == Hold(npipe[n], "transform", line)
  <2>1. npipe[n] \in Pipes(Sources, BOOLEAN)
    BY <1>0 DEF TypeOK, Pipes
  <2>2. /\ h.owner = "transform" /\ h.rest = line /\ h.open = npipe[n].open
        /\ h \in Pipes(Sources, BOOLEAN)
    <3>1. "transform" \in Sources \cup {Nil}
      BY DEF Sources
    <3>2. QED
      BY <1>3, <2>1, <3>1, HoldPipe
  <2> HIDE DEF h
  <2>3. npipe' = [npipe EXCEPT ![n] = h]
    BY <1>2 DEF line, h
  <2>4. QED
    BY <1>0, <2>2, <2>3 DEF TypeOK, Pipes
<1> HIDE DEF num
<1>5. TypeOK'
  BY <1>0, <1>2, <1>4 DEF TypeOK, Pipes, Encode
<1>6. WriterFits(n)'
  BY <1>0, <1>4 DEF NodeFits, WriterFits, Encode, TypeOK, Pipes, Sources
<1>7. LinesFit(n)'
  BY <1>0 DEF NodeFits, LinesFit, Encode, TypeOK, Pipes
<1>8. Pending(n, <<>>)'
  BY <1>3, <1>4 DEF Pending, Encode, num
<1>9. ScannerFits(n)'
  <2>1. spc[n] \in {"read", "wait"} => part[n] = <<>>
    BY <1>0 DEF NodeFits, ScannerFits, WriterFits, Encode
  <2>2. spc[n] \in {"read", "wait"} => Pending(n, part[n])'
    BY <1>8, <2>1 DEF Encode, Pending
  <2>3. QED
    BY <1>0, <1>4, <1>8, <2>2 DEF NodeFits, ScannerFits, Quiet, Collected, Behind, Encode
<1>10. \A m \in Nodes \ {n} : Same(m)
  BY <1>0, <1>4 DEF Same, TypeOK, Pipes, Encode
<1>11. ReaderFits'
  BY <1>0 DEF ReaderFits, Behind, Encode
<1>12. QED
  BY <1>5, <1>6, <1>7, <1>9, <1>10, <1>11, OthersFit DEF IInv, NodeFits

LEMMA WriteEventStep ==
  ASSUME IInv, NEW n \in Nodes, WriteEvent(n)
  PROVE  IInv'
<1> USE MixAssumption DEF transformVars, readerVars
<1>0. TypeOK /\ NodeFits(n) /\ ReaderFits
  BY DEF IInv
<1>1. 1 \in 1 .. MaxLines
  OBVIOUS
<1>2. PICK len \in 1 .. MaxLen :
        npipe' = [npipe EXCEPT ![n] = Hold(npipe[n], "announce", Line(n, "announce", 1, len))]
  BY DEF WriteEvent
<1> DEFINE line == Line(n, "announce", 1, len)
<1>3. line \in Seq(Units) /\ IsCut(line, line, 0, len) /\ Split(<<>>, line, n, "announce", 1)
  BY <1>1, LineUnits, CutAll, SplitStart DEF Sources
<1> HIDE DEF line
<1>4. /\ npipe'[n].owner = "announce" /\ npipe'[n].rest = line
      /\ npipe'[n].open = npipe[n].open
      /\ npipe'[n] \in Pipes(Sources, BOOLEAN)
      /\ \A m \in Nodes \ {n} : npipe'[m] = npipe[m]
  <2> DEFINE h == Hold(npipe[n], "announce", line)
  <2>1. npipe[n] \in Pipes(Sources, BOOLEAN)
    BY <1>0 DEF TypeOK
  <2>2. /\ h.owner = "announce" /\ h.rest = line /\ h.open = npipe[n].open
        /\ h \in Pipes(Sources, BOOLEAN)
    <3>1. "announce" \in Sources \cup {Nil}
      BY DEF Sources
    <3>2. QED
      BY <1>3, <2>1, <3>1, HoldPipe
  <2> HIDE DEF h
  <2>3. npipe' = [npipe EXCEPT ![n] = h]
    BY <1>2 DEF line, h
  <2>4. QED
    BY <1>0, <2>2, <2>3 DEF TypeOK
<1>5. TypeOK'
  BY <1>0, <1>2, <1>4 DEF TypeOK, WriteEvent
<1>6. WriterFits(n)'
  BY <1>0, <1>4 DEF NodeFits, WriterFits, WriteEvent, TypeOK, Sources
<1>7. LinesFit(n)'
  BY <1>0 DEF NodeFits, LinesFit, WriteEvent, TypeOK
<1>8. Pending(n, <<>>)'
  <2>1. accepted[n]["announce"] = 0 /\ accepted' = accepted
    BY <1>0 DEF NodeFits, LinesFit, WriteEvent
  <2>2. accepted'[n][npipe'[n].owner] + 1 = 1
    BY <1>4, <2>1
  <2>3. QED
    BY <1>3, <1>4, <2>2 DEF Pending
<1>9. ScannerFits(n)'
  <2>1. spc[n] \in {"read", "wait"} => part[n] = <<>>
    BY <1>0 DEF NodeFits, ScannerFits, WriteEvent
  <2>2. spc[n] \in {"read", "wait"} => Pending(n, part[n])'
    BY <1>8, <2>1 DEF WriteEvent, Pending
  <2>3. QED
    BY <1>0, <1>4, <1>8, <2>2 DEF NodeFits, ScannerFits, Quiet, Collected, Behind, WriteEvent
<1>10. \A m \in Nodes \ {n} : Same(m)
  BY <1>0, <1>4 DEF Same, TypeOK, WriteEvent
<1>11. ReaderFits'
  BY <1>0 DEF ReaderFits, Behind, WriteEvent
<1>12. QED
  BY <1>5, <1>6, <1>7, <1>9, <1>10, <1>11, OthersFit DEF IInv, NodeFits

LEMMA WriteEventErrorStep ==
  ASSUME IInv, NEW n \in Nodes, WriteEventError(n)
  PROVE  IInv'
<1> USE MixAssumption DEF transformVars, readerVars
<1>0. TypeOK /\ NodeFits(n) /\ ReaderFits
  BY DEF IInv
<1>1. /\ apc[n] \in {"announce", "writing"} /\ npipe[n].open = FALSE
      /\ apc'[n] = "failed" /\ apc' = [apc EXCEPT ![n] = "failed"]
  BY <1>0 DEF WriteEventError, TypeOK, Pipes
<1>2. /\ npipe'[n].open = FALSE
      /\ apc[n] = "writing" => npipe'[n].owner = Nil /\ npipe'[n].rest = <<>>
      /\ apc[n] = "announce" => npipe'[n].owner = npipe[n].owner /\ npipe'[n].rest = npipe[n].rest
      /\ npipe'[n] \in Pipes(Sources, BOOLEAN)
      /\ \A m \in Nodes \ {n} : npipe'[m] = npipe[m]
  <2> DEFINE h == Hold(npipe[n], Nil, <<>>)
  <2>1. npipe[n] \in Pipes(Sources, BOOLEAN)
    BY <1>0 DEF TypeOK
  <2>2. h.owner = Nil /\ h.rest = <<>> /\ h.open = npipe[n].open /\ h \in Pipes(Sources, BOOLEAN)
    BY <2>1, FreePipe
  <2> HIDE DEF h
  <2>3. npipe' = [npipe EXCEPT ![n] = IF apc[n] = "writing" THEN h ELSE npipe[n]]
    BY DEF WriteEventError, h
  <2>4. QED
    BY <1>0, <1>1, <2>1, <2>2, <2>3 DEF TypeOK
<1>3. TypeOK'
  BY <1>0, <1>2 DEF TypeOK, WriteEventError
<1>4. WriterFits(n)'
  BY <1>0, <1>1, <1>2 DEF NodeFits, WriterFits, WriteEventError, TypeOK, Sources
<1>5. LinesFit(n)'
  BY <1>0, <1>1 DEF NodeFits, LinesFit, WriteEventError
<1>6. npipe'[n].owner # Nil => \A s : Pending(n, s) => Pending(n, s)'
  BY <1>1, <1>2 DEF Pending, WriteEventError
<1>7. ScannerFits(n)'
  <2>1. npipe'[n].owner # Nil => npipe'[n].owner = npipe[n].owner
    BY <1>1, <1>2
  <2>2. npipe'[n].owner # Nil => (Pending(n, part[n]) => Pending(n, part[n])')
    BY <1>1, <1>2 DEF Pending, WriteEventError
  <2>3. QED
    BY <1>0, <1>1, <1>2, <1>6, <2>1, <2>2
    DEF NodeFits, ScannerFits, Quiet, Collected, Behind, WriteEventError
<1>8. \A m \in Nodes \ {n} : Same(m)
  BY <1>0, <1>1, <1>2 DEF Same, TypeOK, WriteEventError
<1>9. ReaderFits'
  BY <1>0 DEF ReaderFits, Behind, WriteEventError
<1>10. QED
  BY <1>3, <1>4, <1>5, <1>7, <1>8, <1>9, OthersFit DEF IInv, NodeFits

LEMMA ReadReturnsStep ==
  ASSUME IInv, NEW n \in Nodes, BeginRead(n) \/ ReadFails(n)
  PROVE  IInv'
<1> USE DEF nodeVars, readerVars
<1>0. TypeOK /\ NodeFits(n) /\ ReaderFits
  BY DEF IInv
<1>1. /\ spc[n] \in {"read", "wait"} /\ spc'[n] \in {"wait", "exit"}
      /\ \A m \in Nodes \ {n} : spc'[m] = spc[m]
      /\ spc' \in [Nodes -> {"off", "read", "wait", "write", "writing", "exit"}]
      /\ UNCHANGED <<nodeVars, part, readerVars>>
  BY <1>0 DEF BeginRead, ReadFails, TypeOK
<1>2. TypeOK'
  BY <1>0, <1>1 DEF TypeOK
<1>3. WriterFits(n)' /\ LinesFit(n)'
  BY <1>0, <1>1 DEF NodeFits, WriterFits, LinesFit
<1>4. ScannerFits(n)'
  <2>1. Pending(n, part[n])' <=> Pending(n, part[n])
    BY <1>1 DEF Pending
  <2>2. QED
    BY <1>0, <1>1, <2>1 DEF NodeFits, ScannerFits, Quiet
<1>5. \A m \in Nodes \ {n} : Same(m)
  BY <1>1 DEF Same
<1>6. ReaderFits'
  BY <1>0, <1>1 DEF ReaderFits, Behind, TypeOK, Pipes
<1>7. QED
  BY <1>2, <1>3, <1>4, <1>5, <1>6, OthersFit DEF IInv, NodeFits

LEMMA StopReadingStep ==
  ASSUME IInv, StopReading PROVE IInv'
<1> USE DEF StopReading, nodeVars
<1>1. TypeOK'
  BY DEF IInv, TypeOK
<1>2. \A m \in Nodes : Same(m)
  BY DEF Same
<1>3. \A m \in Nodes : NodeFits(m)'
  BY <1>2, SameFits DEF IInv
<1>4. ReaderFits'
  BY DEF IInv, ReaderFits, Behind
<1>5. QED
  BY <1>1, <1>3, <1>4 DEF IInv

LEMMA WriteLineStep ==
  ASSUME IInv, NEW n \in Nodes, WriteLine(n)
  PROVE  IInv'
<1> USE MixAssumption DEF nodeVars
<1>0. TypeOK /\ NodeFits(n) /\ ReaderFits
  BY DEF IInv
<1>1. /\ spc[n] = "write" /\ apipe.owner = Nil /\ apipe' = Hold(apipe, n, part[n])
      /\ spc' = [spc EXCEPT ![n] = "writing"] /\ part' = [part EXCEPT ![n] = <<>>]
      /\ UNCHANGED <<nodeVars, reading, tail, shown>>
  BY DEF WriteLine
<1>2. part[n] \in Seq(Units) /\ <<>> \in Seq(Units) /\ spc'[n] = "writing" /\ part'[n] = <<>>
  BY <1>0, <1>1, EmptySeq DEF TypeOK
<1>3. apipe' \in Pipes(Nodes, {TRUE}) /\ apipe'.owner = n /\ apipe'.rest = part[n]
  <2>1. n \in Nodes \cup {Nil} /\ apipe \in Pipes(Nodes, {TRUE})
    BY <1>0 DEF TypeOK
  <2>2. QED
    BY <1>1, <1>2, <2>1, HoldPipe
<1>4. TypeOK'
  BY <1>0, <1>1, <1>2, <1>3 DEF TypeOK
<1>5. WriterFits(n)' /\ LinesFit(n)'
  BY <1>0, <1>1, <1>2 DEF NodeFits, WriterFits, LinesFit
<1>6. ScannerFits(n)'
  <2>1. Pending(n, <<>>) => Pending(n, <<>>)'
    BY <1>1 DEF Pending
  <2>2. QED
    BY <1>0, <1>1, <1>2, <1>3, <2>1 DEF NodeFits, ScannerFits
<1>7. \A m \in Nodes \ {n} : Same(m)
  BY <1>0, <1>1 DEF Same, TypeOK
<1>8. ReaderFits'
  <2>1. Collected(n)
    BY <1>0, <1>1 DEF NodeFits, ScannerFits
  <2>2. PICK src \in Sources :
          /\ Behind(n, src)
          /\ \E len \in 1 .. MaxLen :
               IsCut(part[n], Line(n, src, accepted[n][src], len), 0, len)
    BY <2>1 DEF Collected
  <2>3. accepted[n][src] \in 1 .. MaxLines
    BY <1>0, <2>2, Counts DEF Behind
  <2>4. Split(<<>>, part[n], n, src, accepted[n][src])
    BY <2>2, <2>3, SplitStart
  <2>5. tail' = <<>> /\ accepted' = accepted /\ shown' = shown
    BY <1>0, <1>1 DEF ReaderFits
  <2>6. Behind(n, src)'
    BY <2>2, <2>5 DEF Behind
  <2>7. Split(tail, apipe.rest, apipe.owner, src, accepted[apipe.owner][src])'
    BY <1>3, <2>4, <2>5
  <2>8. QED
    BY <1>2, <1>3, <2>6, <2>7 DEF ReaderFits
<1>9. QED
  BY <1>4, <1>5, <1>6, <1>7, <1>8, OthersFit DEF IInv, NodeFits

(* What is left in a pipe after a Read of at most cap units. *)
LEMMA TakenPipe ==
  ASSUME NEW writers, NEW opens, NEW pipe \in Pipes(writers, opens), NEW cap \in Nat
  PROVE  /\ Taken(pipe, cap) \in Pipes(writers, opens)
         /\ Taken(pipe, cap).open = pipe.open
         /\ Len(pipe.rest) <= cap =>
              Taken(pipe, cap).owner = Nil /\ Taken(pipe, cap).rest = <<>>
         /\ ~(Len(pipe.rest) <= cap) =>
              /\ Taken(pipe, cap).owner = pipe.owner
              /\ Taken(pipe, cap).rest = SubSeq(pipe.rest, cap + 1, Len(pipe.rest))
<1>1. pipe.rest \in Seq(Units) /\ pipe.owner \in writers \cup {Nil} /\ pipe.open \in opens
  BY DEF Pipes
<1>2. CASE Len(pipe.rest) <= cap
  <2>1. Taken(pipe, cap) = Hold(pipe, Nil, <<>>)
    BY <1>2 DEF Taken
  <2>2. QED
    BY <1>2, <2>1, FreePipe
<1>3. CASE ~(Len(pipe.rest) <= cap)
  <2> DEFINE left == SubSeq(pipe.rest, cap + 1, Len(pipe.rest))
  <2>1. left \in Seq(Units)
    <3>1. Len(pipe.rest) \in Int /\ cap + 1 \in Int
      BY <1>1, LenProperties
    <3>2. \A i \in cap + 1 .. Len(pipe.rest) : pipe.rest[i] \in Units
      BY <1>1, LenProperties, ElementOfSeq
    <3>3. QED
      BY <1>1, <3>1, <3>2, SubSeqProperties
  <2>2. Taken(pipe, cap) = [pipe EXCEPT !.rest = left]
    BY <1>3 DEF Taken
  <2> HIDE DEF left
  <2>3. /\ Taken(pipe, cap) \in Pipes(writers, opens) /\ Taken(pipe, cap).open = pipe.open
        /\ Taken(pipe, cap).owner = pipe.owner /\ Taken(pipe, cap).rest = left
    BY <2>1, <2>2 DEF Pipes
  <2>4. QED
    BY <1>3, <2>3 DEF left
<1>4. QED
  BY <1>2, <1>3

LEMMA ReadPieceStep ==
  ASSUME IInv, NEW n \in Nodes, ReadPiece(n)
  PROVE  IInv'
<1> USE MixAssumption DEF transformVars, readerVars
<1> DEFINE piece == Chunk(npipe[n], LineBuf)
           whole == Len(npipe[n].rest) <= LineBuf
<1>0. TypeOK /\ NodeFits(n) /\ ReaderFits
  BY DEF IInv
<1>1. /\ spc[n] = "wait" /\ npipe[n].rest # <<>>
      /\ part' = [part EXCEPT ![n] = part[n] \o piece]
      /\ spc' = [spc EXCEPT ![n] = IF EndsLine(piece) THEN "write" ELSE "read"]
      /\ npipe' = [npipe EXCEPT ![n] = Taken(npipe[n], LineBuf)]
      /\ whole => WriteReturns(n, npipe[n].owner)
      /\ ~whole => UNCHANGED <<transformVars, apc, accepted>>
      /\ UNCHANGED readerVars
  BY DEF ReadPiece
<1>2. PICK src \in Sources :
        npipe[n].owner = src /\ npipe[n] \in Pipes(Sources, BOOLEAN) /\ LineBuf \in Nat
  BY <1>0, <1>1 DEF NodeFits, WriterFits, TypeOK, Pipes
<1> DEFINE num == accepted[n][src] + 1
<1>3. /\ num \in 1 .. MaxLines
      /\ src = "transform" => owed[n] >= 1 /\ tpc[n] = "writing" /\ apc[n] # "writing"
      /\ src = "announce" => num = 1 /\ apc[n] = "writing" /\ tpc[n] # "writing"
  <2>1. CASE src = "transform"
    <3>1. tpc[n] = "writing" /\ apc[n] # "writing"
      BY <1>0, <1>2, <2>1 DEF NodeFits, WriterFits
    <3>2. owed[n] >= 1 /\ accepted[n]["transform"] + owed[n] <= MaxLines
      BY <1>0, <3>1 DEF NodeFits, LinesFit
    <3>3. num \in 1 .. MaxLines
      BY <1>0, <2>1, <3>2, Counts
    <3>4. QED
      BY <2>1, <3>1, <3>2, <3>3
  <2>2. CASE src = "announce"
    <3>1. tpc[n] # "writing" /\ apc[n] = "writing"
      BY <1>0, <1>2, <2>2 DEF NodeFits, WriterFits
    <3>2. accepted[n]["announce"] = 0
      BY <1>0, <3>1 DEF NodeFits, LinesFit
    <3>3. num = 1 /\ num \in 1 .. MaxLines
      BY <2>2, <3>2
    <3>4. QED
      BY <2>2, <3>1, <3>3
  <2>3. QED
    BY <1>2, <2>1, <2>2 DEF Sources
<1>4. Split(part[n], npipe[n].rest, n, src, num)
  BY <1>0, <1>1, <1>2 DEF NodeFits, ScannerFits, Pending
<1>5. /\ whole => /\ EndsLine(piece)
                  /\ \E len \in 1 .. MaxLen :
                       IsCut(part[n] \o piece, Line(n, src, num, len), 0, len)
      /\ ~whole => /\ ~EndsLine(piece)
                   /\ Split(part[n] \o piece,
                            SubSeq(npipe[n].rest, LineBuf + 1, Len(npipe[n].rest)), n, src, num)
  <2>1. n \in Nodes /\ LineBuf \in Nat \ {0}
    OBVIOUS
  <2> HIDE DEF num
  <2>2. /\ Len(npipe[n].rest) \in Nat
        /\ whole => /\ EndsLine(piece)
                    /\ \E len \in 1 .. MaxLen :
                         IsCut(part[n] \o piece, Line(n, src, num, len), 0, len)
        /\ Len(npipe[n].rest) > LineBuf =>
             /\ ~EndsLine(piece)
             /\ Split(part[n] \o piece,
                      SubSeq(npipe[n].rest, LineBuf + 1, Len(npipe[n].rest)), n, src, num)
    BY <1>2, <1>3, <1>4, <2>1, ReadSplit DEF Chunk
  <2>3. ~whole => Len(npipe[n].rest) > LineBuf
    BY <2>1, <2>2
  <2>4. QED
    BY <2>2, <2>3
<1>6. piece \in Seq(Units)
  <2>1. Len(npipe[n].rest) \in Nat /\ npipe[n].rest \in Seq(Units)
    BY <1>2, LenProperties DEF Pipes
  <2>2. Smaller(LineBuf, Len(npipe[n].rest)) \in 0 .. Len(npipe[n].rest)
    BY <1>2, <2>1 DEF Smaller
  <2>3. \A i \in 1 .. Smaller(LineBuf, Len(npipe[n].rest)) : npipe[n].rest[i] \in Units
    BY <2>1, <2>2, ElementOfSeq
  <2>4. QED
    BY <2>2, <2>3, SubSeqProperties DEF Chunk
<1> HIDE DEF piece
<1>7. /\ npipe'[n] \in Pipes(Sources, BOOLEAN) /\ npipe'[n].open = npipe[n].open
      /\ whole => npipe'[n].owner = Nil /\ npipe'[n].rest = <<>>
      /\ ~whole => /\ npipe'[n].owner = src
                   /\ npipe'[n].rest = SubSeq(npipe[n].rest, LineBuf + 1, Len(npipe[n].rest))
      /\ \A m \in Nodes \ {n} : npipe'[m] = npipe[m]
  <2> DEFINE taken == Taken(npipe[n], LineBuf)
  <2>1. /\ taken \in Pipes(Sources, BOOLEAN) /\ taken.open = npipe[n].open
        /\ whole => taken.owner = Nil /\ taken.rest = <<>>
        /\ ~whole => /\ taken.owner = src
                     /\ taken.rest = SubSeq(npipe[n].rest, LineBuf + 1, Len(npipe[n].rest))
    <3>1. \A p \in Pipes(Sources, BOOLEAN) :
            /\ Taken(p, LineBuf) \in Pipes(Sources, BOOLEAN)
            /\ Taken(p, LineBuf).open = p.open
            /\ Len(p.rest) <= LineBuf =>
                 Taken(p, LineBuf).owner = Nil /\ Taken(p, LineBuf).rest = <<>>
            /\ ~(Len(p.rest) <= LineBuf) =>
                 /\ Taken(p, LineBuf).owner = p.owner
                 /\ Taken(p, LineBuf).rest = SubSeq(p.rest, LineBuf + 1, Len(p.rest))
      BY ONLY <1>2, TakenPipe
    <3>2. QED
      BY ONLY <1>2, <3>1
  <2>2. npipe' = [npipe EXCEPT ![n] = taken] /\ npipe \in [Nodes -> Pipes(Sources, BOOLEAN)]
    BY <1>0, <1>1 DEF TypeOK
  <2> HIDE DEF taken
  <2>3. QED
    BY <2>1, <2>2
<1>8. /\ part'[n] = part[n] \o piece /\ part' \in [Nodes -> Seq(Units)]
      /\ \A m \in Nodes \ {n} : part'[m] = part[m]
  <2>1. part[n] \o piece \in Seq(Units)
    BY <1>0, <1>6, ConcatProperties DEF TypeOK
  <2>2. QED
    BY <1>0, <1>1, <2>1 DEF TypeOK
<1>9. /\ spc'[n] = IF whole THEN "write" ELSE "read"
      /\ spc' \in [Nodes -> {"off", "read", "wait", "write", "writing", "exit"}]
      /\ \A m \in Nodes \ {n} : spc'[m] = spc[m]
  BY <1>0, <1>1, <1>5 DEF TypeOK
<1>10. Quiet(n) /\ \A s \in Sources : accepted[n][s] \in 0 .. MaxLines
  BY <1>0, <1>1, Counts DEF NodeFits, ScannerFits
<1> HIDE DEF whole, num
<1>11. ASSUME ~whole
       PROVE  TypeOK' /\ WriterFits(n)' /\ LinesFit(n)' /\ ScannerFits(n)'
              /\ \A m \in Nodes \ {n} : \A s \in Sources : accepted'[m][s] = accepted[m][s]
  <2>1. UNCHANGED <<tpc, owed, apc, accepted>> /\ UNCHANGED <<apipe, reading, tail, shown>>
    BY <1>1, <1>11
  <2>2. npipe' \in [Nodes -> Pipes(Sources, BOOLEAN)]
    BY <1>0, <1>1, <1>7 DEF TypeOK
  <2>3. TypeOK'
    BY <1>0, <1>8, <1>9, <2>1, <2>2 DEF TypeOK
  <2>4. WriterFits(n)' /\ LinesFit(n)'
    BY <1>0, <1>1, <1>2, <1>7, <1>9, <1>11, <2>1 DEF NodeFits, WriterFits, LinesFit
  <2>5. Pending(n, part[n])'
    BY <1>5, <1>7, <1>8, <1>11, <2>1 DEF Pending, num
  <2>6. Quiet(n)'
    BY <1>10, <2>1 DEF Quiet
  <2>7. ScannerFits(n)'
    BY <1>2, <1>7, <1>9, <1>11, <2>5, <2>6 DEF ScannerFits
  <2>8. QED
    BY <2>1, <2>3, <2>4, <2>7
<1>12. ASSUME whole
       PROVE  TypeOK' /\ WriterFits(n)' /\ LinesFit(n)' /\ ScannerFits(n)'
              /\ \A m \in Nodes \ {n} : \A s \in Sources : accepted'[m][s] = accepted[m][s]
  <2>1. /\ WriteReturns(n, src) /\ UNCHANGED <<apipe, reading, tail, shown>>
        /\ npipe'[n].owner = Nil /\ npipe'[n].rest = <<>> /\ spc'[n] = "write"
    BY <1>1, <1>2, <1>7, <1>9, <1>12
  <2>2. /\ accepted' = [accepted EXCEPT ![n][src] = accepted[n][src] + 1]
        /\ accepted'[n][src] = num
        /\ \A s \in Sources \ {src} : accepted'[n][s] = accepted[n][s]
        /\ \A m \in Nodes \ {n} : \A s \in Sources : accepted'[m][s] = accepted[m][s]
        /\ accepted' \in [Nodes -> [Sources -> 0 .. MaxLines]]
    <3>1. accepted \in [Nodes -> [Sources -> 0 .. MaxLines]] /\ num \in 0 .. MaxLines
      BY <1>0, <1>3 DEF TypeOK
    <3>2. accepted' = [accepted EXCEPT ![n][src] = num]
      BY <2>1 DEF WriteReturns, num
    <3>3. QED
      BY <1>2, <2>1, <3>1, <3>2 DEF WriteReturns, num
  <2>3. ASSUME src = "transform"
        PROVE  TypeOK' /\ WriterFits(n)' /\ LinesFit(n)'
    <3>1. /\ owed' = [owed EXCEPT ![n] = owed[n] - 1]
          /\ tpc' = [tpc EXCEPT ![n] = IF owed[n] = 1 THEN "decode" ELSE "encode"]
          /\ apc' = apc
      BY <2>1, <2>3 DEF WriteReturns
    <3>2. /\ owed[n] \in 1 .. 2 /\ tpc[n] = "writing" /\ apc[n] # "writing"
          /\ accepted[n]["transform"] + owed[n] <= MaxLines
          /\ accepted[n]["transform"] \in Nat /\ MaxLines \in Nat
      BY <1>0, <1>3, <2>3, Counts DEF NodeFits, LinesFit
    <3>3. /\ owed'[n] = owed[n] - 1 /\ owed'[n] \in 0 .. 1
          /\ tpc'[n] \in {"decode", "encode"} /\ (tpc'[n] = "encode" => owed'[n] >= 1)
      BY <1>0, <3>1, <3>2 DEF TypeOK
    <3>4. TypeOK'
      <4>1. owed' \in [Nodes -> 0 .. 2]
        BY <1>0, <3>1, <3>2 DEF TypeOK
      <4>2. npipe' \in [Nodes -> Pipes(Sources, BOOLEAN)]
        BY <1>0, <1>1, <1>7 DEF TypeOK
      <4>3. QED
        BY <1>0, <1>8, <1>9, <2>1, <2>2, <3>1, <4>1, <4>2 DEF TypeOK
    <3>5. WriterFits(n)'
      BY <1>0, <1>1, <1>7, <2>1, <3>1, <3>2, <3>3 DEF NodeFits, WriterFits, Sources
    <3>6. accepted'[n]["transform"] = accepted[n]["transform"] + 1
          /\ accepted'[n]["announce"] = accepted[n]["announce"]
      BY <2>2, <2>3 DEF num, Sources
    <3>7. LinesFit(n)'
      <4>1. accepted'[n]["transform"] + owed'[n] <= MaxLines
        BY <3>2, <3>3, <3>6
      <4>2. QED
        BY <1>0, <3>1, <3>3, <3>6, <4>1 DEF NodeFits, LinesFit
    <3>8. QED
      BY <3>4, <3>5, <3>7
  <2>4. ASSUME src = "announce"
        PROVE  TypeOK' /\ WriterFits(n)' /\ LinesFit(n)'
    <3>1. /\ apc' = [apc EXCEPT ![n] = "announced"] /\ tpc' = tpc /\ owed' = owed
          /\ apc[n] = "writing" /\ tpc[n] # "writing" /\ num = 1
      BY <1>3, <2>1, <2>4 DEF WriteReturns
    <3>2. TypeOK'
      <4>1. npipe' \in [Nodes -> Pipes(Sources, BOOLEAN)]
        BY <1>0, <1>1, <1>7 DEF TypeOK
      <4>2. QED
        BY <1>0, <1>8, <1>9, <2>1, <2>2, <3>1, <4>1 DEF TypeOK
    <3>3. apc'[n] = "announced"
      BY <1>0, <3>1 DEF TypeOK
    <3>4. WriterFits(n)'
      BY <1>0, <1>1, <1>7, <2>1, <3>1, <3>3 DEF NodeFits, WriterFits, Sources
    <3>5. accepted'[n]["transform"] = accepted[n]["transform"] /\ accepted'[n]["announce"] = 1
      BY <2>2, <2>4, <3>1 DEF Sources
    <3>6. LinesFit(n)'
      BY <1>0, <3>1, <3>3, <3>5 DEF NodeFits, LinesFit
    <3>7. QED
      BY <3>2, <3>4, <3>6
  <2>5. Behind(n, src)'
    BY <1>2, <1>10, <2>1, <2>2 DEF Behind, Quiet, num
  <2>6. Collected(n)'
    <3>1. PICK len \in 1 .. MaxLen : IsCut(part[n] \o piece, Line(n, src, num, len), 0, len)
      BY <1>5, <1>12
    <3>2. IsCut(part'[n], Line(n, src, accepted'[n][src], len), 0, len)
      BY <1>8, <2>2, <3>1
    <3>3. QED
      BY <2>5, <3>2 DEF Collected
  <2>7. ScannerFits(n)'
    BY <2>1, <2>6 DEF ScannerFits
  <2>8. QED
    BY <1>2, <2>2, <2>3, <2>4, <2>7 DEF Sources
<1>13. \A m \in Nodes \ {n} : Same(m)
  <2>1. \A m \in Nodes \ {n} :
          \A s \in Sources : accepted'[m][s] = accepted[m][s] /\ shown'[m][s] = shown[m][s]
    BY <1>1, <1>11, <1>12
  <2>2. \A m \in Nodes \ {n} : tpc'[m] = tpc[m] /\ owed'[m] = owed[m] /\ apc'[m] = apc[m]
    <3>1. CASE whole
      BY <1>0, <1>1, <3>1 DEF WriteReturns, TypeOK
    <3>2. CASE ~whole
      BY <1>1, <3>2
    <3>3. QED
      BY <3>1, <3>2
  <2>3. apipe' = apipe
    BY <1>1
  <2>4. QED
    BY <1>7, <1>8, <1>9, <2>1, <2>2, <2>3 DEF Same
<1>14. ReaderFits'
  <2>1. apipe.owner \in Nodes \cup {Nil} /\ apipe' = apipe /\ tail' = tail
    BY <1>0, <1>1 DEF TypeOK, Pipes
  <2>2. apipe.owner # Nil => apipe.owner # n
    BY <1>0, <1>1 DEF ReaderFits
  <2>3. QED
    BY <1>0, <1>13, <2>1, <2>2, SameRead
<1>15. QED
  BY <1>11, <1>12, <1>13, <1>14, OthersFit DEF IInv, NodeFits

(* What a Read of the merged log does: it completes a line, which is shown, or   *)
(* it reads more of the line and not its end.                                    *)
LEMMA MergedRead ==
  ASSUME IInv, ReadMerged
  PROVE  \E n \in Nodes, src \in Sources :
           /\ apipe.owner = n /\ spc[n] = "writing" /\ Behind(n, src)
           /\ \/ /\ Len(apipe.rest) <= ReadBuf
                 /\ spc' = [spc EXCEPT ![n] = "read"]
                 /\ tail' = <<>>
                 /\ shown' = [shown EXCEPT ![n][src] = shown[n][src] + 1]
              \/ /\ ~(Len(apipe.rest) <= ReadBuf)
                 /\ spc' = spc /\ shown' = shown
                 /\ Split(tail', SubSeq(apipe.rest, ReadBuf + 1, Len(apipe.rest)),
                          n, src, accepted[n][src])
<1> USE MixAssumption
<1> DEFINE piece == Chunk(apipe, ReadBuf)
           line == tail \o piece
           rest == SubSeq(apipe.rest, ReadBuf + 1, Len(apipe.rest))
<1>0. TypeOK /\ ReaderFits
  BY DEF IInv
<1>1. /\ apipe.rest # <<>>
      /\ spc' = IF Len(apipe.rest) <= ReadBuf THEN [spc EXCEPT ![apipe.owner] = "read"] ELSE spc
      /\ tail' = IF EndsLine(piece) THEN <<>> ELSE line
      /\ shown' = IF EndsLine(piece) /\ Whole(line)
                    THEN [shown EXCEPT ![line[1].node][line[1].src] = @ + 1] ELSE shown
  BY DEF ReadMerged
<1>2. PICK n \in Nodes : apipe.owner = n
  BY <1>0, <1>1 DEF ReaderFits, TypeOK, Pipes
<1>3. PICK src \in Sources :
        spc[n] = "writing" /\ Behind(n, src) /\ Split(tail, apipe.rest, n, src, accepted[n][src])
  BY <1>0, <1>1, <1>2 DEF ReaderFits
<1> DEFINE num == accepted[n][src]
<1>4. num \in 1 .. MaxLines /\ num = shown[n][src] + 1
  BY <1>0, <1>3, Counts DEF Behind
<1> HIDE DEF num
<1>5. /\ Len(apipe.rest) \in Nat
      /\ Len(apipe.rest) <= ReadBuf =>
           EndsLine(piece) /\ \E len \in 1 .. MaxLen : IsCut(line, Line(n, src, num, len), 0, len)
      /\ Len(apipe.rest) > ReadBuf => ~EndsLine(piece) /\ Split(line, rest, n, src, num)
  <2>1. ReadBuf \in Nat \ {0} /\ Split(tail, apipe.rest, n, src, num)
    BY <1>3 DEF num
  <2>2. QED
    BY <1>4, <2>1, ReadSplit DEF Chunk
<1> HIDE DEF piece, line, rest
<1>6. CASE Len(apipe.rest) <= ReadBuf
  <2>1. PICK len \in 1 .. MaxLen : IsCut(line, Line(n, src, num, len), 0, len)
    BY <1>5, <1>6
  <2>2. line = Line(n, src, num, len)
    BY <1>4, <2>1, CutWhole
  <2>3. line[1] = [node |-> n, src |-> src, num |-> num, at |-> 1, len |-> len]
    <3>1. 1 \in 1 .. len
      OBVIOUS
    <3>2. QED
      BY <1>4, <2>2, <3>1, LineUnits
  <2>4. /\ line[1].node = n /\ line[1].src = src /\ line[1].num = num /\ line[1].len = len
    BY <2>3
  <2>5. Whole(line)
    BY <1>4, <2>2, <2>4 DEF Whole
  <2>6. tail' = <<>> /\ shown' = [shown EXCEPT ![n][src] = shown[n][src] + 1]
    BY <1>1, <1>5, <1>6, <2>4, <2>5
  <2>7. spc' = [spc EXCEPT ![n] = "read"]
    BY <1>1, <1>2, <1>6
  <2>8. QED
    BY <1>2, <1>3, <1>6, <2>6, <2>7
<1>7. CASE ~(Len(apipe.rest) <= ReadBuf)
  <2>1. Len(apipe.rest) > ReadBuf
    BY <1>5, <1>7
  <2>2. spc' = spc /\ shown' = shown /\ tail' = line
    BY <1>1, <1>5, <1>7, <2>1
  <2>3. Split(tail', rest, n, src, num)
    BY <1>5, <2>1, <2>2
  <2>4. QED
    BY <1>2, <1>3, <1>7, <2>2, <2>3 DEF rest, num
<1>8. QED
  BY <1>6, <1>7

LEMMA ReadMergedStep ==
  ASSUME IInv, ReadMerged
  PROVE  IInv'
<1> USE MixAssumption DEF nodeVars
<1>0. TypeOK /\ ReaderFits
  BY DEF IInv
<1>1. PICK n \in Nodes, src \in Sources :
        /\ apipe.owner = n /\ spc[n] = "writing" /\ Behind(n, src)
        /\ \/ /\ Len(apipe.rest) <= ReadBuf
              /\ spc' = [spc EXCEPT ![n] = "read"]
              /\ tail' = <<>>
              /\ shown' = [shown EXCEPT ![n][src] = shown[n][src] + 1]
           \/ /\ ~(Len(apipe.rest) <= ReadBuf)
              /\ spc' = spc /\ shown' = shown
              /\ Split(tail', SubSeq(apipe.rest, ReadBuf + 1, Len(apipe.rest)),
                       n, src, accepted[n][src])
  BY MergedRead
<1>2. UNCHANGED <<nodeVars, part, reading>> /\ apipe' = Taken(apipe, ReadBuf)
  BY DEF ReadMerged
<1>3. /\ apipe' \in Pipes(Nodes, {TRUE})
      /\ Len(apipe.rest) <= ReadBuf => apipe'.owner = Nil /\ apipe'.rest = <<>>
      /\ ~(Len(apipe.rest) <= ReadBuf) =>
           /\ apipe'.owner = n
           /\ apipe'.rest = SubSeq(apipe.rest, ReadBuf + 1, Len(apipe.rest))
  <2> DEFINE opens == {TRUE}
  <2>0. ReadBuf \in Nat
    OBVIOUS
  <2>1. apipe \in Pipes(Nodes, opens)
    BY <1>0 DEF TypeOK
  <2> HIDE DEF opens
  <2>2. \A p \in Pipes(Nodes, opens) :
          /\ Taken(p, ReadBuf) \in Pipes(Nodes, opens)
          /\ Taken(p, ReadBuf).open = p.open
          /\ Len(p.rest) <= ReadBuf =>
               Taken(p, ReadBuf).owner = Nil /\ Taken(p, ReadBuf).rest = <<>>
          /\ ~(Len(p.rest) <= ReadBuf) =>
               /\ Taken(p, ReadBuf).owner = p.owner
               /\ Taken(p, ReadBuf).rest = SubSeq(p.rest, ReadBuf + 1, Len(p.rest))
    BY ONLY <2>0, TakenPipe
  <2>3. QED
    BY ONLY <1>1, <1>2, <2>1, <2>2 DEF opens
<1>4. NodeFits(n)
  BY DEF IInv
<1>5. ASSUME Len(apipe.rest) <= ReadBuf
      PROVE  IInv'
  <2>1. /\ spc' = [spc EXCEPT ![n] = "read"] /\ tail' = <<>>
        /\ shown' = [shown EXCEPT ![n][src] = shown[n][src] + 1]
        /\ apipe'.owner = Nil /\ apipe'.rest = <<>> /\ spc'[n] = "read"
    BY <1>0, <1>1, <1>3, <1>5 DEF TypeOK
  <2>2. /\ shown'[n][src] = accepted[n][src]
        /\ \A s \in Sources \ {src} : shown'[n][s] = shown[n][s]
        /\ \A m \in Nodes \ {n} : \A s \in Sources : shown'[m][s] = shown[m][s]
        /\ shown' \in [Nodes -> [Sources -> 0 .. MaxLines]]
    <3>1. shown \in [Nodes -> [Sources -> 0 .. MaxLines]]
      BY <1>0 DEF TypeOK
    <3>2. shown[n][src] + 1 = accepted[n][src] /\ shown[n][src] + 1 \in 0 .. MaxLines
      BY <1>0, <1>1, Counts DEF Behind
    <3>3. QED
      BY <2>1, <3>1, <3>2
  <2>3. Quiet(n)'
    BY <1>1, <1>2, <2>2 DEF Quiet, Behind
  <2>4. TypeOK'
    <3>1. tail' \in Seq(Units)
      BY <2>1, EmptySeq
    <3>2. QED
      BY <1>0, <1>2, <1>3, <2>1, <2>2, <3>1 DEF TypeOK
  <2>5. WriterFits(n)' /\ LinesFit(n)'
    BY <1>1, <1>2, <1>4, <2>1 DEF NodeFits, WriterFits, LinesFit
  <2>6. ScannerFits(n)'
    <3>1. part'[n] = <<>>
      BY <1>1, <1>2, <1>4 DEF NodeFits, ScannerFits
    <3>2. npipe'[n].owner # Nil => Pending(n, <<>>)'
      BY <1>1, <1>2, <1>4 DEF NodeFits, ScannerFits, Pending
    <3>3. npipe'[n].owner # Nil => Pending(n, part[n])'
      BY <3>1, <3>2 DEF Pending
    <3>4. QED
      BY <2>1, <2>3, <3>1, <3>3 DEF ScannerFits
  <2>7. \A m \in Nodes \ {n} : Same(m)
    BY <1>0, <1>1, <1>2, <2>1, <2>2 DEF Same, TypeOK
  <2>8. ReaderFits'
    BY <2>1 DEF ReaderFits
  <2>9. QED
    BY <2>4, <2>5, <2>6, <2>7, <2>8, OthersFit DEF IInv, NodeFits
<1>6. ASSUME ~(Len(apipe.rest) <= ReadBuf)
      PROVE  IInv'
  <2>1. /\ spc' = spc /\ shown' = shown /\ apipe'.owner = n
        /\ Split(tail', apipe'.rest, n, src, accepted[n][src])
    BY <1>1, <1>3, <1>6
  <2>2. TypeOK'
    <3>1. tail' \in Seq(Units)
      BY <2>1, SplitTyped
    <3>2. QED
      BY <1>0, <1>2, <1>3, <2>1, <3>1 DEF TypeOK
  <2>3. \A m \in Nodes : Same(m)
    BY <1>1, <1>2, <2>1 DEF Same
  <2>4. \A m \in Nodes : NodeFits(m)'
    BY <1>0, <2>3, SameFits DEF IInv
  <2>5. Behind(n, src)'
    BY <1>1, <1>2, <2>1 DEF Behind
  <2>6. ReaderFits'
    BY <1>1, <1>2, <2>1, <2>5 DEF ReaderFits
  <2>7. QED
    BY <2>2, <2>4, <2>6 DEF IInv
<1>7. QED
  BY <1>5, <1>6

LEMMA NextIInv ==
  ASSUME IInv, [Next]_vars PROVE IInv'
<1>1. ASSUME NEW n \in Nodes, MixReader(n) PROVE IInv'
  BY <1>1, MixReaderStep
<1>2. ASSUME NEW n \in Nodes, Transform(n) PROVE IInv'
  BY <1>2, DecodeStep, DecodeErrorStep, EncodeStep DEF Transform
<1>3. ASSUME NEW n \in Nodes, Announce(n) PROVE IInv'
  BY <1>3, WriteEventStep, WriteEventErrorStep DEF Announce
<1>4. ASSUME NEW n \in Nodes, MixScanner(n) PROVE IInv'
  BY <1>4, ReadReturnsStep, ReadPieceStep, WriteLineStep DEF MixScanner
<1>5. ASSUME UNCHANGED vars PROVE IInv'
  <2> USE <1>5 DEF vars
  <2>1. TypeOK'
    BY DEF IInv, TypeOK
  <2>2. \A m \in Nodes : Same(m)
    BY DEF Same
  <2>3. \A m \in Nodes : NodeFits(m)'
    BY <2>2, SameFits DEF IInv
  <2>4. ReaderFits'
    BY DEF IInv, ReaderFits, Behind
  <2>5. QED
    BY <2>1, <2>3, <2>4 DEF IInv
<1>6. QED
  BY <1>1, <1>2, <1>3, <1>4, <1>5, ReadMergedStep, StopReadingStep DEF Next

-----------------------------------------------------------------------------
(* Theorems *)

(* Every pipe is held by the source that writes to it, and what was read of a    *)
(* line and what is left of it are that line, at the pipes of the nodes and at   *)
(* the one they share.                                                           *)
THEOREM Invariance == Spec => []IInv
<1>1. Init => IInv
  BY InitIInv
<1>2. IInv /\ [Next]_vars => IInv'
  BY NextIInv
<1>3. QED
  BY <1>1, <1>2, PTL DEF Spec

(* Every variable of the log mixer has its type. *)
THEOREM TypeCorrect == Spec => []TypeOK
<1>1. IInv => TypeOK
  BY DEF IInv
<1>2. QED
  BY <1>1, Invariance, PTL

(* What the reader of the merged log has of a line is the beginning of one line, *)
(* however many nodes write and however long their lines are.                    *)
THEOREM TailIntactAlways == Spec => []TailIntact
<1>1. IInv => TailIntact
  <2> SUFFICES ASSUME IInv, NEW i \in 1 .. Len(tail) PROVE tail[i] = [tail[1] EXCEPT !.at = i]
    BY DEF TailIntact
  <2>1. tail # <<>>
    BY EmptySeq
  <2>2. PICK n \in Nodes, src \in Sources :
          Behind(n, src) /\ Split(tail, apipe.rest, n, src, accepted[n][src])
    BY <2>1 DEF IInv, ReaderFits, TypeOK, Pipes
  <2> DEFINE num == accepted[n][src]
  <2>3. num \in 1 .. MaxLines
    BY <2>2, Counts DEF Behind, IInv
  <2> HIDE DEF num
  <2>4. PICK len \in 1 .. MaxLen :
          \E k \in 0 .. len - 1 : IsCut(tail, Line(n, src, num, len), 0, k)
    BY <2>2 DEF Split, num
  <2>5. PICK k \in 0 .. len - 1 : IsCut(tail, Line(n, src, num, len), 0, k)
    BY <2>4
  <2>6. Len(tail) = k /\ i \in 1 .. len /\ 1 \in 1 .. k /\ 1 \in 1 .. len
    BY <2>5, MixAssumption DEF IsCut
  <2>7. tail[i] = Line(n, src, num, len)[i] /\ tail[1] = Line(n, src, num, len)[1]
    BY <2>5, <2>6 DEF IsCut
  <2>8. /\ tail[i] = [node |-> n, src |-> src, num |-> num, at |-> i, len |-> len]
        /\ tail[1] = [node |-> n, src |-> src, num |-> num, at |-> 1, len |-> len]
    BY <2>3, <2>6, <2>7, LineUnits
  <2>9. QED
    BY <2>8
<1>2. QED
  BY <1>1, Invariance, PTL

(* A Read that completes a line at a node's pipe accepts it, a Read that         *)
(* completes a line of the merged log shows it, and no other step changes what   *)
(* is accepted or shown.                                                         *)
LEMMA MixStep ==
  ASSUME IInv, [Next]_vars PROVE [Mix!Next]_(Mix!vars)
<1> USE DEF Mix!vars
<1>1. ASSUME NEW n \in Nodes, ReadPiece(n) PROVE [Mix!Next]_(Mix!vars)
  <2>1. CASE Len(npipe[n].rest) <= LineBuf
    <3>1. npipe[n].owner \in Sources /\ Quiet(n)
      BY <1>1 DEF IInv, NodeFits, WriterFits, ScannerFits, ReadPiece, TypeOK, Pipes
    <3>2. WriteReturns(n, npipe[n].owner) /\ shown' = shown
      BY <1>1, <2>1 DEF ReadPiece, readerVars
    <3>3. Mix!Accept(n, npipe[n].owner)
      BY <3>1, <3>2 DEF WriteReturns, Quiet, Mix!Accept
    <3>4. QED
      BY <3>1, <3>3 DEF Mix!Next
  <2>2. CASE ~(Len(npipe[n].rest) <= LineBuf)
    BY <1>1, <2>2 DEF ReadPiece, readerVars
  <2>3. QED
    BY <2>1, <2>2
<1>2. ASSUME ReadMerged PROVE [Mix!Next]_(Mix!vars)
  <2>1. accepted' = accepted
    BY <1>2 DEF ReadMerged, nodeVars
  <2>2. PICK n \in Nodes, src \in Sources :
          /\ Behind(n, src)
          /\ \/ shown' = [shown EXCEPT ![n][src] = shown[n][src] + 1]
             \/ shown' = shown
    BY <1>2, MergedRead
  <2>3. shown[n][src] < accepted[n][src]
    BY <2>2, Counts DEF Behind, IInv
  <2>4. QED
    BY <2>1, <2>2, <2>3 DEF Mix!Next, Mix!Show
<1>3. CASE UNCHANGED <<accepted, shown>>
  BY <1>3
<1>4. ASSUME ~ReadMerged, \A n \in Nodes : ~ReadPiece(n) PROVE UNCHANGED <<accepted, shown>>
  BY <1>4 DEF Next, MixReader, Transform, Decode, DecodeError, Encode, Announce, WriteEvent,
              WriteEventError, MixScanner, BeginRead, ReadFails, WriteLine, StopReading,
              vars, nodeVars, transformVars, readerVars
<1>5. QED
  BY <1>1, <1>2, <1>3, <1>4

(* aggregator.go: the merged log is what LineMix promises: whole lines, each     *)
(* once and in the order of its source, and at most one line of a node on its    *)
(* way.                                                                          *)
THEOREM Refinement == Spec => RefinesLineMix
<1>1. Init => Mix!Init
  BY DEF Init, Mix!Init
<1>2. IInv /\ [Next]_vars => [Mix!Next]_(Mix!vars)
  BY MixStep
<1>3. QED
  BY <1>1, <1>2, Invariance, PTL DEF Spec, RefinesLineMix, Mix!Spec

-----------------------------------------------------------------------------
(* What AcceptedIsShown and AnnouncementEnds rest on: nobody waits for a lock or *)
(* a line that does not come.                                                    *)

(* The node has a line that is to be written, or on its way. *)
Busy(n) ==
  \/ tpc[n] \in {"encode", "writing"}
  \/ apc[n] \in {"announce", "writing"}
  \/ spc[n] \in {"write", "writing"}

(* The guards of the steps of the node's goroutines, but for Decode and          *)
(* DecodeError, which its daemon does not owe.                                   *)
Proceeds(n) ==
  \/ tpc[n] = "encode" /\ npipe[n].owner = Nil
  \/ apc[n] = "announce" /\ npipe[n].owner = Nil
  \/ apc[n] \in {"announce", "writing"} /\ ~npipe[n].open
  \/ spc[n] = "read"
  \/ spc[n] = "wait" /\ (npipe[n].rest # <<>> \/ ~npipe[n].open)
  \/ spc[n] = "write" /\ apipe.owner = Nil

(* While a node has a line on its way, one of its goroutines can go on, or there *)
(* is something for the pump to read: the two locks that a line needs, of the    *)
(* node's pipe and of the aggregator's, are never held by goroutines that wait   *)
(* for each other, and a closed stream holds nobody up.                          *)
NobodyStuck == \A n \in Nodes : Busy(n) => Proceeds(n) \/ apipe.rest # <<>>

(* mixScanner leaves its loop only when the stream is closed. *)
ExitsClosed == \A n \in Nodes : spc[n] = "exit" => npipe[n].open = FALSE

(* What is left of a line that is being written is not empty. *)
LEMMA SplitLeft ==
  ASSUME NEW begun, NEW left, NEW n, NEW src, NEW num, Split(begun, left, n, src, num)
  PROVE  left # <<>>
<1>1. PICK len \in 1 .. MaxLen : \E k \in 0 .. len - 1 :
           IsCut(left, Line(n, src, num, len), k, len)
  BY DEF Split
<1>2. PICK k \in 0 .. len - 1 : IsCut(left, Line(n, src, num, len), k, len)
  BY <1>1
<1>3. Len(left) = len - k
  BY <1>2 DEF IsCut
<1>4. len \in Nat /\ k \in Nat /\ k <= len - 1
  BY MixAssumption
<1>5. Len(left) # 0 /\ Len(<<>>) = 0
  BY <1>3, <1>4
<1>6. QED
  BY <1>5

(* A pipe that is closed is never opened again. *)
LEMMA StaysClosed ==
  ASSUME TypeOK, NEW n \in Nodes, NEW pipe, pipe.open = npipe[n].open \/ pipe.open = FALSE,
         npipe' = [npipe EXCEPT ![n] = pipe]
  PROVE  \A l \in Nodes : npipe[l].open = FALSE => npipe'[l].open = FALSE
BY DEF TypeOK

LEMMA ExitsClosedAlways == Spec => []ExitsClosed
<1>1. Init => ExitsClosed
  BY DEF Init, ExitsClosed
<1>2. ASSUME IInv, ExitsClosed, [Next]_vars PROVE ExitsClosed'
  <2> USE DEF ExitsClosed
  <2>1. TypeOK
    BY <1>2 DEF IInv
  <2>2. ASSUME NEW n \in Nodes, MixReader(n) PROVE ExitsClosed'
    BY <1>2, <2>1, <2>2 DEF MixReader, TypeOK
  <2>3. ASSUME NEW n \in Nodes, Transform(n) PROVE ExitsClosed'
    <3>1. spc' = spc
      BY <2>3 DEF Transform, Decode, DecodeError, Encode
    <3>2. \A l \in Nodes : npipe[l].open = FALSE => npipe'[l].open = FALSE
      <4>1. \A data : Hold(npipe[n], "transform", data).open = npipe[n].open
        BY <2>1 DEF Hold, TypeOK, Pipes
      <4>2. [npipe[n] EXCEPT !.open = FALSE].open = FALSE
        BY <2>1 DEF TypeOK, Pipes
      <4>3. CASE Encode(n)
        BY <2>1, <4>1, <4>3, StaysClosed DEF Encode
      <4>4. CASE DecodeError(n)
        BY <2>1, <4>2, <4>4, StaysClosed DEF DecodeError
      <4>5. CASE npipe' = npipe
        BY <4>5
      <4>6. QED
        BY <2>3, <4>3, <4>4, <4>5 DEF Transform, Decode
    <3>3. QED
      BY <1>2, <3>1, <3>2
  <2>4. ASSUME NEW n \in Nodes, Announce(n) PROVE ExitsClosed'
    <3>1. spc' = spc
      BY <2>4 DEF Announce, WriteEvent, WriteEventError
    <3>2. \A l \in Nodes : npipe[l].open = FALSE => npipe'[l].open = FALSE
      <4>1. \A w, data : Hold(npipe[n], w, data).open = npipe[n].open
        BY <2>1 DEF Hold, TypeOK, Pipes
      <4>2. CASE WriteEvent(n)
        BY <2>1, <4>1, <4>2, StaysClosed DEF WriteEvent
      <4>3. CASE WriteEventError(n)
        BY <2>1, <4>1, <4>3, StaysClosed DEF WriteEventError
      <4>4. QED
        BY <2>4, <4>2, <4>3 DEF Announce
    <3>3. QED
      BY <1>2, <3>1, <3>2
  <2>5. ASSUME NEW n \in Nodes, BeginRead(n) \/ ReadFails(n) PROVE ExitsClosed'
    BY <1>2, <2>1, <2>5 DEF BeginRead, ReadFails, nodeVars, TypeOK, Pipes
  <2>6. ASSUME NEW n \in Nodes, ReadPiece(n) PROVE ExitsClosed'
    <3>1. \A l \in Nodes : spc'[l] = "exit" => spc[l] = "exit"
      BY <2>1, <2>6 DEF ReadPiece, TypeOK
    <3>2. \A l \in Nodes : npipe[l].open = FALSE => npipe'[l].open = FALSE
      BY <2>1, <2>6 DEF ReadPiece, Taken, Hold, TypeOK, Pipes
    <3>3. QED
      BY <1>2, <3>1, <3>2
  <2>7. ASSUME NEW n \in Nodes, WriteLine(n) PROVE ExitsClosed'
    BY <1>2, <2>1, <2>7 DEF WriteLine, nodeVars, TypeOK
  <2>8. CASE ReadMerged
    <3>1. \A l \in Nodes : spc'[l] = "exit" => spc[l] = "exit"
      BY <2>1, <2>8 DEF ReadMerged, TypeOK
    <3>2. npipe' = npipe
      BY <2>8 DEF ReadMerged, nodeVars
    <3>3. QED
      BY <1>2, <3>1, <3>2
  <2>9. CASE StopReading
    BY <1>2, <2>9 DEF StopReading, nodeVars
  <2>10. CASE UNCHANGED vars
    BY <1>2, <2>10 DEF vars
  <2>11. QED
    BY <1>2, <2>2, <2>3, <2>4, <2>5, <2>6, <2>7, <2>8, <2>9, <2>10 DEF Next, MixScanner
<1>3. QED
  BY <1>1, <1>2, Invariance, PTL DEF Spec

(* simlogger.go:47-79, aggregator.go:32-47: no lines wait for each other, for any *)
(* number of nodes.                                                               *)
THEOREM NobodyStuckAlways == Spec => []NobodyStuck
<1>1. ASSUME IInv, ExitsClosed PROVE NobodyStuck
  <2> SUFFICES ASSUME NEW n \in Nodes, Busy(n) PROVE Proceeds(n) \/ apipe.rest # <<>>
    BY DEF NobodyStuck
  <2>1. TypeOK /\ WriterFits(n) /\ ScannerFits(n) /\ ReaderFits
    BY <1>1 DEF IInv, NodeFits
  <2>2. apipe.owner # Nil => apipe.rest # <<>>
    <3>1. ASSUME apipe.owner # Nil PROVE apipe.rest # <<>>
      <4>1. PICK src \in Sources :
              Split(tail, apipe.rest, apipe.owner, src, accepted[apipe.owner][src])
        BY <2>1, <3>1 DEF ReaderFits
      <4>2. QED
        BY <4>1, SplitLeft
    <3>2. QED
      BY <3>1
  <2>3. npipe[n].open \in BOOLEAN
    BY <2>1 DEF TypeOK, Pipes
  <2>4. CASE spc[n] = "off"
    BY <2>1, <2>4 DEF WriterFits, Busy
  <2>5. CASE spc[n] = "read"
    BY <2>5 DEF Proceeds
  <2>6. CASE spc[n] = "wait"
    <3>1. npipe[n].owner # Nil => npipe[n].rest # <<>>
      BY <2>1, <2>6, SplitLeft DEF ScannerFits, Pending
    <3>2. CASE npipe[n].owner = Nil
      <4>1. tpc[n] # "writing" /\ apc[n] # "writing"
        BY <2>1, <3>2, MixAssumption DEF WriterFits, Sources
      <4>2. QED
        BY <2>6, <3>2, <4>1 DEF Busy, Proceeds
    <3>3. QED
      BY <2>6, <3>1, <3>2 DEF Proceeds
  <2>7. CASE spc[n] = "write"
    BY <2>2, <2>7 DEF Proceeds
  <2>8. CASE spc[n] = "writing"
    <3>1. apipe.owner = n /\ n # Nil
      BY <2>1, <2>8, MixAssumption DEF ScannerFits
    <3>2. QED
      BY <2>2, <3>1
  <2>9. CASE spc[n] = "exit"
    <3>1. npipe[n].open = FALSE /\ tpc[n] = "stopped"
      BY <1>1, <2>1, <2>9 DEF ExitsClosed, WriterFits
    <3>2. QED
      BY <2>9, <3>1 DEF Busy, Proceeds
  <2>10. QED
    BY <2>1, <2>4, <2>5, <2>6, <2>7, <2>8, <2>9 DEF TypeOK
<1>2. QED
  BY <1>1, Invariance, ExitsClosedAlways, PTL

-----------------------------------------------------------------------------
(* The other part of it: every step brings a line nearer to the reader.          *)

(* Where mixScanner is, in the order in which it is there for a line.            *)
ScanStage(n) ==
  CASE spc[n] = "off" -> 5
    [] spc[n] = "write" -> 4
    [] spc[n] = "writing" -> 3
    [] spc[n] = "read" -> 2
    [] spc[n] = "wait" -> 1
    [] spc[n] = "exit" -> 0

(* The node's line on its way is where it was. *)
LineKept(n) ==
  /\ npipe'[n].rest = npipe[n].rest
  /\ spc'[n] = spc[n]
  /\ spc[n] = "writing" => apipe'.rest = apipe.rest

(* It is nearer to the reader: less of it is left in the node's pipe, or the     *)
(* scanner has come further, or less of it is left in the aggregator's pipe.     *)
LineNearer(n) ==
  \/ Len(npipe'[n].rest) < Len(npipe[n].rest)
  \/ npipe'[n].rest = npipe[n].rest /\ ScanStage(n)' < ScanStage(n)
  \/ /\ npipe'[n].rest = npipe[n].rest
     /\ spc[n] = "writing" /\ spc'[n] = "writing" /\ Len(apipe'.rest) < Len(apipe.rest)

(* A source of the node gets the lock of its pipe, with a new line. *)
LineBegins(n) == npipe[n].owner = Nil /\ npipe'[n].owner # Nil /\ spc' = spc /\ apipe' = apipe

(* The announcement fails, once. *)
Fails(n) == apc[n] # "failed" /\ apc'[n] = "failed"

LinesMove ==
  \/ \E n \in Nodes : /\ LineNearer(n) \/ LineBegins(n) \/ Fails(n)
                      /\ \A m \in Nodes \ {n} : LineKept(m)
  \/ /\ (\E n \in Nodes : tpc[n] = "decode") \/ (reading /\ ~reading')
     /\ \A m \in Nodes : LineKept(m)

LinesEnd == [][LinesMove]_vars

(* Nobody but its owner is writing to the aggregator's pipe. *)
LEMMA OneWriter ==
  ASSUME IInv, NEW m \in Nodes, spc[m] = "writing"
  PROVE  apipe.owner = m
BY DEF IInv, NodeFits, ScannerFits

(* A step at one node's pipe. *)
LEMMA PipeStep ==
  ASSUME IInv, NEW n \in Nodes, NEW pipe \in Pipes(Sources, BOOLEAN),
         npipe' = [npipe EXCEPT ![n] = pipe], UNCHANGED <<spc, apipe>>
  PROVE  /\ npipe'[n] = pipe
         /\ \A m \in Nodes \ {n} : LineKept(m)
BY DEF IInv, TypeOK, LineKept

LEMMA SourceMoves ==
  ASSUME IInv, NEW n \in Nodes, MixReader(n) \/ Transform(n) \/ Announce(n)
  PROVE  LinesMove
<1> USE MixAssumption DEF readerVars, transformVars
<1>0. TypeOK /\ npipe[n] \in Pipes(Sources, BOOLEAN)
  BY DEF IInv, TypeOK
<1>1. CASE MixReader(n)
  <2>1. spc[n] = "off"
    BY <1>1 DEF IInv, NodeFits, WriterFits, MixReader
  <2>2. LineNearer(n)
    BY <1>0, <1>1, <2>1 DEF MixReader, LineNearer, ScanStage, TypeOK
  <2>3. \A m \in Nodes \ {n} : LineKept(m)
    BY <1>0, <1>1 DEF MixReader, LineKept, TypeOK
  <2>4. QED
    BY <2>2, <2>3 DEF LinesMove
<1>2. ASSUME NEW k \in LineCounts, Decode(n, k) PROVE LinesMove
  <2>1. tpc[n] = "decode" /\ \A m \in Nodes : LineKept(m)
    BY <1>2 DEF Decode, LineKept
  <2>2. QED
    BY <2>1 DEF LinesMove
<1>3. CASE DecodeError(n)
  <2>1. /\ tpc[n] = "decode" /\ UNCHANGED <<spc, apipe>>
        /\ npipe' = [npipe EXCEPT ![n].open = FALSE]
    BY <1>3 DEF DecodeError
  <2>2. \A m \in Nodes : npipe'[m].rest = npipe[m].rest
    BY <1>0, <2>1 DEF TypeOK, Pipes
  <2>3. QED
    BY <2>1, <2>2 DEF LinesMove, LineKept
<1>4. ASSUME NEW src \in Sources, NEW data \in Seq(Units), npipe[n].owner = Nil,
             npipe' = [npipe EXCEPT ![n] = Hold(npipe[n], src, data)],
             UNCHANGED <<spc, apipe>>
      PROVE  LinesMove
  <2>1. /\ Hold(npipe[n], src, data) \in Pipes(Sources, BOOLEAN)
        /\ Hold(npipe[n], src, data).owner = src
    BY <1>0, HoldPipe
  <2>2. npipe'[n].owner = src /\ \A m \in Nodes \ {n} : LineKept(m)
    BY <1>4, <2>1, PipeStep
  <2>3. LineBegins(n)
    BY <1>4, <2>2 DEF LineBegins
  <2>4. QED
    BY <2>2, <2>3 DEF LinesMove
<1>5. ASSUME NEW src \in Sources, NEW num \in 1 .. MaxLines, NEW len \in 1 .. MaxLen
      PROVE  Line(n, src, num, len) \in Seq(Units)
  BY <1>5, LineUnits
<1>6. CASE Encode(n)
  <2>1. PICK len \in 1 .. MaxLen :
          npipe' = [npipe EXCEPT ![n] =
            Hold(npipe[n], "transform", Line(n, "transform", accepted[n]["transform"] + 1, len))]
    BY <1>0, <1>6 DEF Encode, TypeOK
  <2>2. accepted[n]["transform"] + 1 \in 1 .. MaxLines
    BY <1>0, <1>6, Counts DEF Encode, IInv, NodeFits, LinesFit
  <2>3. "transform" \in Sources
    BY DEF Sources
  <2>4. npipe[n].owner = Nil /\ UNCHANGED <<spc, apipe>>
    BY <1>6 DEF Encode
  <2>5. QED
    BY <1>4, <1>5, <2>1, <2>2, <2>3, <2>4
<1>7. CASE WriteEvent(n)
  <2>1. PICK len \in 1 .. MaxLen :
          npipe' = [npipe EXCEPT ![n] = Hold(npipe[n], "announce", Line(n, "announce", 1, len))]
    BY <1>0, <1>7 DEF WriteEvent, TypeOK
  <2>2. 1 \in 1 .. MaxLines /\ "announce" \in Sources
    BY DEF Sources
  <2>3. npipe[n].owner = Nil /\ UNCHANGED <<spc, apipe>>
    BY <1>7 DEF WriteEvent
  <2>4. QED
    BY <1>4, <1>5, <2>1, <2>2, <2>3
<1>8. CASE WriteEventError(n)
  <2>1. Fails(n)
    BY <1>0, <1>8 DEF WriteEventError, Fails, TypeOK
  <2>2. \A m \in Nodes \ {n} : LineKept(m)
    BY <1>0, <1>8 DEF WriteEventError, LineKept, TypeOK
  <2>3. QED
    BY <2>1, <2>2 DEF LinesMove
<1>9. QED
  BY <1>1, <1>2, <1>3, <1>6, <1>7, <1>8 DEF Transform, Announce

(* What is left after a Read of at least one unit is less. *)
LEMMA LessLeft ==
  ASSUME NEW writers, NEW opens, NEW pipe \in Pipes(writers, opens), NEW cap \in Nat \ {0},
         pipe.rest # <<>>
  PROVE  Len(Taken(pipe, cap).rest) < Len(pipe.rest)
<1>1. pipe.rest \in Seq(Units) /\ Len(pipe.rest) \in Nat \ {0} /\ cap \in Nat
  BY EmptySeq, LenProperties DEF Pipes
<1>2. CASE Len(pipe.rest) <= cap
  <2>1. Taken(pipe, cap).rest = <<>> /\ Len(<<>>) = 0
    BY <1>2, TakenPipe
  <2>2. QED
    BY <1>1, <2>1
<1>3. CASE ~(Len(pipe.rest) <= cap)
  <2>1. Taken(pipe, cap).rest = SubSeq(pipe.rest, cap + 1, Len(pipe.rest))
    <3>1. Taken(pipe, cap) = [pipe EXCEPT !.rest = SubSeq(@, cap + 1, Len(@))]
      BY <1>3 DEF Taken
    <3>2. QED
      BY <3>1 DEF Pipes
  <2>2. Len(SubSeq(pipe.rest, cap + 1, Len(pipe.rest))) = Len(pipe.rest) - cap
    BY <1>1, <1>3
  <2>3. QED
    BY <1>1, <2>1, <2>2
<1>4. QED
  BY <1>2, <1>3

LEMMA ScannerMoves ==
  ASSUME IInv, NEW n \in Nodes, MixScanner(n)
  PROVE  LinesMove
<1> USE MixAssumption DEF nodeVars, readerVars
<1>0. TypeOK /\ npipe[n] \in Pipes(Sources, BOOLEAN)
  BY DEF IInv, TypeOK
<1>1. CASE BeginRead(n) \/ ReadFails(n)
  <2>1. LineNearer(n)
    BY <1>0, <1>1 DEF BeginRead, ReadFails, LineNearer, ScanStage, TypeOK
  <2>2. \A m \in Nodes \ {n} : LineKept(m)
    BY <1>0, <1>1 DEF BeginRead, ReadFails, LineKept, TypeOK
  <2>3. QED
    BY <2>1, <2>2 DEF LinesMove
<1>2. CASE ReadPiece(n)
  <2>1. /\ npipe[n].rest # <<>> /\ npipe' = [npipe EXCEPT ![n] = Taken(npipe[n], LineBuf)]
        /\ apipe' = apipe /\ \A m \in Nodes \ {n} : spc'[m] = spc[m]
    BY <1>0, <1>2 DEF ReadPiece, TypeOK
  <2>2. Len(npipe'[n].rest) < Len(npipe[n].rest)
    BY <1>0, <2>1, LessLeft DEF TypeOK
  <2>3. \A m \in Nodes \ {n} : LineKept(m)
    BY <1>0, <2>1 DEF LineKept, TypeOK
  <2>4. QED
    BY <2>2, <2>3 DEF LinesMove, LineNearer
<1>3. CASE WriteLine(n)
  <2>1. LineNearer(n)
    BY <1>0, <1>3 DEF WriteLine, LineNearer, ScanStage, TypeOK
  <2>2. \A m \in Nodes : spc[m] # "writing"
    BY <1>3, OneWriter DEF WriteLine
  <2>3. \A m \in Nodes \ {n} : LineKept(m)
    BY <1>0, <1>3, <2>2 DEF WriteLine, LineKept, TypeOK
  <2>4. QED
    BY <2>1, <2>3 DEF LinesMove
<1>4. QED
  BY <1>1, <1>2, <1>3 DEF MixScanner

LEMMA ReaderMoves ==
  ASSUME IInv, ReadMerged
  PROVE  LinesMove
<1> USE MixAssumption
<1>0. TypeOK /\ ReaderFits /\ apipe \in Pipes(Nodes, {TRUE})
  BY DEF IInv, TypeOK
<1>1. /\ apipe.rest # <<>> /\ apipe' = Taken(apipe, ReadBuf) /\ npipe' = npipe
      /\ spc' = IF Len(apipe.rest) <= ReadBuf THEN [spc EXCEPT ![apipe.owner] = "read"] ELSE spc
  BY DEF ReadMerged, nodeVars
<1>2. PICK n \in Nodes : apipe.owner = n /\ spc[n] = "writing"
  BY <1>0, <1>1 DEF ReaderFits, Pipes
<1>3. \A m \in Nodes \ {n} : LineKept(m)
  BY <1>0, <1>1, <1>2, OneWriter DEF LineKept, TypeOK
<1>4. Len(apipe'.rest) < Len(apipe.rest)
  BY <1>0, <1>1, LessLeft
<1>5. spc'[n] \in {"read", "writing"}
  BY <1>0, <1>1, <1>2 DEF TypeOK
<1>6. LineNearer(n)
  BY <1>1, <1>2, <1>4, <1>5 DEF LineNearer, ScanStage
<1>7. QED
  BY <1>3, <1>6 DEF LinesMove

(* Each step of the scanners and of the reader brings one line nearer to the     *)
(* reader, and moves no other: a line of k units needs at most 3 * k + 1 of them *)
(* from the lock of its node's pipe on until it is shown.  What adds to this are *)
(* new lines, and nothing else.                                                  *)
THEOREM LinesEndAlways == Spec => LinesEnd
<1>1. ASSUME IInv, [Next]_vars PROVE [LinesMove]_vars
  <2>1. CASE StopReading
    BY <2>1 DEF StopReading, nodeVars, LinesMove, LineKept
  <2>2. QED
    BY <1>1, <2>1, SourceMoves, ScannerMoves, ReaderMoves DEF Next
<1>2. QED
  BY <1>1, Invariance, PTL DEF Spec, LinesEnd
=============================================================================
