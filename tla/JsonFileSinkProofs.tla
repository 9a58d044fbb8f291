------------------------- MODULE JsonFileSinkProofs -------------------------
(***************************************************************************)
(* Proofs about JsonFileSink, for every maximal size, every size of a line *)
(* and any number of crashes: the two files are the recent end of the log, *)
(* enough of it and bounded, and a crash spoils at most two messages.      *)
(***************************************************************************)
EXTENDS JsonFileSink, FiniteSetTheorems, TLAPS

USE SizesAssumption, JsonBoundsAssumption

B == Lines(backup)
F == Lines(file)

(* A file that exists has a line, there is one to be rolled, and a message *)
(* to be written.                                                          *)
Shape ==
    /\ backup # Missing => B # <<>>
    /\ file # Missing => F # <<>>
    /\ pc = "unlink" => file # Missing
    /\ pc # "idle" => appended < MaxLines

(* Each file is a stretch of the log, the file's follows the backup's and  *)
(* ends with the last message.                                             *)
Linked(lines) == \A i \in 1..(Len(lines) - 1) : lines[i + 1].first = lines[i].last + 1
Log ==
    /\ Linked(B) /\ Linked(F)
    /\ B # <<>> /\ F # <<>> => F[1].first = Last(B).last + 1
    /\ F # <<>> => Last(F).last = appended
    /\ B # <<>> /\ F = <<>> => Last(B).last = appended
    /\ B = <<>> /\ F = <<>> => appended = 0

(* A backup is full, and so is a file that is being rolled; without a      *)
(* backup the file is full or has the whole log.                           *)
Full ==
    /\ B # <<>> => Bytes(B) >= MaxBytes
    /\ pc \in {"unlink", "rename"} => Bytes(F) >= MaxBytes
    /\ B = <<>> /\ F # <<>> => F[1].first = 1 \/ Bytes(F) >= MaxBytes

(* A file was below the maximum before its last line, and is before an     *)
(* append.                                                                 *)
Below(lines) == Len(lines) > 1 => lines[Len(lines) - 1].end < MaxBytes
Bounded ==
    /\ Below(B) /\ Below(F)
    /\ pc = "append" /\ F # <<>> => Bytes(F) < MaxBytes

(* No line is ahead of the log, and a crash whose line is still open has   *)
(* spoiled one message only.                                               *)
Past(lines) == \A i \in 1..Len(lines) : lines[i].last <= appended
Torn == F # <<>> /\ ~Last(F).whole
Spoils ==
    /\ Past(B) /\ Past(F)
    /\ Cardinality(Spoiled) + (IF Torn THEN 1 ELSE 0) <= 2 * crashes

IInv == TypeOK /\ Shape /\ Log /\ Full /\ Bounded /\ Spoils

-----------------------------------------------------------------------------
(* The lines of the files.                                                 *)
LEMMA FilesFacts ==
    ASSUME TypeOK, Shape
    PROVE  /\ B \in Seq(Line) /\ F \in Seq(Line)
           /\ backup = Missing <=> B = <<>>
           /\ file = Missing <=> F = <<>>
           /\ file # Missing => F = file
  BY DEF TypeOK, Shape, B, F, Lines

LEMMA LineFacts ==
    ASSUME NEW lines \in Seq(Line), lines # <<>>
    PROVE  /\ Len(lines) \in Nat /\ Len(lines) >= 1
           /\ Last(lines) = lines[Len(lines)]
           /\ Last(lines) \in Line
           /\ Last(lines).first \in 1..MaxLines /\ Last(lines).last \in 1..MaxLines
           /\ Last(lines).whole \in BOOLEAN
           /\ Bytes(lines) = Last(lines).end /\ Bytes(lines) \in Nat
<1>1. Len(lines) \in Nat /\ Len(lines) >= 1 /\ Last(lines) = lines[Len(lines)]
  BY DEF Last
<1>2. Last(lines) \in Line
  BY <1>1
<1>3. QED
  BY <1>1, <1>2 DEF Line, Bytes

LEMMA LineBegun ==
    ASSUME NEW end \in Nat, NEW whole \in BOOLEAN, appended \in 0..(MaxLines - 1)
    PROVE  LET line == Begun(end, whole)
           IN  /\ line \in Line
               /\ line.first = appended + 1 /\ line.last = appended + 1
               /\ line.end = end /\ line.whole = whole
  BY DEF Begun, Line

LEMMA LineJoined ==
    ASSUME NEW line \in Line, NEW size \in Nat, NEW whole \in BOOLEAN,
           appended \in 0..(MaxLines - 1)
    PROVE  /\ Joined(line, size, whole) \in Line
           /\ Joined(line, size, whole).first = line.first
           /\ Joined(line, size, whole).last = appended + 1
           /\ Joined(line, size, whole).end = line.end + size
           /\ Joined(line, size, whole).whole = whole
<1>1. /\ line.first \in 1..MaxLines /\ line.end + size \in Nat /\ appended + 1 \in 1..MaxLines
      /\ line = [first |-> line.first, last |-> line.last, end |-> line.end, whole |-> line.whole]
  BY DEF Line
<1>2. QED
  BY <1>1 DEF Line, Joined

LEMMA LineTypes ==
    ASSUME NEW lines \in Seq(Line), NEW i \in 1..Len(lines)
    PROVE  lines[i] \in Line /\ lines[i].last \in Nat
<1>1. lines[i] \in Line
  OBVIOUS
<1>2. QED
  BY <1>1 DEF Line

(* Writing a text: a line of its own after a newline, the end of the       *)
(* unfinished line otherwise.                                              *)
Writes(lines, new, whole) ==
    /\ new \in Seq(Line) /\ new # <<>>
    /\ Last(new).last = appended + 1
    /\ Last(new).whole = whole
    /\ Bytes(new) > Bytes(lines)
    /\ \/ /\ lines = <<>> \/ Last(lines).whole
          /\ Len(new) = Len(lines) + 1
          /\ \A i \in 1..Len(lines) : new[i] = lines[i]
          /\ Last(new).first = appended + 1
       \/ /\ lines # <<>> /\ ~Last(lines).whole
          /\ Len(new) = Len(lines)
          /\ \A i \in 1..(Len(lines) - 1) : new[i] = lines[i]
          /\ Last(new).first = Last(lines).first

LEMMA ExtendedFacts ==
    ASSUME NEW lines \in Seq(Line), NEW size \in Sizes, NEW whole \in BOOLEAN,
           appended \in 0..(MaxLines - 1)
    PROVE  Writes(lines, Extended(lines, size, whole), whole)
<1> DEFINE new == Extended(lines, size, whole)
<1> SUFFICES Writes(lines, new, whole)
  OBVIOUS
<1> USE DEF Writes
<1>0. Bytes(lines) \in Nat /\ size \in Nat /\ size > 0
  <2>1. Bytes(lines) \in Nat
    BY LineFacts DEF Bytes
  <2>2. QED
    BY <2>1
<1>1. CASE lines = <<>> \/ Last(lines).whole
  <2> DEFINE line == Begun(Bytes(lines) + size, whole)
  <2>1. new = Append(lines, line)
    BY <1>1, Zenon DEF Extended
  <2>2. Bytes(lines) + size \in Nat
    BY <1>0
  <2>3. /\ line \in Line /\ line.first = appended + 1 /\ line.last = appended + 1
        /\ line.end = Bytes(lines) + size /\ line.whole = whole
    BY <2>2, LineBegun, Zenon
  <2> HIDE DEF line, new
  <2>4. /\ new \in Seq(Line) /\ new # <<>> /\ Len(new) = Len(lines) + 1
        /\ \A i \in 1..Len(lines) : new[i] = lines[i]
        /\ Last(new) = line
    BY <2>1, <2>3 DEF Last
  <2>5. Bytes(new) = Bytes(lines) + size
    BY <2>3, <2>4, Zenon DEF Bytes
  <2>6. Bytes(new) > Bytes(lines)
    BY <2>5, <1>0
  <2>7. QED
    BY <1>1, <2>3, <2>4, <2>6, Zenon
<1>2. CASE lines # <<>> /\ ~Last(lines).whole
  <2> DEFINE joined == Joined(lines[Len(lines)], size, whole)
  <2>1. Last(lines) = lines[Len(lines)] /\ Last(lines) \in Line /\ Len(lines) \in Nat /\ Len(lines) >= 1
    BY <1>2, LineFacts
  <2>2. new = [lines EXCEPT ![Len(lines)] = joined]
    <3>1. ~(lines = <<>> \/ Last(lines).whole)
      BY <1>2, Zenon
    <3>2. QED
      BY <3>1 DEF Extended
  <2>3. lines[Len(lines)] \in Line
    BY <2>1
  <2>4. /\ joined \in Line
        /\ joined.first = Last(lines).first /\ joined.last = appended + 1
        /\ joined.end = Last(lines).end + size /\ joined.whole = whole
    <3>1. size \in Nat /\ lines[Len(lines)] = Last(lines)
      BY <1>0, <2>1
    <3>2. /\ joined \in Line
          /\ joined.first = lines[Len(lines)].first /\ joined.last = appended + 1
          /\ joined.end = lines[Len(lines)].end + size /\ joined.whole = whole
      BY <2>3, <3>1, LineJoined
    <3>3. QED
      BY <3>1, <3>2, Zenon
  <2> HIDE DEF joined, new
  <2>5. /\ new \in Seq(Line) /\ new # <<>> /\ Len(new) = Len(lines)
        /\ \A i \in 1..(Len(lines) - 1) : new[i] = lines[i]
        /\ Last(new) = joined
    BY <2>1, <2>2, <2>4 DEF Last
  <2>6. Bytes(new) = Bytes(lines) + size
    BY <1>2, <2>4, <2>5, Zenon DEF Bytes
  <2>7. Bytes(new) > Bytes(lines)
    BY <2>6, <1>0
  <2>8. QED
    BY <1>2, <2>4, <2>5, <2>7, Zenon
<1>3. QED
  BY <1>1, <1>2, Zenon

-----------------------------------------------------------------------------
(* Spoiled messages, file by file.                                         *)
SpoiltIn(lines, m) ==
    \E i \in 1..Len(lines) : lines[i].first <= m /\ m <= lines[i].last /\ Spoilt(lines[i])

LEMMA SpoiledFacts ==
    ASSUME NEW b \in Seq(Line), NEW f \in Seq(Line), NEW m
    PROVE  (\E i \in DOMAIN (b \o f) : /\ (b \o f)[i].first <= m /\ m <= (b \o f)[i].last
                                       /\ Spoilt((b \o f)[i]))
           <=> SpoiltIn(b, m) \/ SpoiltIn(f, m)
<1> DEFINE S(line) == line.first <= m /\ m <= line.last /\ Spoilt(line)
           d == b \o f
<1> HIDE DEF S
<1>1. /\ Len(b) \in Nat /\ Len(f) \in Nat /\ DOMAIN d = 1..(Len(b) + Len(f))
      /\ \A i \in 1..Len(b) : d[i] = b[i]
      /\ \A i \in 1..Len(f) : d[Len(b) + i] = f[i]
  OBVIOUS
<1> HIDE DEF d
<1>2. ASSUME NEW i \in DOMAIN d, S(d[i])
      PROVE  (\E j \in 1..Len(b) : S(b[j])) \/ (\E j \in 1..Len(f) : S(f[j]))
  <2>1. CASE i <= Len(b)
    BY <1>1, <1>2, <2>1
  <2>2. CASE i > Len(b)
    <3>1. i - Len(b) \in 1..Len(f) /\ Len(b) + (i - Len(b)) = i
      BY <1>1, <2>2
    <3>2. S(f[i - Len(b)])
      BY <1>1, <1>2, <3>1
    <3>3. QED
      BY <3>1, <3>2
  <2>3. QED
    BY <1>1, <2>1, <2>2
<1>3. ASSUME NEW j \in 1..Len(b), S(b[j]) PROVE \E i \in DOMAIN d : S(d[i])
  BY <1>1, <1>3
<1>4. ASSUME NEW j \in 1..Len(f), S(f[j]) PROVE \E i \in DOMAIN d : S(d[i])
  <2>1. Len(b) + j \in DOMAIN d /\ S(d[Len(b) + j])
    BY <1>1, <1>4
  <2>2. QED
    BY <2>1
<1>5. (\E i \in DOMAIN d : S(d[i])) <=> (\E j \in 1..Len(b) : S(b[j])) \/ (\E j \in 1..Len(f) : S(f[j]))
  BY <1>2, <1>3, <1>4, Zenon
<1>6. QED
  BY <1>5, Zenon DEF S, d, SpoiltIn

Counted ==
    /\ \A m : m \in Spoiled <=> m \in 1..appended /\ (SpoiltIn(B, m) \/ SpoiltIn(F, m))
    /\ IsFiniteSet(Spoiled) /\ Cardinality(Spoiled) \in Nat

LEMMA SpoiledMembers == TypeOK /\ Shape => Counted
<1> SUFFICES ASSUME TypeOK, Shape PROVE Counted
  OBVIOUS
<1>1. \A m : m \in Spoiled <=> m \in 1..appended /\ (SpoiltIn(B, m) \/ SpoiltIn(F, m))
  BY FilesFacts, SpoiledFacts, Zenon DEF Spoiled, OnDisk, B, F
<1>2. IsFiniteSet(1..appended) /\ Spoiled \subseteq 1..appended
  BY FS_Interval DEF TypeOK, Spoiled
<1>3. QED
  BY <1>1, <1>2, FS_Subset, FS_CardinalityType DEF Counted

LEMMA SpoiledMembersNext == (TypeOK /\ Shape)' => Counted'
  BY SpoiledMembers, PTL

LEMMA InvInit == Init => IInv
<1> SUFFICES ASSUME Init PROVE IInv
  OBVIOUS
<1>1. B = <<>> /\ F = <<>> /\ OnDisk = <<>>
  BY DEF Init, B, F, Lines, OnDisk
<1>2. TypeOK
  BY DEF Init, TypeOK
<1>3. Shape /\ Log /\ Full /\ Bounded
  BY <1>1 DEF Init, Shape, Log, Linked, Full, Bounded, Below
<1>4. Spoils
  <2>1. Spoiled = {}
    BY DEF Init, Spoiled
  <2>2. Cardinality(Spoiled) = 0
    BY <2>1, FS_EmptySet
  <2>3. ~Torn
    BY <1>1 DEF Torn
  <2>4. QED
    BY <1>1, <2>2, <2>3 DEF Init, Spoils, Past
<1>5. QED
  BY <1>2, <1>3, <1>4 DEF IInv

-----------------------------------------------------------------------------
(* A text is written, the whole of it or, when the process dies, a part.   *)
Write(size, whole) ==
    /\ pc = "append" /\ pc' = "idle"
    /\ file' = Extended(F, size, whole)
    /\ appended' = appended + 1
    /\ crashes' = IF whole THEN crashes ELSE crashes + 1
    /\ backup' = backup

LEMMA WriteStep ==
    ASSUME IInv, NEW size \in Sizes, NEW whole \in BOOLEAN, Write(size, whole),
           crashes' \in 0..MaxCrashes
    PROVE  IInv'
<1> DEFINE Grows == F = <<>> \/ Last(F).whole
<1>1. /\ TypeOK /\ Shape /\ Log /\ Full /\ Bounded /\ Spoils
      /\ B \in Seq(Line) /\ F \in Seq(Line)
      /\ Len(F) \in Nat /\ (F = <<>> <=> Len(F) = 0) /\ Bytes(F) \in Nat
      /\ appended \in 0..(MaxLines - 1)
  <2>1. /\ TypeOK /\ Shape /\ Log /\ Full /\ Bounded /\ Spoils
        /\ B \in Seq(Line) /\ F \in Seq(Line)
    BY FilesFacts DEF IInv
  <2>2. Len(F) \in Nat /\ (F = <<>> <=> Len(F) = 0)
    BY <2>1
  <2>3. Bytes(F) \in Nat
    BY <2>1, LineFacts DEF Bytes
  <2>4. appended \in 0..(MaxLines - 1)
    BY <2>1 DEF Write, TypeOK, Shape
  <2>5. QED
    BY <2>1, <2>2, <2>3, <2>4
<1>2. /\ file' \in Seq(Line) /\ file' # <<>>
      /\ Last(file').last = appended + 1
      /\ Last(file').whole = whole
      /\ Bytes(file') > Bytes(F)
      /\ \/ /\ Grows
            /\ Len(file') = Len(F) + 1
            /\ \A i \in 1..Len(F) : file'[i] = F[i]
            /\ Last(file').first = appended + 1
         \/ /\ ~Grows
            /\ Len(file') = Len(F)
            /\ \A i \in 1..(Len(F) - 1) : file'[i] = F[i]
            /\ Last(file').first = Last(F).first
  <2>1. file' = Extended(F, size, whole)
    BY DEF Write
  <2>2. QED
    <3>1. F \in Seq(Line) /\ appended \in 0..(MaxLines - 1)
      BY <1>1
    <3>2. Writes(F, Extended(F, size, whole), whole)
      BY <3>1, ExtendedFacts
    <3>3. Writes(F, file', whole)
      BY <2>1, <3>2
    <3>4. QED
      BY <3>3, Zenon DEF Writes
<1> HIDE DEF Grows
<1>3. /\ F' = file' /\ file' # Missing /\ B' = B
      /\ pc = "append" /\ pc' = "idle" /\ appended' = appended + 1 /\ backup' = backup
  BY <1>2 DEF Write, F, B, Lines
<1>4. /\ Len(F') \in Nat /\ Len(F') >= 1 /\ Last(F') = F'[Len(F')] /\ Bytes(F') = Last(F').end
      /\ Bytes(F') > Bytes(F) /\ Bytes(F') \in Nat
  BY <1>2, <1>3, LineFacts
<1>5. F # <<>> => Last(F) = F[Len(F)] /\ Bytes(F) = F[Len(F)].end /\ Last(F).last = appended
  BY <1>1, LineFacts DEF Log
<1>6. TypeOK' /\ Shape'
  <2>1. TypeOK'
    BY <1>1, <1>2, <1>3 DEF TypeOK
  <2>2. Shape'
    BY <1>1, <1>2, <1>3 DEF Shape
  <2>3. QED
    BY <2>1, <2>2
<1>7. /\ F = <<>> => F'[1].first = appended + 1
      /\ F # <<>> => F'[1].first = F[1].first
  <2>1. CASE F = <<>>
    <3>1. Len(F') = 1
      BY <1>1, <1>2, <1>3, <2>1 DEF Grows
    <3>2. Last(F').first = appended + 1
      BY <1>2, <1>3, <2>1 DEF Grows
    <3>3. QED
      BY <1>4, <2>1, <3>1, <3>2
  <2>2. CASE F # <<>>
    BY <1>1, <1>2, <1>3, <1>4, <1>5, <2>2
  <2>3. QED
    BY <2>1, <2>2
<1>8. Log'
  <2>1. ASSUME NEW i \in 1..(Len(F') - 1) PROVE F'[i + 1].first = F'[i].last + 1
    <3>1. CASE Len(F') = Len(F) + 1 /\ Last(F').first = appended + 1
                /\ \A j \in 1..Len(F) : F'[j] = F[j]
      <4>1. CASE i = Len(F)
        BY <1>1, <1>4, <1>5, <3>1, <4>1
      <4>2. CASE i < Len(F)
        <5>1. F[i + 1].first = F[i].last + 1
          BY <1>1, <4>2 DEF Log, Linked
        <5>2. F'[i] = F[i] /\ F'[i + 1] = F[i + 1]
          BY <1>1, <3>1, <4>2
        <5>3. QED
          BY <5>1, <5>2
      <4>3. QED
        BY <1>1, <1>4, <3>1, <4>1, <4>2
    <3>2. CASE Len(F') = Len(F) /\ Last(F').first = Last(F).first
                /\ \A j \in 1..(Len(F) - 1) : F'[j] = F[j]
      <4>1. F[i + 1].first = F[i].last + 1 /\ F'[i] = F[i]
        BY <1>1, <3>2 DEF Log, Linked
      <4>2. CASE i + 1 = Len(F)
        BY <1>1, <1>4, <1>5, <3>2, <4>1, <4>2
      <4>3. CASE i + 1 < Len(F)
        BY <1>1, <1>4, <3>2, <4>1, <4>3
      <4>4. QED
        BY <1>1, <1>4, <3>2, <4>2, <4>3
    <3>3. QED
      BY <1>2, <1>3, <3>1, <3>2
  <2>2. Linked(F')
    BY <2>1 DEF Linked
  <2>3. F' # <<>> /\ Last(F').last = appended'
    BY <1>2, <1>3
  <2>4. B # <<>> => F'[1].first = Last(B).last + 1
    BY <1>1, <1>7 DEF Log
  <2>5. QED
    BY <1>1, <1>3, <2>2, <2>3, <2>4 DEF Log
<1>9. Full'
  <2>1. B = <<>> => F'[1].first = 1 \/ Bytes(F') >= MaxBytes
    BY <1>1, <1>4, <1>7 DEF Full, Log
  <2>2. QED
    BY <1>1, <1>3, <2>1 DEF Full
<1>10. Bounded'
  <2>1. Below(F')
    <3>1. CASE Len(F') = Len(F) + 1 /\ \A j \in 1..Len(F) : F'[j] = F[j]
      BY <1>1, <1>3, <1>4, <1>5, <3>1 DEF Below, Bounded
    <3>2. CASE Len(F') = Len(F) /\ \A j \in 1..(Len(F) - 1) : F'[j] = F[j]
      BY <1>1, <1>4, <3>2 DEF Below, Bounded
    <3>3. QED
      BY <1>2, <1>3, <3>1, <3>2
  <2>2. QED
    BY <1>1, <1>3, <2>1 DEF Bounded

<1>11. Past(B)' /\ Past(F)'
  <2>1. /\ \A i \in 1..Len(B) : B[i].last <= appended
        /\ \A i \in 1..Len(F) : F[i].last <= appended
    BY <1>1 DEF Spoils, Past
  <2>2. \A i \in 1..Len(B) : B[i].last \in Nat
    BY <1>1, LineTypes
  <2>3. \A i \in 1..Len(F) : F[i].last \in Nat
    BY <1>1, LineTypes
  <2>4. \A i \in 1..Len(B) : B[i].last <= appended + 1
    BY <1>1, <2>1, <2>2
  <2>5. ASSUME NEW i \in 1..Len(F') PROVE F'[i].last <= appended + 1
    <3>1. CASE i = Len(F')
      BY <1>1, <1>2, <1>3, <1>4, <3>1
    <3>2. CASE i < Len(F')
      <4>1. i \in 1..Len(F)
        BY <1>1, <1>2, <1>3, <1>4, <3>2
      <4>2. F'[i] = F[i]
        BY <1>1, <1>2, <1>3, <1>4, <3>2, <4>1
      <4>3. QED
        BY <1>1, <2>1, <2>3, <4>1, <4>2
    <3>3. QED
      BY <1>4, <3>1, <3>2
  <2>6. QED
    BY <1>3, <2>4, <2>5 DEF Past
<1>12. Spoils'
  <2>1. /\ \A m : m \in Spoiled <=> m \in 1..appended /\ (SpoiltIn(B, m) \/ SpoiltIn(F, m))
        /\ IsFiniteSet(Spoiled) /\ Cardinality(Spoiled) \in Nat
    BY <1>1, SpoiledMembers DEF Counted
  <2>2. /\ \A m : m \in Spoiled' <=> m \in 1..(appended + 1) /\ (SpoiltIn(B, m) \/ SpoiltIn(F', m))
        /\ IsFiniteSet(Spoiled') /\ Cardinality(Spoiled') \in Nat
    <3>1. Counted'
      BY <1>6, SpoiledMembersNext
    <3>2. SpoiltIn(F, 1)' = SpoiltIn(F', 1) /\ B' = B /\ appended' = appended + 1
      BY <1>3
    <3>3. QED
      BY <3>1, <3>2, Zenon DEF Counted, SpoiltIn
  (* A message that was on the disk before is spoiled if it was.           *)
  <2>3. ASSUME NEW m \in 1..appended, SpoiltIn(F', m) PROVE SpoiltIn(F, m)
    <3>1. PICK i \in 1..Len(F') : F'[i].first <= m /\ m <= F'[i].last /\ Spoilt(F'[i])
      BY <2>3 DEF SpoiltIn
    <3>2. CASE i \in 1..Len(F) /\ F'[i] = F[i]
      BY <3>1, <3>2 DEF SpoiltIn
    <3>3. CASE i = Len(F') /\ Grows
      BY <1>1, <1>2, <1>3, <1>4, <3>1, <3>3
    <3>4. CASE i = Len(F') /\ ~Grows
      <4>1. F # <<>> /\ ~Last(F).whole /\ Last(F) = F[Len(F)] /\ Len(F) \in 1..Len(F)
        BY <1>1, <1>5, <3>4 DEF Grows
      <4>2. F[Len(F)].first <= m /\ m <= F[Len(F)].last
        BY <1>1, <1>2, <1>3, <1>4, <1>5, <3>1, <3>4, <4>1
      <4>3. Spoilt(F[Len(F)])
        BY <4>1, Zenon DEF Spoilt
      <4>4. QED
        BY <4>1, <4>2, <4>3 DEF SpoiltIn
    <3>5. QED
      BY <1>1, <1>2, <1>3, <1>4, <3>2, <3>3, <3>4
  <2>4. ASSUME NEW m, m \in Spoiled', m # appended + 1 PROVE m \in Spoiled
    <3>1. m \in 1..appended /\ (SpoiltIn(B, m) \/ SpoiltIn(F', m))
      BY <1>1, <2>2, <2>4
    <3>2. QED
      BY <2>1, <2>3, <3>1
  <2>5. Cardinality(Spoiled') <= Cardinality(Spoiled) + 1
    <3>1. Spoiled' \subseteq Spoiled \union {appended + 1}
      BY <2>4
    <3>2. /\ IsFiniteSet(Spoiled \union {appended + 1})
          /\ Cardinality(Spoiled \union {appended + 1}) <= Cardinality(Spoiled) + 1
          /\ Cardinality(Spoiled \union {appended + 1}) \in Nat
      <4>1. IsFiniteSet(Spoiled) /\ Cardinality(Spoiled) \in Nat
        BY <2>1
      <4>2. /\ IsFiniteSet(Spoiled \union {appended + 1})
            /\ Cardinality(Spoiled \union {appended + 1}) \in
                   {Cardinality(Spoiled), Cardinality(Spoiled) + 1}
        BY <4>1, FS_AddElement
      <4>3. QED
        BY <4>1, <4>2
    <3>3. Cardinality(Spoiled') <= Cardinality(Spoiled \union {appended + 1})
      BY <3>1, <3>2, FS_Subset
    <3>4. QED
      BY <2>1, <2>2, <3>2, <3>3
  (* A line of its own, whole, spoils nothing.                             *)
  <2>6. ASSUME Grows, whole PROVE Cardinality(Spoiled') <= Cardinality(Spoiled)
    <3>1. ~Spoilt(Last(F'))
      BY <1>2, <1>3, <2>6, Zenon DEF Spoilt
    <3>2. \A i \in 1..Len(F) : F[i].last < appended + 1
      <4>1. \A i \in 1..Len(F) : F[i].last \in Nat
        BY <1>1, LineTypes
      <4>2. QED
        BY <1>1, <4>1 DEF Spoils, Past
    <3>3. \A i \in 1..Len(B) : B[i].last < appended + 1
      <4>1. \A i \in 1..Len(B) : B[i].last \in Nat
        BY <1>1, LineTypes
      <4>2. QED
        BY <1>1, <4>1 DEF Spoils, Past
    <3>4. ~SpoiltIn(B, appended + 1)
      <4>1. ASSUME NEW i \in 1..Len(B), appended + 1 <= B[i].last PROVE FALSE
        <5>1. B[i].last \in Nat
          BY <1>1, LineTypes
        <5>2. QED
          BY <1>1, <3>3, <4>1, <5>1
      <4>2. QED
        BY <4>1, Zenon DEF SpoiltIn
    <3>5. ~SpoiltIn(F', appended + 1)
      <4>1. ASSUME NEW i \in 1..Len(F'), appended + 1 <= F'[i].last, Spoilt(F'[i]) PROVE FALSE
        <5>1. CASE i = Len(F')
          BY <1>4, <3>1, <4>1, <5>1
        <5>2. CASE i # Len(F')
          <6>1. i \in 1..Len(F) /\ F'[i] = F[i]
            BY <1>1, <1>2, <1>3, <1>4, <2>6, <5>2
          <6>2. F[i].last \in Nat
            BY <1>1, <6>1, LineTypes
          <6>3. QED
            BY <1>1, <3>2, <4>1, <6>1, <6>2
        <5>3. QED
          BY <5>1, <5>2
      <4>2. QED
        BY <4>1, Zenon DEF SpoiltIn
    <3>6. appended + 1 \notin Spoiled'
      BY <2>2, <3>4, <3>5
    <3>7. Spoiled' \subseteq Spoiled
      BY <2>4, <3>6
    <3>8. QED
      BY <2>1, <3>7, FS_Subset
  (* An unfinished line, or the end of one, costs a message of a crash.    *)
  <2>7. Cardinality(Spoiled') + (IF Torn' THEN 1 ELSE 0) <= 2 * crashes'
    <3>1. /\ crashes \in Nat
          /\ Torn => Cardinality(Spoiled) + 1 <= 2 * crashes
          /\ Cardinality(Spoiled) <= 2 * crashes
      BY <1>1, <2>1 DEF TypeOK, Spoils
    <3>2. CASE whole
      <4>1. ~Torn' /\ crashes' = crashes
        BY <1>2, <1>3, <3>2 DEF Torn, Write
      <4>2. CASE Grows
        BY <2>1, <2>2, <2>6, <3>1, <3>2, <4>1, <4>2
      <4>3. CASE ~Grows
        <5>1. Torn
          BY <4>3 DEF Grows, Torn
        <5>2. QED
          BY <2>1, <2>2, <2>5, <3>1, <4>1, <5>1
      <4>4. QED
        BY <4>2, <4>3
    <3>3. CASE ~whole
      <4>1. crashes' = crashes + 1
        BY <3>3 DEF Write
      <4>2. QED
        BY <2>1, <2>2, <2>5, <3>1, <4>1
    <3>4. QED
      BY <3>2, <3>3
  <2>8. QED
    BY <1>11, <2>7 DEF Spoils
<1>13. QED
  BY <1>6, <1>8, <1>9, <1>10, <1>12 DEF IInv

-----------------------------------------------------------------------------
(* A step that writes nothing: the messages on the disk are no more        *)
(* spoiled than they were.                                                 *)
LEMMA SpoilsStep ==
    ASSUME TypeOK, Shape, Spoils, (TypeOK /\ Shape)', appended' = appended,
           crashes' \in Nat, crashes' >= crashes,
           \/ B' = B /\ F' = F
           \/ B' = <<>> /\ F' = F
           \/ B' = F /\ F' = <<>>
    PROVE  Spoils'
<1>1. /\ \A m : m \in Spoiled <=> m \in 1..appended /\ (SpoiltIn(B, m) \/ SpoiltIn(F, m))
      /\ IsFiniteSet(Spoiled) /\ Cardinality(Spoiled) \in Nat
  BY SpoiledMembers DEF Counted
<1>2. /\ \A m : m \in Spoiled' <=> m \in 1..appended /\ (SpoiltIn(B', m) \/ SpoiltIn(F', m))
      /\ Cardinality(Spoiled') \in Nat
  <2>1. Counted'
    BY SpoiledMembersNext
  <2>2. QED
    BY <2>1, Zenon DEF Counted, SpoiltIn
<1>3. \A m : ~SpoiltIn(<<>>, m)
  BY DEF SpoiltIn
<1>4. \A m : SpoiltIn(B', m) \/ SpoiltIn(F', m) => SpoiltIn(B, m) \/ SpoiltIn(F, m)
  BY <1>3, Zenon
<1>5. Spoiled' \subseteq Spoiled
  BY <1>1, <1>2, <1>4, Zenon
<1>6. Cardinality(Spoiled') <= Cardinality(Spoiled)
  BY <1>1, <1>5, FS_Subset
<1>7. Torn' => Torn
  BY DEF Torn
<1>8. crashes \in Nat /\ Cardinality(Spoiled) + (IF Torn THEN 1 ELSE 0) <= 2 * crashes
  BY DEF TypeOK, Spoils
<1>9. Cardinality(Spoiled') + (IF Torn' THEN 1 ELSE 0) <= 2 * crashes'
  <2>1. CASE Torn
    BY <1>1, <1>2, <1>6, <1>8, <2>1
  <2>2. CASE ~Torn
    BY <1>1, <1>2, <1>6, <1>7, <1>8, <2>2
  <2>3. QED
    BY <2>1, <2>2
<1>10. Past(B)' /\ Past(F)'
  <2>1. \A i \in 1..Len(B) : B[i].last <= appended
    BY DEF Spoils, Past
  <2>2. \A i \in 1..Len(F) : F[i].last <= appended
    BY DEF Spoils, Past
  <2>3. \A i \in 1..Len(<<>>) : <<>>[i].last <= appended
    OBVIOUS
  <2>4. QED
    BY <2>1, <2>2, <2>3, Zenon DEF Past
<1>11. QED
  BY <1>9, <1>10 DEF Spoils

LEMMA InvStep == IInv /\ [Next]_vars => IInv'
<1> SUFFICES ASSUME IInv, [Next]_vars PROVE IInv'
  OBVIOUS
<1>0. /\ TypeOK /\ Shape /\ Log /\ Full /\ Bounded /\ Spoils
      /\ B \in Seq(Line) /\ F \in Seq(Line)
      /\ backup = Missing <=> B = <<>>
      /\ file = Missing <=> F = <<>>
      /\ crashes \in Nat
  BY FilesFacts DEF IInv, TypeOK
<1>1. CASE HandleMessage
  <2>1. /\ B' = B /\ F' = F /\ UNCHANGED <<file, backup, appended, crashes>>
        /\ appended < MaxLines
        /\ pc' = IF ~NeedsRoll THEN "append" ELSE IF backup # Missing THEN "unlink" ELSE "rename"
    BY <1>1 DEF HandleMessage, B, F, Lines
  <2>2. F # <<>> => (NeedsRoll <=> Bytes(F) >= MaxBytes)
    BY <1>0, FilesFacts DEF NeedsRoll
  <2>3. NeedsRoll => file # Missing
    BY DEF NeedsRoll
  <2>4. Bytes(F) \in Nat
    BY <1>0, LineFacts DEF Bytes
  <2>5. TypeOK' /\ Shape'
    BY <1>0, <2>1, <2>3 DEF TypeOK, Shape
  <2>6. Log'
    BY <1>0, <2>1 DEF Log
  <2>7. Full' /\ Bounded'
    BY <1>0, <2>1, <2>2, <2>3, <2>4 DEF Full, Bounded
  <2>8. Spoils'
    BY <1>0, <2>1, <2>5, SpoilsStep
  <2>9. QED
    BY <2>5, <2>6, <2>7, <2>8 DEF IInv
<1>2. CASE Unlink
  <2>1. /\ pc = "unlink" /\ pc' = "rename" /\ backup' = Missing
        /\ B' = <<>> /\ F' = F /\ UNCHANGED <<file, appended, crashes>> /\ F # <<>>
    BY <1>0, <1>2 DEF Unlink, B, F, Lines, Shape
  <2>2. TypeOK' /\ Shape'
    BY <1>0, <2>1 DEF TypeOK, Shape
  <2>3. Log' /\ Full' /\ Bounded'
    BY <1>0, <2>1 DEF Log, Linked, Full, Bounded, Below
  <2>4. Spoils'
    BY <1>0, <2>1, <2>2, SpoilsStep
  <2>5. QED
    BY <2>2, <2>3, <2>4 DEF IInv
<1>3. CASE Rename
  <2>1. /\ pc = "rename" /\ pc' = "append" /\ file # Missing /\ B = <<>> /\ F # <<>>
        /\ backup' = file /\ file' = Missing
        /\ UNCHANGED <<appended, crashes>>
    BY <1>0, <1>3 DEF Rename, RolledFile, TypeOK
  <2>2. B' = F /\ F' = <<>>
    BY <2>1 DEF B, F, Lines
  <2>3. TypeOK' /\ Shape'
    BY <1>0, <2>1, <2>2 DEF TypeOK, Shape
  <2>4. Log' /\ Full' /\ Bounded'
    BY <1>0, <2>1, <2>2 DEF Log, Linked, Full, Bounded, Below
  <2>5. Spoils'
    BY <1>0, <2>1, <2>2, <2>3, SpoilsStep
  <2>6. QED
    BY <2>3, <2>4, <2>5 DEF IInv
<1>4. ASSUME NEW size \in Sizes, AppendLine(size) PROVE IInv'
  <2>1. Write(size, TRUE) /\ crashes' \in 0..MaxCrashes
    BY <1>0, <1>4 DEF AppendLine, Write, F, TypeOK
  <2>2. QED
    BY <2>1, WriteStep
<1>5. CASE Crash
  <2>1. crashes' = crashes + 1 /\ crashes' \in 0..MaxCrashes /\ pc' = "idle" /\ backup' = backup
    BY <1>0, <1>5 DEF Crash, TypeOK
  <2>2. CASE UNCHANGED <<file, appended>>
    <3>1. B' = B /\ F' = F
      BY <2>1, <2>2 DEF B, F, Lines
    <3>2. TypeOK' /\ Shape'
      BY <1>0, <2>1, <2>2, <3>1 DEF TypeOK, Shape
    <3>3. Log' /\ Full' /\ Bounded'
      BY <1>0, <2>1, <2>2, <3>1 DEF Log, Full, Bounded
    <3>4. Spoils'
      BY <1>0, <2>1, <2>2, <3>1, <3>2, SpoilsStep
    <3>5. QED
      BY <3>2, <3>3, <3>4 DEF IInv
  <2>3. ASSUME NEW size \in Sizes, pc = "append", file' = Extended(Lines(file), size, FALSE),
               appended' = appended + 1
        PROVE  IInv'
    <3>1. Write(size, FALSE)
      BY <2>1, <2>3 DEF Write, F
    <3>2. QED
      BY <2>1, <3>1, WriteStep
  <2>4. QED
    BY <1>5, <2>2, <2>3 DEF Crash
<1>6. CASE UNCHANGED vars
  <2>1. B' = B /\ F' = F /\ UNCHANGED <<pc, file, backup, appended, crashes>>
    BY <1>6 DEF vars, B, F, Lines
  <2>2. TypeOK' /\ Shape'
    BY <1>0, <2>1 DEF TypeOK, Shape
  <2>3. Log' /\ Full' /\ Bounded'
    BY <1>0, <2>1 DEF Log, Full, Bounded
  <2>4. Spoils'
    BY <1>0, <2>1, <2>2, SpoilsStep
  <2>5. QED
    BY <2>2, <2>3, <2>4 DEF IInv
<1>7. QED
  BY <1>1, <1>2, <1>3, <1>4, <1>5, <1>6 DEF Next

LEMMA Invariant == Spec => []IInv
  BY InvInit, InvStep, PTL DEF Spec

(* Types, for any sizes and any number of messages and crashes.            *)
THEOREM TypeCorrect == Spec => []TypeOK
<1>1. IInv => TypeOK
  BY DEF IInv
<1>2. QED
  BY <1>1, Invariant, PTL

(* Whatever rolls and crashes there were, backup and file are the recent   *)
(* end of the log, in order and without a hole.                            *)
THEOREM LogHasNoHole == Spec => []NoHole
<1>1. ASSUME IInv PROVE NoHole
  <2>1. /\ B \in Seq(Line) /\ F \in Seq(Line) /\ OnDisk = B \o F /\ Log
    BY <1>1, FilesFacts DEF IInv, OnDisk, B, F
  <2>2. /\ Len(B) \in Nat /\ Len(F) \in Nat /\ Len(OnDisk) = Len(B) + Len(F)
        /\ (B = <<>> <=> Len(B) = 0) /\ (F = <<>> <=> Len(F) = 0)
        /\ \A i \in 1..Len(B) : OnDisk[i] = B[i]
        /\ \A i \in 1..Len(F) : OnDisk[Len(B) + i] = F[i]
    BY <2>1
  <2>3. appended > 0 => OnDisk # <<>> /\ Last(OnDisk).last = appended
    <3>1. CASE F # <<>>
      <4>1. OnDisk[Len(OnDisk)] = F[Len(F)] /\ OnDisk # <<>>
        BY <2>1, <2>2, <3>1
      <4>2. QED
        BY <2>1, <3>1, <4>1 DEF Log, Last
    <3>2. CASE F = <<>> /\ B # <<>>
      <4>1. OnDisk[Len(OnDisk)] = B[Len(B)] /\ OnDisk # <<>>
        BY <2>1, <2>2, <3>2
      <4>2. QED
        BY <2>1, <3>2, <4>1 DEF Log, Last
    <3>3. CASE F = <<>> /\ B = <<>>
      BY <2>1, <3>3 DEF Log
    <3>4. QED
      BY <3>1, <3>2, <3>3
  <2>4. ASSUME NEW i \in 1..(Len(OnDisk) - 1) PROVE OnDisk[i + 1].first = OnDisk[i].last + 1
    <3>1. CASE i < Len(B)
      BY <2>1, <2>2, <3>1 DEF Log, Linked
    <3>2. CASE i = Len(B)
      <4>1. F # <<>> /\ B # <<>> /\ OnDisk[i] = Last(B) /\ OnDisk[i + 1] = F[1]
        BY <2>2, <3>2 DEF Last
      <4>2. QED
        BY <2>1, <4>1 DEF Log
    <3>3. CASE i > Len(B)
      <4>1. PICK j \in 1..(Len(F) - 1) : i = Len(B) + j
        <5>1. i - Len(B) \in 1..(Len(F) - 1) /\ i = Len(B) + (i - Len(B))
          BY <2>2, <3>3
        <5>2. QED
          BY <5>1
      <4>2. OnDisk[i] = F[j] /\ OnDisk[i + 1] = F[j + 1]
        BY <2>2, <4>1
      <4>3. QED
        BY <2>1, <4>2 DEF Log, Linked
    <3>4. QED
      BY <2>2, <3>1, <3>2, <3>3
  <2>5. QED
    BY <2>3, <2>4 DEF NoHole
<1>2. QED
  BY <1>1, Invariant, PTL

(* At least MaxBytes of the log are on the disk at every instant, the two  *)
(* calls of a roll and a crash between them included, or all of it.        *)
THEOREM EnoughIsKept == Spec => []EnoughKept
<1>1. ASSUME IInv, OnDisk # <<>>, OnDisk[1].first > 1
      PROVE  Bytes(Lines(backup)) + Bytes(Lines(file)) >= MaxBytes
  <2>1. B \in Seq(Line) /\ F \in Seq(Line) /\ OnDisk = B \o F /\ Full
    BY <1>1, FilesFacts DEF IInv, OnDisk, B, F
  <2>2. Bytes(B) \in Nat /\ Bytes(F) \in Nat
    BY <2>1, LineFacts DEF Bytes
  <2>3. CASE B # <<>>
    BY <2>1, <2>2, <2>3 DEF Full, B, F
  <2>4. CASE B = <<>>
    <3>1. F # <<>> /\ OnDisk[1] = F[1]
      BY <1>1, <2>1, <2>4
    <3>2. Bytes(F) >= MaxBytes
      BY <1>1, <2>1, <2>4, <3>1 DEF Full
    <3>3. QED
      BY <2>2, <3>2 DEF B, F
  <2>5. QED
    BY <2>3, <2>4
<1>2. IInv => EnoughKept
  BY <1>1, Zenon DEF EnoughKept
<1>3. QED
  BY <1>2, Invariant, PTL

(* Neither file exceeds the maximum by more than the line that crossed it. *)
THEOREM FilesAreBounded == Spec => []SizeIsBounded
<1>1. ASSUME NEW lines \in Seq(Line), Below(lines), Len(lines) > 1
      PROVE  Bytes(Front(lines)) < MaxBytes
  <2>1. /\ Len(lines) \in Nat /\ Front(lines) # <<>> /\ Len(Front(lines)) = Len(lines) - 1
        /\ Front(lines)[Len(lines) - 1] = lines[Len(lines) - 1]
    BY <1>1 DEF Front
  <2>2. QED
    BY <1>1, <2>1 DEF Below, Bytes, Last
<1>2. ASSUME IInv PROVE SizeIsBounded
  <2>1. B \in Seq(Line) /\ F \in Seq(Line) /\ Below(B) /\ Below(F)
    BY <1>2, FilesFacts DEF IInv, Bounded
  <2>2. QED
    BY <1>1, <2>1, Zenon DEF SizeIsBounded, B, F
<1>3. QED
  BY <1>2, Invariant, PTL

(* A crash spoils two messages at the most: the one being written and the  *)
(* one that is joined to it.                                               *)
THEOREM FewAreSpoiled == Spec => []SpoiledIsBounded
<1>1. IInv => SpoiledIsBounded
  <2> SUFFICES ASSUME IInv PROVE SpoiledIsBounded
    OBVIOUS
  <2>1. Cardinality(Spoiled) \in Nat /\ crashes \in Nat
    BY SpoiledMembers DEF IInv, Counted, TypeOK
  <2>2. QED
    BY <2>1 DEF IInv, Spoils, SpoiledIsBounded
<1>2. QED
  BY <1>1, Invariant, PTL
=============================================================================
