---------------------------- MODULE LogTailProofs ----------------------------
(***************************************************************************)
(* Theorems about LogTail for any number of pages, any length of the log   *)
(* and any cap: typing, the finality of the cached trace, and that no byte *)
(* is skipped.  TailInv relates what a request has read to the state of    *)
(* the run it read it from, which is why reading the status before the log *)
(* is enough; ShowInv relates a page's cursor to what it shows.            *)
(***************************************************************************)
EXTENDS LogTail, FiniteSetTheorems, WellFoundedInduction, TLAPS

\* A terminal status is final, and "done" is told of a complete log only.
StatusTold ==
    /\ status = "done" => ended
    /\ status = "failed" => source = "ssh"
    /\ \A v \in Viewers :
        /\ seen[v] \in Finished => seen[v] = status
        /\ stopped[v] = "finished" => status \in Finished

\* What a request under way may count on.
RequestsOpen ==
    \A v \in Viewers :
        /\ pc[v] # "idle" => offset[v] >= 0
        /\ pc[v] = "trace" => source = "gitlab"
        /\ pc[v] \in {"stat", "tail"} => source = "ssh"
        /\ size[v] <= Len(log)
        /\ stopped[v] = "no" => failures[v] < MaxFailures

CacheOfTrace == cache.on => source = "gitlab" /\ status = "done"

TailInv == TypeOK /\ StatusTold /\ RequestsOpen /\ CacheOfTrace /\ CacheIsFinal

\* What the page of a viewer shows, against its cursor and the log.
PageInv(v) ==
    Plain =>
        /\ 1..offset[v] \subseteq Shown(v)
        /\ status = "done" /\ stopped[v] = "finished" =>
               1..LastNewline(log) \subseteq Shown(v)
        /\ source = "gitlab" =>
               /\ offset[v] \in 0..Len(log)
               /\ shown[v] = [i \in 1..offset[v] |-> i]
               /\ offset[v] # 0 => log[offset[v]] = "nl"

ShowInv == \A v \in Viewers : PageInv(v)

---------------------------------------------------------------------------
(* The last newline of a text, and what is held back after it.             *)

\* A nonempty set of naturals has a least element.
LEMMA LeastExists ==
    ASSUME NEW S \in SUBSET Nat, S # {}
    PROVE  \E m \in S : \A k \in S : m <= k
  <1> DEFINE R == {p \in Nat \X Nat : p[1] < p[2]}
  <1>1. IsWellFoundedOn(R, Nat)
    BY NatLessThanWellFounded DEF OpToRel
  <1>2. PICK m \in S : \A k \in S : ~ (<<k, m>> \in R)
    <2> HIDE DEF R
    <2> QED
      BY <1>1, WFMin
  <1>3. ASSUME NEW k \in S PROVE m <= k
    <2>1. k \in Nat /\ m \in Nat /\ ~ (<<k, m>> \in R)
      BY <1>2
    <2>2. ~ (k < m)
      BY <2>1
    <2> QED
      BY <2>1, <2>2
  <1> QED
    BY <1>3

\* LastNewline names a position of the text, or 0, after which no newline
\* comes.
LEMMA LastNewlineIsLast ==
    ASSUME NEW text \in Seq(Bytes)
    PROVE  /\ LastNewline(text) \in 0..Len(text)
           /\ LastNewline(text) # 0 => text[LastNewline(text)] = "nl"
           /\ \A i \in LastNewline(text) + 1..Len(text) : text[i] # "nl"
  <1> DEFINE After(n) == \A i \in n + 1..Len(text) : text[i] # "nl"
  <1> DEFINE S == {n \in 0..Len(text) : After(n)}
  <1>1. Len(text) \in S /\ S \in SUBSET Nat
    OBVIOUS
  <1>2. PICK n \in S : \A k \in S : n <= k
    <2> HIDE DEF S
    <2> QED
      BY <1>1, LeastExists
  <1>3. n # 0 => text[n] = "nl"
    <2> SUFFICES ASSUME n # 0, text[n] # "nl" PROVE FALSE
      OBVIOUS
    <2>1. n - 1 \in S
      <3>1. n \in 1..Len(text) /\ After(n)
        BY <1>2
      <3>2. ASSUME NEW i \in (n - 1) + 1..Len(text) PROVE text[i] # "nl"
        <4>1. i = n \/ i \in n + 1..Len(text)
          BY <3>1
        <4> QED
          BY <4>1, <3>1
      <3>3. n - 1 \in 0..Len(text)
        BY <3>1
      <3> QED
        BY <3>2, <3>3
    <2>2. n \in Nat
      OBVIOUS
    <2>3. n <= n - 1
      <3> HIDE DEF S
      <3> QED
        BY <1>2, <2>1
    <2> QED
      BY <2>2, <2>3
  <1>4. \E m \in 0..Len(text) :
            /\ m # 0 => text[m] = "nl"
            /\ \A i \in m + 1..Len(text) : text[i] # "nl"
    BY <1>2, <1>3
  <1> QED
    BY <1>4 DEF LastNewline

\* The text after a cursor.
LEMMA FromIsSuffix ==
    ASSUME NEW bytes \in Seq(Bytes), NEW cursor \in Nat
    PROVE  /\ From(bytes, cursor + 1) \in Seq(Bytes)
           /\ Len(From(bytes, cursor + 1)) =
                  IF cursor <= Len(bytes) THEN Len(bytes) - cursor ELSE 0
           /\ \A i \in 1..Len(From(bytes, cursor + 1)) :
                  From(bytes, cursor + 1)[i] = bytes[cursor + i]
  BY DEF From

\* Counting characters never yields less than nothing, and counts bytes
\* exactly where every character is one byte.
LEMMA CharsCount ==
    ASSUME NEW text \in Seq(Bytes)
    PROVE  /\ Chars(text) \in Nat
           /\ (\A i \in DOMAIN text : text[i] # "w2") => Chars(text) = Len(text)
  <1> DEFINE D == {i \in DOMAIN text : text[i] # "w2" \/ i = 1}
  <1>1. DOMAIN text = 1..Len(text) /\ Len(text) \in Nat
    OBVIOUS
  <1>2. IsFiniteSet(1..Len(text)) /\ Cardinality(1..Len(text)) = Len(text)
    BY <1>1, FS_Interval
  <1>3. D \in SUBSET (1..Len(text))
    BY <1>1
  <1>4. Cardinality(D) \in Nat
    BY <1>2, <1>3, FS_Subset, FS_CardinalityType
  <1>5. (\A i \in DOMAIN text : text[i] # "w2") => D = 1..Len(text)
    BY <1>1
  <1> QED
    BY <1>2, <1>4, <1>5 DEF Chars

\* A wide character apart, what is held back is counted in bytes.
LEMMA HeldCount ==
    ASSUME NEW text \in Seq(Bytes)
    PROVE  /\ Held(text) \in Nat
           /\ (\A i \in DOMAIN text : text[i] # "w2") =>
                  Held(text) = Len(text) - LastNewline(text)
  <1> DEFINE n == LastNewline(text)
  <1>1. n \in 0..Len(text) /\ n \in Nat
    BY LastNewlineIsLast
  <1>2. /\ From(text, n + 1) \in Seq(Bytes)
        /\ Len(From(text, n + 1)) = Len(text) - n
        /\ \A i \in 1..Len(From(text, n + 1)) :
               From(text, n + 1)[i] = text[n + i]
    <2>1. n <= Len(text) /\ Len(text) \in Nat
      BY <1>1
    <2> HIDE DEF n
    <2> QED
      BY <1>1, <2>1, FromIsSuffix
  <1>3. Held(text) \in Nat
    BY <1>2, CharsCount DEF Held
  <1>4. ASSUME \A i \in DOMAIN text : text[i] # "w2"
        PROVE  Held(text) = Len(text) - n
    <2>1. \A i \in DOMAIN From(text, n + 1) : From(text, n + 1)[i] # "w2"
      <3> DEFINE rest == From(text, n + 1)
      <3>1. DOMAIN rest = 1..Len(text) - n
        BY <1>2
      <3>2. ASSUME NEW i \in 1..Len(text) - n PROVE rest[i] # "w2"
        <4>1. rest[i] = text[n + i] /\ n + i \in DOMAIN text
          BY <1>1, <1>2
        <4> QED
          BY <4>1, <1>4
      <3> QED
        BY <3>1, <3>2
    <2> QED
      BY <1>2, <2>1, CharsCount DEF Held
  <1> QED
    BY <1>3, <1>4

---------------------------------------------------------------------------
(* What an answer does to a page.  Its text is the log after the cursor,   *)
(* unless the log is too large and the text is not used.                   *)

\* Two sequences put together.
LEMMA Concatenation ==
    ASSUME NEW S, NEW s \in Seq(S), NEW t \in Seq(S)
    PROVE  /\ s \o t \in Seq(S)
           /\ Len(s \o t) = Len(s) + Len(t)
           /\ \A i \in 1..Len(s) : (s \o t)[i] = s[i]
           /\ \A i \in 1..Len(t) : (s \o t)[Len(s) + i] = t[i]
  OBVIOUS

\* Rendering adds the positions of the complete lines after the cursor.
LEMMA RenderedPositions ==
    ASSUME TypeOK, NEW v \in Viewers, offset[v] >= 0,
           NEW text, text = From(log, offset[v] + 1)
    PROVE  /\ LastNewline(text) \in Nat
           /\ offset[v] + LastNewline(text) <= Len(log) \/ LastNewline(text) = 0
           /\ Rendered(v, text) \in Seq(1..Len(log))
           /\ Len(Rendered(v, text)) = Len(shown[v]) + LastNewline(text)
           /\ \A i \in 1..Len(shown[v]) : Rendered(v, text)[i] = shown[v][i]
           /\ \A i \in 1..LastNewline(text) :
                  Rendered(v, text)[Len(shown[v]) + i] = offset[v] + i
  <1> DEFINE n == LastNewline(text)
             new == [i \in 1..n |-> offset[v] + i]
  <1>1. /\ log \in Seq(Bytes) /\ Len(log) \in Nat
        /\ offset[v] \in Nat /\ shown[v] \in Seq(1..Len(log))
    BY DEF TypeOK
  <1>2. /\ text \in Seq(Bytes)
        /\ Len(text) = IF offset[v] <= Len(log) THEN Len(log) - offset[v] ELSE 0
    BY <1>1, FromIsSuffix
  <1>3. n \in Nat /\ n <= Len(text)
    BY <1>2, LastNewlineIsLast
  <1>4. offset[v] + n <= Len(log) \/ n = 0
    <2> HIDE DEF n
    <2> QED
      BY <1>1, <1>2, <1>3
  <1>5. new \in Seq(1..Len(log)) /\ Len(new) = n
    <2>1. ASSUME NEW i \in 1..n PROVE offset[v] + i \in 1..Len(log)
      <3> HIDE DEF n
      <3> QED
        BY <1>1, <1>3, <1>4
    <2> HIDE DEF n
    <2> QED
      BY <1>3, <2>1
  <1>6. Rendered(v, text) = shown[v] \o new
    BY DEF Rendered
  <1>7. /\ Rendered(v, text) \in Seq(1..Len(log))
        /\ Len(Rendered(v, text)) = Len(shown[v]) + n
        /\ \A i \in 1..Len(shown[v]) : Rendered(v, text)[i] = shown[v][i]
        /\ \A i \in 1..n : Rendered(v, text)[Len(shown[v]) + i] = new[i]
    <2> DEFINE old == shown[v]
               P == 1..Len(log)
    <2>1. old \in Seq(P) /\ new \in Seq(P)
      BY <1>1, <1>5
    <2>2. /\ old \o new \in Seq(P)
          /\ Len(old \o new) = Len(old) + Len(new)
          /\ \A i \in 1..Len(old) : (old \o new)[i] = old[i]
          /\ \A i \in 1..Len(new) : (old \o new)[Len(old) + i] = new[i]
      <3> HIDE DEF old, new, P
      <3> QED
        BY <2>1, Concatenation
    <2> HIDE DEF n, new
    <2> QED
      BY <2>2, <1>5, <1>6
  <1>8. \A i \in 1..n : new[i] = offset[v] + i
    OBVIOUS
  <1> QED
    BY <1>3, <1>4, <1>7, <1>8

\* An answer keeps the types of the page.
LEMMA AnswerTyped ==
    ASSUME TypeOK, NEW v \in Viewers, offset[v] >= 0, log' = log,
           NEW text \in Seq(Bytes), NEW total \in Nat,
           NEW read \in {"running"} \cup Finished,
           text = From(log, offset[v] + 1) \/ total > HardCap,
           Answer(v, read, text, total)
    PROVE  /\ pc' = [pc EXCEPT ![v] = "idle"]
           /\ seen' = [seen EXCEPT ![v] = "running"]
           /\ size' = [size EXCEPT ![v] = 0]
           /\ offset' \in [Viewers -> Int]
           /\ failures' \in [Viewers -> 0..MaxFailures]
           /\ shown' \in [Viewers -> Seq(1..Len(log'))]
           /\ stopped' \in [Viewers -> {"no", "finished", "too_large",
                                        "poll_failed", "login"}]
           /\ \A w \in Viewers : stopped'[w] = "finished" =>
                  stopped[w] = "finished" \/ (w = v /\ read \in Finished)
           /\ failures' = [failures EXCEPT ![v] = 0]
           /\ \A w \in Viewers \ {v} :
                  offset'[w] = offset[w] /\ stopped'[w] = stopped[w]
  <1>1. Held(text) \in Nat
    BY HeldCount
  <1>2. offset' \in [Viewers -> Int] /\ \A w \in Viewers \ {v} : offset'[w] = offset[w]
    BY <1>1 DEF TypeOK, Answer, NextCursor
  <1>3. shown' \in [Viewers -> Seq(1..Len(log'))]
    <2>1. CASE total > HardCap
      BY <2>1 DEF TypeOK, Answer
    <2>2. CASE ~ (total > HardCap)
      <3>1. text = From(log, offset[v] + 1)
        BY <2>2
      <3>2. Rendered(v, text) \in Seq(1..Len(log))
        BY <3>1, RenderedPositions
      <3> QED
        BY <2>2, <3>2 DEF TypeOK, Answer
    <2> QED
      BY <2>1, <2>2
  <1>4. failures' \in [Viewers -> 0..MaxFailures]
    BY BoundsAssumption DEF TypeOK, Answer
  <1>5. /\ stopped' \in [Viewers -> {"no", "finished", "too_large",
                                    "poll_failed", "login"}]
        /\ \A w \in Viewers : stopped'[w] = "finished" =>
               stopped[w] = "finished" \/ (w = v /\ read \in Finished)
        /\ \A w \in Viewers \ {v} : stopped'[w] = stopped[w]
    BY DEF TypeOK, Answer, Stop
  <1> QED
    BY <1>2, <1>3, <1>4, <1>5 DEF Answer, Settle

\* An answer to a page, made from what its request has read.
Answered(v, text, total, read) ==
    /\ text \in Seq(Bytes) /\ total \in Nat
    /\ read \in {"running"} \cup Finished
    /\ text = From(log, offset[v] + 1) \/ total > HardCap
    /\ total <= Len(log)
    /\ source = "gitlab" => total = Len(log)
    /\ read \in Finished => read = status
    /\ Answer(v, read, text, total)

---------------------------------------------------------------------------
(* TailInv: the run, then the requests.                                    *)

\* The invariant holds at the start.
LEMMA InitTail == Init => TailInv
  <1> SUFFICES ASSUME Init PROVE TailInv
    OBVIOUS
  <1>1. <<>> \in Seq(Bytes) /\ <<>> \in Seq(1..Len(log)) /\ 0 \in 0..MaxFailures
    BY BoundsAssumption
  <1>2. cache \in [on: BOOLEAN, log: Seq(Bytes)]
    BY <1>1 DEF Init, NoCache
  <1>3. /\ source \in Sources /\ ended \in BOOLEAN
        /\ status \in {"running"} \cup Finished
    BY DEF Init
  <1>7. log \in Seq(Bytes)
    BY <1>1 DEF Init
  <1>8. /\ pc \in [Viewers -> {"idle", "stat", "tail", "trace"}]
        /\ seen \in [Viewers -> {"running"} \cup Finished]
        /\ size \in [Viewers -> Nat] /\ offset \in [Viewers -> Int]
        /\ stopped \in [Viewers -> {"no", "finished", "too_large",
                                    "poll_failed", "login"}]
    BY DEF Init
  <1>4. failures \in [Viewers -> 0..MaxFailures]
    BY <1>1 DEF Init
  <1>5. shown \in [Viewers -> Seq(1..Len(log))]
    BY <1>1 DEF Init
  <1>6. TypeOK
    BY <1>2, <1>3, <1>4, <1>5, <1>7, <1>8 DEF TypeOK
  <1>9. 0 < MaxFailures
    BY BoundsAssumption
  <1> QED
    BY <1>6, <1>9 DEF Init, TailInv, StatusTold, RequestsOpen, CacheOfTrace,
                CacheIsFinal, Finished, NoCache

\* The pages are not touched, the log may have grown.
LEMMA RunSteps ==
    ASSUME TailInv, Write \/ WriterEnds \/ StatusTerminal
    PROVE  TailInv'
  <1> USE DEF TailInv
  <1>1. UNCHANGED viewerVars /\ source' = source /\ cache' = cache
    BY DEF Write, WriterEnds, StatusTerminal
  <1>2. log' \in Seq(Bytes) /\ Len(log') >= Len(log) /\ Len(log) \in Nat
        /\ Len(log') \in Nat
    <2>1. CASE Write
      <3>1. PICK c \in Characters : log' = log \o c
        BY <2>1 DEF Write
      <3>2. c \in Seq(Bytes)
        <4>1. c = <<"a">> \/ c = <<"w1", "w2">> \/ c = <<"nl">>
          BY CharactersAssumption DEF CharacterKinds
        <4>2. /\ "a" \in Bytes /\ "w1" \in Bytes /\ "w2" \in Bytes
              /\ "nl" \in Bytes
          BY DEF Bytes
        <4>3. /\ <<"a">> \in Seq(Bytes) /\ <<"nl">> \in Seq(Bytes)
              /\ <<"w1", "w2">> \in Seq(Bytes)
          <5> HIDE DEF Bytes
          <5> QED
            BY <4>2
        <4> QED
          BY <4>1, <4>3
      <3> QED
        BY <3>1, <3>2 DEF TypeOK
    <2>2. CASE WriterEnds \/ StatusTerminal
      BY <2>2 DEF TypeOK, WriterEnds, StatusTerminal
    <2> QED
      BY <2>1, <2>2
  <1>3. shown' \in [Viewers -> Seq(1..Len(log'))]
    <2>1. 1..Len(log) \subseteq 1..Len(log')
      BY <1>2
    <2>2. \A S, T : S \subseteq T => Seq(S) \subseteq Seq(T)
      OBVIOUS
    <2>3. Seq(1..Len(log)) \subseteq Seq(1..Len(log'))
      <3> DEFINE S == 1..Len(log)
                 T == 1..Len(log')
      <3>1. S \subseteq T
        BY <2>1
      <3> HIDE DEF S, T
      <3>2. Seq(S) \subseteq Seq(T)
        BY <3>1
      <3> QED
        BY <3>2 DEF S, T
    <2> QED
      BY <1>1, <2>3 DEF TypeOK, viewerVars
  <1>4. ended' \in BOOLEAN /\ status' \in {"running"} \cup Finished
    BY DEF TypeOK, Write, WriterEnds, StatusTerminal, Finished
  <1>5. TypeOK'
    BY <1>1, <1>2, <1>3, <1>4 DEF TypeOK, viewerVars
  <1>6. StatusTold'
    BY <1>1 DEF StatusTold, Write, WriterEnds, StatusTerminal, viewerVars,
                Finished
  <1>7. RequestsOpen'
    BY <1>1, <1>2 DEF RequestsOpen, TypeOK, viewerVars
  <1>8. CacheOfTrace' /\ CacheIsFinal'
    BY <1>1 DEF CacheOfTrace, CacheIsFinal, Write, WriterEnds, StatusTerminal
  <1> QED
    BY <1>5, <1>6, <1>7, <1>8

\* An answered request: the page is idle again, and stops as finished only
\* on the status of the run.
LEMMA AnswerTail ==
    ASSUME TailInv, NEW v \in Viewers, offset[v] >= 0, UNCHANGED runVars,
           NEW text, NEW total, NEW read, Answered(v, text, total, read),
           cache' = cache \/ (seen[v] \in Finished /\ source = "gitlab"
                              /\ cache' = [on |-> TRUE, log |-> log])
    PROVE  TailInv'
  <1> USE DEF TailInv
  <1>1. log' = log /\ ended' = ended /\ status' = status /\ source' = source
    BY DEF runVars
  <1>2. /\ pc' = [pc EXCEPT ![v] = "idle"]
        /\ seen' = [seen EXCEPT ![v] = "running"]
        /\ size' = [size EXCEPT ![v] = 0]
        /\ offset' \in [Viewers -> Int]
        /\ failures' \in [Viewers -> 0..MaxFailures]
        /\ shown' \in [Viewers -> Seq(1..Len(log'))]
        /\ stopped' \in [Viewers -> {"no", "finished", "too_large",
                                     "poll_failed", "login"}]
        /\ \A w \in Viewers : stopped'[w] = "finished" =>
               stopped[w] = "finished" \/ (w = v /\ read \in Finished)
        /\ failures' = [failures EXCEPT ![v] = 0]
        /\ \A w \in Viewers \ {v} :
               offset'[w] = offset[w] /\ stopped'[w] = stopped[w]
    BY <1>1, AnswerTyped DEF Answered
  <1>3. cache' \in [on: BOOLEAN, log: Seq(Bytes)]
    <2>1. log \in Seq(Bytes) /\ cache \in [on: BOOLEAN, log: Seq(Bytes)]
      BY DEF TypeOK
    <2>2. [on |-> TRUE, log |-> log] \in [on: BOOLEAN, log: Seq(Bytes)]
      BY <2>1
    <2> QED
      BY <2>1, <2>2
  <1>4. TypeOK'
    BY <1>1, <1>2, <1>3 DEF TypeOK
  <1>5. StatusTold'
    BY <1>1, <1>2 DEF StatusTold, TypeOK, Finished, Answered
  <1>6. RequestsOpen'
    <2>1. 0 < MaxFailures
      BY BoundsAssumption
    <2> QED
      BY <1>1, <1>2, <2>1 DEF RequestsOpen, TypeOK
  <1>7. CacheOfTrace' /\ CacheIsFinal'
    BY <1>1 DEF CacheOfTrace, CacheIsFinal, StatusTold, Finished
  <1> QED
    BY <1>4, <1>5, <1>6, <1>7

\* The text and the size of every answer meet what AnswerTail asks of them.
LEMMA Answers ==
    ASSUME TailInv, NEW v \in Viewers,
           StatSize(v) \/ ReadTail(v) \/ FetchTrace(v) \/ ReadCache(v)
    PROVE  \/ /\ UNCHANGED <<runVars, cache, seen, offset, failures, shown, stopped>>
              /\ pc' = [pc EXCEPT ![v] = "tail"]
              /\ size' = [size EXCEPT ![v] = Len(log)]
              /\ pc[v] = "stat"
           \/ /\ offset[v] >= 0 /\ UNCHANGED runVars
              /\ \E text, total, read : Answered(v, text, total, read)
              /\ \/ cache' = cache
                 \/ /\ seen[v] \in Finished /\ source = "gitlab"
                    /\ cache' = [on |-> TRUE, log |-> log]
  <1> USE DEF TailInv
  <1>1. /\ log \in Seq(Bytes) /\ Len(log) \in Nat
        /\ offset[v] \in Int /\ size[v] \in Nat /\ size[v] <= Len(log)
        /\ seen[v] \in {"running"} \cup Finished
        /\ seen[v] \in Finished => seen[v] = status
        /\ HardCap \in Nat
    BY BoundsAssumption DEF TypeOK, RequestsOpen, StatusTold
  <1>2. ASSUME offset[v] >= 0
        PROVE  /\ From(log, offset[v] + 1) \in Seq(Bytes)
               /\ Len(log) = 0 => Len(From(log, offset[v] + 1)) = 0
    <2> DEFINE cursor == offset[v]
    <2>1. cursor \in Nat
      BY <1>1, <1>2
    <2> HIDE DEF cursor
    <2>2. /\ From(log, cursor + 1) \in Seq(Bytes)
          /\ Len(From(log, cursor + 1)) =
                 IF cursor <= Len(log) THEN Len(log) - cursor ELSE 0
      BY <1>1, <2>1, FromIsSuffix
    <2>3. Len(log) = 0 => Len(From(log, cursor + 1)) = 0
      BY <2>1, <2>2
    <2> QED
      BY <2>2, <2>3 DEF cursor
  <1>3. CASE StatSize(v)
    <2>1. pc[v] = "stat" /\ UNCHANGED <<runVars, cache>> /\ offset[v] >= 0
      BY <1>3 DEF StatSize, RequestsOpen
    <2>2. CASE log = <<>> /\ Answer(v, seen[v], <<>>, Len(log))
      <3>1. /\ From(log, offset[v] + 1) \in Seq(Bytes)
            /\ Len(From(log, offset[v] + 1)) = 0
        BY <2>1, <2>2, <1>1, <1>2
      <3>2. From(log, offset[v] + 1) = <<>>
        BY <3>1
      <3>3. Answered(v, <<>>, Len(log), seen[v])
        BY <2>2, <3>1, <3>2, <1>1 DEF Answered
      <3> QED
        BY <2>1, <3>3
    <2>3. CASE Len(log) > HardCap /\ Answer(v, seen[v], <<>>, Len(log))
      <3>1. <<>> \in Seq(Bytes)
        OBVIOUS
      <3>2. Answered(v, <<>>, Len(log), seen[v])
        BY <2>3, <3>1, <1>1 DEF Answered
      <3> QED
        BY <2>1, <3>2
    <2>4. CASE /\ size' = [size EXCEPT ![v] = Len(log)]
               /\ pc' = [pc EXCEPT ![v] = "tail"]
               /\ UNCHANGED <<seen, offset, failures, shown, stopped>>
      BY <2>1, <2>4
    <2> QED
      BY <1>3, <2>2, <2>3, <2>4 DEF StatSize
  <1>4. CASE ReadTail(v)
    <2>1. offset[v] >= 0 /\ source # "gitlab"
      BY <1>4 DEF ReadTail, RequestsOpen
    <2>2. Answered(v, From(log, offset[v] + 1), size[v], seen[v])
      BY <1>4, <2>1, <1>1, <1>2 DEF ReadTail, Answered
    <2> QED
      BY <1>4, <2>1, <2>2 DEF ReadTail
  <1>5. CASE FetchTrace(v)
    <2>1. offset[v] >= 0 /\ source = "gitlab"
      BY <1>5 DEF FetchTrace, RequestsOpen
    <2>2. Answered(v, From(log, offset[v] + 1), Len(log), seen[v])
      BY <1>5, <2>1, <1>1, <1>2 DEF FetchTrace, Answered
    <2> QED
      BY <1>5, <2>1, <2>2 DEF FetchTrace
  <1>6. CASE ReadCache(v)
    <2>1. offset[v] >= 0 /\ cache.log = log /\ UNCHANGED <<runVars, cache>>
          /\ Answer(v, "done", From(log, offset[v] + 1), Len(log))
          /\ status = "done"
      BY <1>6 DEF ReadCache, CacheIsFinal, CacheOfTrace
    <2>2. Answered(v, From(log, offset[v] + 1), Len(log), "done")
      BY <2>1, <1>1, <1>2 DEF Answered, Finished
    <2> QED
      BY <2>1, <2>2
  <1> QED
    BY <1>3, <1>4, <1>5, <1>6

\* The steps of a page that bring no text.
LEMMA PageSteps ==
    ASSUME TailInv, NEW v \in Viewers,
           ReadStatus(v) \/ PollRejected(v) \/ PollFails(v) \/ SessionEnds(v)
           \/ Reopen(v)
    PROVE  TailInv'
  <1> USE DEF TailInv
  <1>1. log' = log /\ ended' = ended /\ status' = status /\ source' = source
        /\ cache' = cache
    BY DEF ReadStatus, PollRejected, PollFails, Failed, SessionEnds, Reopen,
           runVars
  <1>2. CASE ReadStatus(v)
    <2>1. offset[v] >= 0 /\ UNCHANGED <<size, offset, failures, shown, stopped>>
          /\ seen' = [seen EXCEPT ![v] = status]
          /\ pc' = [pc EXCEPT ![v] = IF source = "ssh" THEN "stat" ELSE "trace"]
      BY <1>2 DEF ReadStatus
    <2>2. source \in SourceKinds
      BY SourcesAssumption DEF TypeOK
    <2>3. TypeOK'
      BY <1>1, <2>1 DEF TypeOK
    <2>4. StatusTold' /\ CacheOfTrace' /\ CacheIsFinal'
      BY <1>1, <2>1 DEF StatusTold, CacheOfTrace, CacheIsFinal, TypeOK
    <2>5. RequestsOpen'
      BY <1>1, <2>1, <2>2 DEF RequestsOpen, TypeOK, SourceKinds
    <2> QED
      BY <2>3, <2>4, <2>5
  <1>3. CASE PollRejected(v) \/ PollFails(v)
    <2>1. Failed(v) /\ stopped[v] = "no"
      BY <1>3 DEF PollRejected, PollFails, Polling
    <2>2. /\ pc' = [pc EXCEPT ![v] = "idle"]
          /\ seen' = [seen EXCEPT ![v] = "running"]
          /\ size' = [size EXCEPT ![v] = 0]
          /\ offset' = offset /\ shown' = shown
      BY <2>1 DEF Failed, Settle
    <2>3. \/ stopped' = stopped
          \/ stopped' = [stopped EXCEPT ![v] = "poll_failed"]
      BY <2>1 DEF Failed, Stop
    <2>4. /\ failures' = [failures EXCEPT ![v] = failures[v] + 1]
          /\ failures[v] + 1 \in 0..MaxFailures
          /\ stopped'[v] = "no" => failures[v] + 1 < MaxFailures
      <3>1. failures[v] \in Nat /\ failures[v] < MaxFailures /\ MaxFailures \in Nat
        BY <2>1, BoundsAssumption DEF TypeOK, RequestsOpen
      <3>2. failures' = [failures EXCEPT ![v] = failures[v] + 1]
        BY <2>1 DEF Failed
      <3>3. failures'[v] = MaxFailures => stopped'[v] = "poll_failed"
        BY <2>1 DEF Failed, Stop, TypeOK
      <3>4. failures'[v] = failures[v] + 1
        BY <3>2 DEF TypeOK
      <3> QED
        BY <3>1, <3>2, <3>3, <3>4
    <2>5. TypeOK'
      BY <1>1, <2>2, <2>3, <2>4 DEF TypeOK
    <2>6. StatusTold' /\ CacheOfTrace' /\ CacheIsFinal'
      BY <1>1, <2>2, <2>3 DEF StatusTold, CacheOfTrace, CacheIsFinal, TypeOK,
                              Finished
    <2>7. RequestsOpen'
      BY <1>1, <2>2, <2>3, <2>4 DEF RequestsOpen, TypeOK
    <2> QED
      BY <2>5, <2>6, <2>7
  <1>4. CASE SessionEnds(v)
    <2>1. stopped' = [stopped EXCEPT ![v] = "login"]
          /\ UNCHANGED <<pc, seen, size, offset, failures, shown>>
      BY <1>4 DEF SessionEnds, Stop
    <2> QED
      BY <1>1, <2>1 DEF TypeOK, StatusTold, RequestsOpen, CacheOfTrace,
                        CacheIsFinal
  <1>5. CASE Reopen(v)
    <2>1. /\ stopped' = [stopped EXCEPT ![v] = "no"]
          /\ offset' = [offset EXCEPT ![v] = 0]
          /\ failures' = [failures EXCEPT ![v] = 0]
          /\ shown' = [shown EXCEPT ![v] = <<>>]
          /\ UNCHANGED <<pc, seen, size>>
      BY <1>5 DEF Reopen, Stop
    <2>2. <<>> \in Seq(1..Len(log)) /\ 0 \in 0..MaxFailures /\ 0 < MaxFailures
      BY BoundsAssumption
    <2>3. TypeOK'
      BY <1>1, <2>1, <2>2 DEF TypeOK
    <2>4. StatusTold' /\ CacheOfTrace' /\ CacheIsFinal'
      BY <1>1, <2>1 DEF StatusTold, CacheOfTrace, CacheIsFinal, TypeOK
    <2>5. RequestsOpen'
      BY <1>1, <2>1, <2>2 DEF RequestsOpen, TypeOK
    <2> QED
      BY <2>3, <2>4, <2>5
  <1> QED
    BY <1>2, <1>3, <1>4, <1>5

\* Every step preserves TailInv.
LEMMA TailStep ==
    ASSUME TailInv, [Next]_vars
    PROVE  TailInv'
  <1>1. CASE Write \/ WriterEnds \/ StatusTerminal
    BY <1>1, RunSteps
  <1>2. CASE CacheExpires
    <2>1. UNCHANGED <<runVars, viewerVars>> /\ cache' = NoCache
      BY <1>2 DEF CacheExpires
    <2>2. NoCache \in [on: BOOLEAN, log: Seq(Bytes)] /\ NoCache.on = FALSE
      <3>1. <<>> \in Seq(Bytes)
        OBVIOUS
      <3> QED
        BY <3>1 DEF NoCache
    <2>3. TypeOK'
      BY <2>1, <2>2 DEF TailInv, TypeOK, runVars, viewerVars
    <2>4. CacheOfTrace' /\ CacheIsFinal'
      BY <2>1, <2>2 DEF CacheOfTrace, CacheIsFinal
    <2>5. StatusTold' /\ RequestsOpen'
      BY <2>1 DEF TailInv, StatusTold, RequestsOpen, runVars, viewerVars
    <2> QED
      BY <2>3, <2>4, <2>5 DEF TailInv
  <1>3. ASSUME NEW v \in Viewers,
               StatSize(v) \/ ReadTail(v) \/ FetchTrace(v) \/ ReadCache(v)
        PROVE  TailInv'
    <2>1. CASE /\ UNCHANGED <<runVars, cache, seen, offset, failures, shown, stopped>>
               /\ pc' = [pc EXCEPT ![v] = "tail"]
               /\ size' = [size EXCEPT ![v] = Len(log)]
               /\ pc[v] = "stat"
      <3>1. TypeOK'
        BY <2>1 DEF TailInv, TypeOK, runVars
      <3>2. StatusTold' /\ CacheOfTrace' /\ CacheIsFinal'
        BY <2>1 DEF TailInv, StatusTold, CacheOfTrace, CacheIsFinal, runVars
      <3>3. RequestsOpen'
        BY <2>1 DEF TailInv, RequestsOpen, TypeOK, runVars
      <3> QED
        BY <3>1, <3>2, <3>3 DEF TailInv
    <2>2. CASE /\ offset[v] >= 0 /\ UNCHANGED runVars
               /\ \E text, total, read : Answered(v, text, total, read)
               /\ \/ cache' = cache
                  \/ /\ seen[v] \in Finished /\ source = "gitlab"
                     /\ cache' = [on |-> TRUE, log |-> log]
      <3>1. PICK text, total, read : Answered(v, text, total, read)
        BY <2>2
      <3> QED
        BY <2>2, <3>1, AnswerTail
    <2> QED
      BY <1>3, <2>1, <2>2, Answers
  <1>4. ASSUME NEW v \in Viewers,
               ReadStatus(v) \/ PollRejected(v) \/ PollFails(v) \/ SessionEnds(v)
               \/ Reopen(v)
        PROVE  TailInv'
    BY <1>4, PageSteps
  <1>5. CASE UNCHANGED vars
    BY <1>5 DEF vars, runVars, viewerVars, TailInv, TypeOK, StatusTold,
                RequestsOpen, CacheOfTrace, CacheIsFinal
  <1> QED
    BY <1>1, <1>2, <1>3, <1>4, <1>5 DEF Next, ViewerStep

\* TailInv is an invariant of the pages and the run they watch.
LEMMA TailInvariant == Spec => []TailInv
  <1>1. Init => TailInv
    BY InitTail
  <1>2. TailInv /\ [Next]_vars => TailInv'
    BY TailStep
  <1> QED
    BY <1>1, <1>2, PTL DEF Spec

\* Every variable of the pages keeps its type; in particular a page never
\* shows a position the log does not have, nor counts beyond its failures.
THEOREM LogTypeCorrect == Spec => []TypeOK
  <1>1. TailInv => TypeOK
    BY DEF TailInv
  <1> QED
    BY <1>1, TailInvariant, PTL

\* The cached trace is the final one for any number of pages that share it:
\* it is stored under a terminal status read before the trace, and "done"
\* comes after the last byte.
THEOREM CachedTraceFinal == Spec => []CacheIsFinal
  <1>1. TailInv => CacheIsFinal
    BY DEF TailInv
  <1> QED
    BY <1>1, TailInvariant, PTL

---------------------------------------------------------------------------
(* ShowInv: the cursor and what is shown.                                  *)

\* Where every character is one byte, an answer moves the cursor no further
\* than the lines it renders, exactly so far if its size is that of its
\* text, and leaves no newline of the log behind.
LEMMA CursorBehindLines ==
    ASSUME TailInv, NEW v \in Viewers, offset[v] >= 0, Plain,
           NEW text, text = From(log, offset[v] + 1),
           NEW total \in Nat, total <= Len(log)
    PROVE  LET n == LastNewline(text)
               next == NextCursor(offset[v], text, total)
           IN  /\ n \in Nat /\ next \in Int
               /\ next <= offset[v] + n
               /\ total = Len(log) /\ offset[v] <= Len(log) =>
                      next = offset[v] + n /\ next <= Len(log)
               /\ n # 0 => log[offset[v] + n] = "nl"
               /\ LastNewline(log) <= offset[v] + n
  <1> DEFINE n == LastNewline(text)
             last == LastNewline(log)
             cursor == offset[v]
             next == NextCursor(cursor, text, total)
  <1>1. /\ log \in Seq(Bytes) /\ Len(log) \in Nat /\ cursor \in Nat
    BY DEF TailInv, TypeOK
  <1>2. /\ text \in Seq(Bytes) /\ Len(text) \in Nat
        /\ Len(text) = IF cursor <= Len(log) THEN Len(log) - cursor ELSE 0
        /\ \A i \in 1..Len(text) : text[i] = log[cursor + i]
    <2>1. text = From(log, cursor + 1)
      OBVIOUS
    <2> HIDE DEF n, next, last, cursor
    <2>3. /\ From(log, cursor + 1) \in Seq(Bytes)
          /\ Len(From(log, cursor + 1)) =
                 IF cursor <= Len(log) THEN Len(log) - cursor ELSE 0
          /\ \A i \in 1..Len(From(log, cursor + 1)) :
                 From(log, cursor + 1)[i] = log[cursor + i]
      BY <1>1, FromIsSuffix
    <2>2. /\ text \in Seq(Bytes)
          /\ Len(text) = IF cursor <= Len(log) THEN Len(log) - cursor ELSE 0
          /\ \A i \in 1..Len(text) : text[i] = log[cursor + i]
      BY <2>1, <2>3
    <2>4. Len(text) \in Nat
      BY <2>2
    <2> QED
      BY <2>2, <2>4
  <1>3. /\ n \in 0..Len(text)
        /\ n # 0 => text[n] = "nl"
        /\ \A i \in n + 1..Len(text) : text[i] # "nl"
    BY <1>2, LastNewlineIsLast
  <1>4. Held(text) = Len(text) - n
    <2>1. \A i \in DOMAIN text : text[i] # "w2"
      <3>1. ASSUME NEW i \in 1..Len(text) PROVE text[i] # "w2"
        <4>1. text[i] = log[cursor + i] /\ cursor + i \in DOMAIN log
          <5> HIDE DEF cursor
          <5> QED
            BY <1>1, <1>2
        <4> QED
          BY <4>1 DEF Plain
      <3> QED
        BY <1>2, <3>1
    <2> QED
      BY <1>2, <2>1, HeldCount
  <1>5. next = IF Len(text) # 0 /\ n = 0 THEN cursor ELSE total - (Len(text) - n)
    <2>1. text # <<>> <=> Len(text) # 0
      BY <1>2
    <2> QED
      BY <1>4, <2>1 DEF NextCursor
  <1>6. /\ last \in 0..Len(log)
        /\ last # 0 => log[last] = "nl"
    BY <1>1, LastNewlineIsLast
  <1>7. n # 0 => log[cursor + n] = "nl"
    <2> HIDE DEF n, cursor
    <2> QED
      BY <1>1, <1>2, <1>3
  <1>8. last <= cursor + n
    <2> HIDE DEF n, cursor, last
    <2> SUFFICES ASSUME last > cursor + n PROVE FALSE
      BY <1>1, <1>2, <1>3, <1>6
    <2>1. last - cursor \in n + 1..Len(text) /\ log[last] = "nl"
      BY <1>1, <1>2, <1>3, <1>6
    <2>2. last - cursor \in 1..Len(text) /\ cursor + (last - cursor) = last
      BY <1>1, <1>2, <1>3, <1>6, <2>1
    <2>3. text[last - cursor] = log[last]
      BY <1>2, <2>2
    <2> QED
      BY <1>3, <2>1, <2>3
  <1>9. /\ n \in Nat /\ next \in Int /\ next <= cursor + n
        /\ total = Len(log) /\ cursor <= Len(log) =>
               next = cursor + n /\ next <= Len(log)
    <2> DEFINE l == Len(text)
               w == Len(log)
    <2>1. /\ n \in Nat /\ l \in Nat /\ w \in Nat /\ cursor \in Nat /\ n <= l
          /\ l = IF cursor <= w THEN w - cursor ELSE 0
          /\ next = IF l # 0 /\ n = 0 THEN cursor ELSE total - (l - n)
      BY <1>1, <1>2, <1>3, <1>5
    <2> HIDE DEF n, cursor, next, l, w
    <2>2. /\ next \in Int /\ next <= cursor + n
          /\ total = w /\ cursor <= w => next = cursor + n /\ next <= w
      <3>0. total <= w
        BY DEF w
      <3>1. CASE l # 0 /\ n = 0
        BY <2>1, <3>0, <3>1
      <3>2. CASE ~ (l # 0 /\ n = 0)
        BY <2>1, <3>0, <3>2
      <3> QED
        BY <3>1, <3>2
    <2> QED
      BY <2>1, <2>2 DEF w
  <1> QED
    BY <1>7, <1>8, <1>9

\* A page that is not touched, while the run stands still.
LEMMA PageUntouched ==
    ASSUME NEW v \in Viewers, PageInv(v), UNCHANGED runVars,
           offset'[v] = offset[v], shown'[v] = shown[v],
           stopped'[v] = "finished" => stopped[v] = "finished"
    PROVE  PageInv(v)'
  BY DEF PageInv, Plain, Shown, runVars

\* Rendering the lines of an answer keeps what was shown and adds the
\* positions up to the last newline.
LEMMA ShownAfter ==
    ASSUME TailInv, NEW v \in Viewers, offset[v] >= 0,
           NEW text, text = From(log, offset[v] + 1),
           shown' = [shown EXCEPT ![v] = Rendered(v, text)]
    PROVE  /\ Shown(v) \subseteq Shown(v)'
           /\ offset[v] + 1..offset[v] + LastNewline(text) \subseteq Shown(v)'
           /\ shown[v] = [i \in 1..offset[v] |-> i] =>
                  shown'[v] = [i \in 1..offset[v] + LastNewline(text) |-> i]
  <1> DEFINE n == LastNewline(text)
             old == shown[v]
             new == Rendered(v, text)
             cursor == offset[v]
  <1>1. /\ cursor \in Nat /\ old \in Seq(1..Len(log)) /\ n \in Nat
        /\ new \in Seq(1..Len(log)) /\ Len(new) = Len(old) + n
        /\ \A i \in 1..Len(old) : new[i] = old[i]
        /\ \A i \in 1..n : new[Len(old) + i] = cursor + i
    <2>1. TypeOK
      BY DEF TailInv
    <2>2. cursor \in Nat /\ old \in Seq(1..Len(log))
      BY <2>1 DEF TypeOK
    <2> QED
      BY <2>1, <2>2, RenderedPositions
  <1>2. shown'[v] = new
    BY DEF TailInv, TypeOK
  <1>3. /\ Shown(v) = {old[i] : i \in 1..Len(old)}
        /\ Shown(v)' = {new[i] : i \in 1..Len(new)}
    BY <1>1, <1>2 DEF Shown
  <1>4. Shown(v) \subseteq Shown(v)'
    <2>1. 1..Len(old) \subseteq 1..Len(new)
      <3> HIDE DEF old, new, n
      <3> QED
        BY <1>1
    <2> HIDE DEF old, new, n
    <2> QED
      BY <1>1, <1>3, <2>1
  <1>5. ASSUME NEW k \in cursor + 1..cursor + n PROVE k \in Shown(v)'
    <2> HIDE DEF old, new, n, cursor
    <2>1. PICK j \in 1..n : k = cursor + j
      <3>1. k - cursor \in 1..n /\ k = cursor + (k - cursor)
        BY <1>1
      <3> QED
        BY <3>1
    <2>2. Len(old) + j \in 1..Len(new) /\ new[Len(old) + j] = k
      BY <1>1, <2>1
    <2> QED
      BY <1>3, <2>2
  <1>6. ASSUME old = [i \in 1..cursor |-> i]
        PROVE  new = [i \in 1..cursor + n |-> i]
    <2> HIDE DEF old, new, n, cursor
    <2>1. Len(old) = cursor
      <3>1. DOMAIN old = 1..cursor /\ DOMAIN old = 1..Len(old) /\ Len(old) \in Nat
        BY <1>1, <1>6
      <3> QED
        BY <1>1, <3>1
    <2>2. DOMAIN new = 1..cursor + n
      BY <1>1, <2>1
    <2>3. ASSUME NEW i \in 1..cursor + n PROVE new[i] = i
      <3>1. CASE i \in 1..cursor
        BY <1>1, <1>6, <2>1, <3>1
      <3>2. CASE ~ (i \in 1..cursor)
        <4>1. i - cursor \in 1..n /\ cursor + (i - cursor) = i
          BY <1>1, <3>2
        <4> QED
          BY <1>1, <2>1, <4>1
      <3> QED
        BY <3>1, <3>2
    <2>4. new = [i \in 1..cursor + n |-> new[i]]
      BY <1>1, <2>2
    <2> QED
      BY <2>3, <2>4
  <1> QED
    BY <1>2, <1>4, <1>5, <1>6

\* The answer to a page keeps PageInv of that page.
LEMMA AnswerShows ==
    ASSUME TailInv, NEW v \in Viewers, PageInv(v), offset[v] >= 0,
           UNCHANGED runVars, NEW text, NEW total, NEW read,
           Answered(v, text, total, read)
    PROVE  PageInv(v)'
  <1>1. /\ log' = log /\ status' = status /\ source' = source
        /\ Plain' = Plain /\ LastNewline(log)' = LastNewline(log)
    BY DEF runVars, Plain
  <1>2. CASE total > HardCap
    <2>1. /\ offset'[v] = offset[v] /\ shown'[v] = shown[v]
          /\ stopped'[v] = "too_large"
      BY <1>2 DEF Answered, Answer, Stop, TailInv, TypeOK
    <2> QED
      BY <2>1, PageUntouched
  <1>3. CASE ~ (total > HardCap)
    <2> DEFINE n == LastNewline(text)
               next == NextCursor(offset[v], text, total)
    <2>1. /\ text = From(log, offset[v] + 1) /\ total \in Nat /\ total <= Len(log)
          /\ source = "gitlab" => total = Len(log)
          /\ read \in Finished => read = status
          /\ offset'[v] = next
          /\ shown' = [shown EXCEPT ![v] = Rendered(v, text)]
          /\ stopped'[v] = "finished" => stopped[v] = "finished" \/ read \in Finished
      BY <1>3 DEF Answered, Answer, Stop, TailInv, TypeOK
    <2>2. SUFFICES ASSUME Plain'
          PROVE /\ 1..offset'[v] \subseteq Shown(v)'
                /\ status' = "done" /\ stopped'[v] = "finished" =>
                       1..LastNewline(log) \subseteq Shown(v)'
                /\ source' = "gitlab" =>
                       /\ offset'[v] \in 0..Len(log)
                       /\ shown'[v] = [i \in 1..offset'[v] |-> i]
                       /\ offset'[v] # 0 => log[offset'[v]] = "nl"
      BY <1>1 DEF PageInv
    <2>3. Plain
      BY <1>1, <2>2
    <2>4. /\ offset[v] \in Nat /\ Len(log) \in Nat /\ LastNewline(log) \in Nat
      <3>1. offset[v] \in Int /\ log \in Seq(Bytes)
        BY DEF TailInv, TypeOK
      <3> QED
        BY <3>1, LastNewlineIsLast
    <2>5. /\ n \in Nat /\ next \in Int
          /\ next <= offset[v] + n
          /\ total = Len(log) /\ offset[v] <= Len(log) =>
                 next = offset[v] + n /\ next <= Len(log)
          /\ n # 0 => log[offset[v] + n] = "nl"
          /\ LastNewline(log) <= offset[v] + n
      BY <2>1, <2>3, CursorBehindLines
    <2>6. /\ Shown(v) \subseteq Shown(v)'
          /\ offset[v] + 1..offset[v] + n \subseteq Shown(v)'
          /\ shown[v] = [i \in 1..offset[v] |-> i] =>
                 shown'[v] = [i \in 1..offset[v] + n |-> i]
      BY <2>1, ShownAfter
    <2> HIDE DEF n, next
    <2>7. 1..offset[v] + n \subseteq Shown(v)'
      <3>1. 1..offset[v] \subseteq Shown(v)'
        BY <2>3, <2>6 DEF PageInv
      <3>2. 1..offset[v] + n = (1..offset[v]) \cup (offset[v] + 1..offset[v] + n)
        BY <2>4, <2>5
      <3> QED
        BY <2>6, <3>1, <3>2
    <2>8. 1..offset'[v] \subseteq Shown(v)'
      <3>1. 1..next \subseteq 1..offset[v] + n
        BY <2>4, <2>5
      <3> QED
        BY <2>1, <2>7, <3>1
    <2>9. 1..LastNewline(log) \subseteq Shown(v)'
      <3> DEFINE last == LastNewline(log)
      <3> HIDE DEF last
      <3>1. 1..last \subseteq 1..offset[v] + n
        BY <2>4, <2>5 DEF last
      <3> QED
        BY <2>7, <3>1 DEF last
    <2>10. ASSUME source' = "gitlab"
           PROVE  /\ offset'[v] \in 0..Len(log)
                  /\ shown'[v] = [i \in 1..offset'[v] |-> i]
                  /\ offset'[v] # 0 => log[offset'[v]] = "nl"
      <3>1. /\ source = "gitlab" /\ offset[v] \in 0..Len(log)
            /\ shown[v] = [i \in 1..offset[v] |-> i]
            /\ offset[v] # 0 => log[offset[v]] = "nl"
        BY <1>1, <2>3, <2>10 DEF PageInv
      <3>2. offset'[v] = offset[v] + n /\ offset[v] + n <= Len(log)
        BY <2>1, <2>4, <2>5, <3>1
      <3>3. offset[v] + n # 0 => log[offset[v] + n] = "nl"
        <4>1. CASE n = 0
          <5>1. offset[v] + n = offset[v]
            BY <2>4, <4>1
          <5> QED
            BY <3>1, <5>1
        <4>2. CASE n # 0
          BY <2>5, <4>2
        <4> QED
          BY <4>1, <4>2
      <3> QED
        BY <2>4, <2>5, <2>6, <3>1, <3>2, <3>3
    <2> QED
      BY <2>8, <2>9, <2>10
  <1> QED
    BY <1>2, <1>3

\* The log grows under the pages, before the run is done.
LEMMA RunShows ==
    ASSUME TailInv, NEW v \in Viewers, PageInv(v),
           Write \/ WriterEnds \/ StatusTerminal
    PROVE  PageInv(v)'
  <1>1. /\ offset'[v] = offset[v] /\ shown'[v] = shown[v] /\ source' = source
        /\ stopped'[v] = stopped[v] /\ Shown(v)' = Shown(v)
    BY DEF Write, WriterEnds, StatusTerminal, viewerVars, Shown
  <1>2. log \in Seq(Bytes) /\ Len(log) \in Nat
    BY DEF TailInv, TypeOK
  <1>3. CASE WriterEnds \/ StatusTerminal
    <2>1. log' = log
      BY <1>3 DEF WriterEnds, StatusTerminal
    <2>2. status' = "done" /\ stopped[v] = "finished" => status = "done"
      BY <1>3 DEF WriterEnds, StatusTerminal, TailInv, StatusTold, Finished
    <2> QED
      BY <1>1, <2>1, <2>2 DEF PageInv, Plain
  <1>4. CASE Write
    <2>1. PICK c \in Characters : log' = log \o c
      BY <1>4 DEF Write
    <2>2. c = <<"a">> \/ c = <<"w1", "w2">> \/ c = <<"nl">>
      BY CharactersAssumption DEF CharacterKinds
    <2>3. /\ Len(log') \in Nat /\ Len(log) <= Len(log')
          /\ DOMAIN log' = 1..Len(log') /\ DOMAIN log = 1..Len(log)
          /\ \A i \in 1..Len(log) : log'[i] = log[i]
      BY <1>2, <2>1, <2>2
    <2>4. Plain' => Plain
      BY <1>2, <2>3 DEF Plain
    <2>5. status' = status /\ status # "done"
      BY <1>4 DEF Write, TailInv, StatusTold
    <2> QED
      BY <1>1, <1>2, <2>3, <2>4, <2>5 DEF PageInv
  <1> QED
    BY <1>3, <1>4

\* Every step preserves PageInv of every page: its own answers, the run's
\* steps, and the steps that start the page anew or leave it alone.
LEMMA ShowStep ==
    ASSUME TailInv, ShowInv, [Next]_vars
    PROVE  ShowInv'
  <1> SUFFICES ASSUME NEW w \in Viewers PROVE PageInv(w)'
    BY DEF ShowInv
  <1>0. PageInv(w)
    BY DEF ShowInv
  <1>1. CASE Write \/ WriterEnds \/ StatusTerminal
    BY <1>0, <1>1, RunShows
  <1>2. CASE CacheExpires \/ UNCHANGED vars
    <2>1. UNCHANGED <<runVars, viewerVars>>
      BY <1>2 DEF CacheExpires, vars, viewerVars
    <2> QED
      BY <1>0, <2>1, PageUntouched DEF viewerVars
  <1>3. ASSUME NEW v \in Viewers,
               StatSize(v) \/ ReadTail(v) \/ FetchTrace(v) \/ ReadCache(v)
        PROVE  PageInv(w)'
    <2>1. CASE UNCHANGED <<runVars, offset, shown, stopped>>
      BY <1>0, <2>1, PageUntouched
    <2>2. CASE /\ offset[v] >= 0 /\ UNCHANGED runVars
               /\ \E text, total, read : Answered(v, text, total, read)
      <3>1. PICK text, total, read : Answered(v, text, total, read)
        BY <2>2
      <3>2. CASE w = v
        BY <1>0, <2>2, <3>1, <3>2, AnswerShows
      <3>3. CASE w # v
        <4>1. /\ offset'[w] = offset[w] /\ shown'[w] = shown[w]
              /\ stopped'[w] = stopped[w]
          BY <3>1, <3>3 DEF Answered, Answer, Stop, TailInv, TypeOK
        <4> QED
          BY <1>0, <2>2, <4>1, PageUntouched
      <3> QED
        BY <3>2, <3>3
    <2> QED
      BY <1>3, <2>1, <2>2, Answers
  <1>4. ASSUME NEW v \in Viewers,
               ReadStatus(v) \/ PollRejected(v) \/ PollFails(v) \/ SessionEnds(v)
        PROVE  PageInv(w)'
    <2>1. /\ UNCHANGED <<runVars, offset, shown>>
          /\ stopped'[w] = "finished" => stopped[w] = "finished"
      BY <1>4 DEF ReadStatus, PollRejected, PollFails, Failed, SessionEnds, Stop,
                  TailInv, TypeOK
    <2> QED
      BY <1>0, <2>1, PageUntouched
  <1>5. ASSUME NEW v \in Viewers, Reopen(v)
        PROVE  PageInv(w)'
    <2>1. CASE w # v
      <3>1. /\ UNCHANGED runVars
            /\ offset'[w] = offset[w] /\ shown'[w] = shown[w]
            /\ stopped'[w] = stopped[w]
        BY <1>5, <2>1 DEF Reopen, Stop, TailInv, TypeOK
      <3> QED
        BY <1>0, <3>1, PageUntouched
    <2>2. CASE w = v
      <3>1. /\ UNCHANGED runVars /\ offset'[w] = 0 /\ shown'[w] = <<>>
            /\ stopped'[w] = "no"
        BY <1>5, <2>2 DEF Reopen, Stop, TailInv, TypeOK
      <3>2. 1..0 = {} /\ <<>> = [i \in 1..0 |-> i]
        OBVIOUS
      <3>3. Len(log') \in Nat /\ 0 \in 0..Len(log')
        <4>1. Len(log') = Len(log) /\ Len(log) \in Nat
          BY <3>1 DEF runVars, TailInv, TypeOK
        <4> QED
          BY <4>1
      <3> QED
        BY <3>1, <3>2, <3>3 DEF PageInv
    <2> QED
      BY <2>1, <2>2
  <1> QED
    BY <1>1, <1>2, <1>3, <1>4, <1>5 DEF Next, ViewerStep

\* The pages of a run show what PageInv says.
LEMMA ShowInvariant == Spec => []ShowInv
  <1>1. Init => ShowInv
    <2> SUFFICES ASSUME Init, NEW v \in Viewers PROVE PageInv(v)
      BY DEF ShowInv
    <2>1. /\ offset[v] = 0 /\ shown[v] = <<>> /\ stopped[v] = "no"
          /\ log = <<>>
      BY DEF Init
    <2>2. 1..0 = {} /\ <<>> = [i \in 1..0 |-> i] /\ Len(<<>>) = 0 /\ 0 \in 0..0
      OBVIOUS
    <2> QED
      BY <2>1, <2>2 DEF PageInv
  <1>2. TailInv /\ ShowInv /\ [Next]_vars => ShowInv'
    BY ShowStep
  <1> QED
    BY <1>1, <1>2, TailInvariant, PTL DEF Spec

\* No byte a cursor has passed is missing from its page, however the run
\* writes between the status, the size and the text of an answer, for any
\* number of pages and any failures, as long as characters are one byte.
THEOREM NothingEverSkipped == Spec => []NothingSkipped
  <1>1. ShowInv => NothingSkipped
    BY DEF ShowInv, PageInv, NothingSkipped
  <1> QED
    BY <1>1, ShowInvariant, PTL

\* A page that stopped because the run is done shows every complete line:
\* the status it stopped on was read before the log was.
THEOREM FinishedPagesComplete == Spec => []FinishedShowsAll
  <1>1. ShowInv => FinishedShowsAll
    BY DEF ShowInv, PageInv, FinishedShowsAll
  <1> QED
    BY <1>1, ShowInvariant, PTL

\* The page of a job's trace shows its complete lines once each and in
\* order, whether an answer came from GitLab or from the cache.
THEOREM TracesExact == Spec => []TraceShownExactly
  <1>1. ShowInv => TraceShownExactly
    BY DEF ShowInv, PageInv, TraceShownExactly
  <1> QED
    BY <1>1, ShowInvariant, PTL

=============================================================================
