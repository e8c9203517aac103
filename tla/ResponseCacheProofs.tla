------------------------ MODULE ResponseCacheProofs ------------------------
(***************************************************************************)
(* Proofs about module ResponseCache: however many handlers run, whatever  *)
(* the windows are and whenever the indexer, the chain and the clock move, *)
(* an answer is recent, a failure is explained by what happened to its own *)
(* request, an outage is not remembered by the process, a hit of search    *)
(* resolves, and a lag is one there was.                                   *)
(*                                                                         *)
(* The properties are about the answer of one step; the invariant is about *)
(* where an answer can come from.  Ready says what is known of a draft at  *)
(* each await of its handler; CacheInv and EdgeInv say what may be in the   *)
(* two caches, and how much of its window an entry has used up.            *)
(***************************************************************************)
EXTENDS ResponseCache, TLAPS

Busy == {"second", "third", "put"}

(***************************************************************************)
(* What is known of the draft `d` of handler `r` when it is at `s`.  `bad` *)
(* says that one of its queries failed, `q` is the lag at its last read.   *)
(***************************************************************************)
Ready(r, d, s, bad, q) ==
  /\ s \in {"second", "third"} =>
       d.kind = "data" /\ (key \notin LagKey => ~d.gap)
  /\ d.kind \in {"data", "estimate", "unknown", "error", "missing"}
  /\ d.old = 0
  /\ d.gap => r \in dark \/ bad
  /\ d.kind = "data" /\ ~d.gap /\ ~(key = "eta" /\ s = "second") =>
       d.total >= floor[r]
  /\ d.kind = "data" /\ key \in {"totals", "drips"} /\ s # "second" =>
       d.committed >= floor[r]
  /\ d.kind = "estimate" => key = "finality"
  /\ d.kind = "unknown" => key = "cluster" /\ r \in dark
  /\ d.kind = "error" =>
       bad \/ (key = "eta" /\ floor[r] = 0) \/ key \in BadWindow
  /\ key \in BadWindow => d.kind = "error"
  /\ d.kind = "missing" => floor[r] = 0
  /\ key = "eta" /\ s = "second" /\ ~d.gap => d.committed <= head
  /\ key = "info" /\ s = "second" /\ ~d.gap => d.total <= rows
  /\ key = "eta" /\ s = "put" /\ d.kind = "data" => d.lag \in 0..q
  /\ key = "info" /\ s = "put" /\ d.kind = "data" /\ ~d.gap /\ d.total > 0 =>
       d.lag >= q

\* A handler has seen what was there when it began; one whose client follows
\* a hit began when there was something.
HandlerInv(r) ==
  /\ floor[r] <= rows
  /\ r \in found =>
       /\ key \in SearchKey /\ rows > 0 /\ stage[r] # "idle"
       /\ stage[r] # "found" => floor[r] > 0
  /\ ~up /\ r \in InHand => r \in dark
  /\ stage[r] \in Busy =>
       Ready(r, draft[r], stage[r], r \in failed, real[r])

\* What holds of every answer that can be used again.
Sound(b) ==
  /\ key \notin BadWindow
  /\ b.kind \in {"data", "estimate", "unknown"}
  /\ b.kind = "estimate" => key = "finality"
  /\ b.kind = "unknown" => key = "cluster"
  /\ b.kind = "data" /\ ~b.gap => b.total >= b.since
  /\ b.kind = "data" /\ key \in {"totals", "drips"} => b.committed >= b.since
  /\ b.gap => b.hurt

CacheInv ==
  cache # NoEntry =>
    /\ Sound(cache.body)
    /\ cache.body.kind # "unknown"
    /\ cache.body.old = cache.age

EdgeInv ==
  edge # NoEntry =>
    /\ Sound(edge.body)
    /\ edge.life = MaxAgeOf(edge.body)
    /\ edge.body.old <= edge.age + (IF edge.body.kind = "unknown" THEN 0
                                    ELSE Window(TTL[key]))

AnswerInv ==
  AnswersRecent /\ OutageNotSticky /\ FailuresExplained /\ HitResolves

\* The inductive invariant.
Inv ==
  /\ TypeOK
  /\ \A r \in Handler : HandlerInv(r)
  /\ CacheInv
  /\ EdgeInv
  /\ AnswerInv

-----------------------------------------------------------------------------
(***************************************************************************)
(* Bodies and entries.                                                     *)
(***************************************************************************)

\* A body that says only its kind.
LEMMA PlainFacts ==
  ASSUME NEW k \in {"none", "data", "estimate", "unknown", "error", "missing",
                    "nomatch"}
  PROVE  /\ Plain(k) \in Body
         /\ Plain(k).kind = k /\ Plain(k).total = 0 /\ Plain(k).committed = 0
         /\ Plain(k).lag = 0 /\ ~Plain(k).gap /\ Plain(k).old = 0
         /\ Plain(k).since = 0 /\ ~Plain(k).hurt
  BY DEF Plain, NoBody, Body

\* A body that says how much there is.
LEMMA DataFacts ==
  ASSUME NEW n \in Nat
  PROVE  /\ Data(n) \in Body
         /\ Data(n).kind = "data" /\ Data(n).total = n /\ Data(n).committed = n
         /\ Data(n).lag = 0 /\ ~Data(n).gap /\ Data(n).old = 0
         /\ Data(n).since = 0 /\ ~Data(n).hurt
  BY DEF Data, Plain, NoBody, Body

\* A tick makes an entry older, and nothing else.
LEMMA AgedFacts ==
  ASSUME NEW e \in Entry, e # NoEntry, Aged(e) # NoEntry
  PROVE  /\ Aged(e) \in Entry
         /\ Aged(e).age = e.age + 1 /\ Aged(e).life = e.life
         /\ Aged(e).body \in Body
         /\ Aged(e).body.old = e.body.old + 1
         /\ Aged(e).body.kind = e.body.kind
         /\ Aged(e).body.total = e.body.total
         /\ Aged(e).body.committed = e.body.committed
         /\ (Aged(e).body.gap <=> e.body.gap)
         /\ Aged(e).body.since = e.body.since
         /\ (Aged(e).body.hurt <=> e.body.hurt)
  <1>1. Aged(e) = [e EXCEPT !.age = @ + 1, !.body.old = @ + 1]
    BY DEF Aged
  <1>2. e.body \in Body /\ e.age \in Nat /\ e.life \in Nat
    BY DEF Entry
  <1>3. PICK b : b = [e.body EXCEPT !.old = @ + 1]
    OBVIOUS
  <1>4. /\ Aged(e).body = b /\ Aged(e).age = e.age + 1
        /\ Aged(e).life = e.life
    BY <1>1, <1>3 DEF Entry
  <1>5. /\ b \in Body /\ b.old = e.body.old + 1 /\ b.kind = e.body.kind
        /\ b.total = e.body.total /\ b.committed = e.body.committed
        /\ b.since = e.body.since
    BY <1>2, <1>3 DEF Body
  <1>6. b.gap = e.body.gap /\ b.hurt = e.body.hurt
    BY <1>2, <1>3 DEF Body
  <1>7. Aged(e) \in Entry
    <2>1. e = [age |-> e.age, life |-> e.life, body |-> e.body]
      BY DEF Entry
    <2>2. Aged(e) = [age |-> e.age + 1, life |-> e.life, body |-> b]
      BY <1>1, <1>3, <2>1, Zenon
    <2> QED BY <2>2, <1>2, <1>5 DEF Entry
  <1> QED BY <1>4, <1>5, <1>6, <1>7

-----------------------------------------------------------------------------
(***************************************************************************)
(* Handlers.                                                               *)
(***************************************************************************)

\* What others do leaves a handler where it is.
LEMMA HandlerKept ==
  ASSUME TypeOK, NEW h \in Handler, HandlerInv(h),
         stage'[h] = stage[h], draft'[h] = draft[h], floor'[h] = floor[h],
         real'[h] = real[h], h \in found' <=> h \in found,
         h \in failed <=> h \in failed', h \in dark => h \in dark',
         key' = key, rows' \in Nat, rows' >= rows,
         head' \in Nat, head' >= head,
         ~up' /\ h \in InHand => h \in dark'
  PROVE  HandlerInv(h)'
  <1> DEFINE d == draft[h]
  <1>1. /\ floor[h] \in Nat /\ rows \in Nat /\ head \in Nat
        /\ d.total \in Nat /\ d.committed \in Nat
    BY DEF TypeOK, Body
  <1>2. floor[h] <= rows'
    BY <1>1 DEF HandlerInv
  <1>3. h \in found => key \in SearchKey /\ rows' > 0 /\ stage[h] # "idle"
                      /\ (stage[h] # "found" => floor[h] > 0)
    BY <1>1 DEF HandlerInv
  <1>4. (h \in InHand)' => h \in InHand
    BY DEF InHand
  <1>5. ASSUME stage[h] \in Busy
        PROVE  Ready(h, draft[h], stage[h], h \in failed, real[h])'
    <2>1. Ready(h, draft[h], stage[h], h \in failed, real[h])
      BY <1>5 DEF HandlerInv
    <2>2. \A n \in Nat : (n <= head => n <= head') /\ (n <= rows => n <= rows')
      BY <1>1
    <2> QED BY <1>1, <2>1, <2>2 DEF Ready
  <1> QED BY <1>2, <1>3, <1>4, <1>5 DEF HandlerInv

\* A handler that answered is free.
LEMMA DeliverHandlers ==
  ASSUME Inv, NEW r \in Handler, NEW b, NEW o, NEW f, NEW d, NEW x,
         Deliver(r, b, o, f, d, x), UNCHANGED <<key, rows, head, up>>
  PROVE  \A h \in Handler : HandlerInv(h)'
  <1> SUFFICES ASSUME NEW h \in Handler PROVE HandlerInv(h)'
    OBVIOUS
  <1>1. TypeOK /\ HandlerInv(h)
    BY DEF Inv
  <1>2. CASE h = r
    BY <1>1, <1>2 DEF Deliver, HandlerInv, TypeOK, InHand, Busy
  <1>3. CASE h # r
    <2>1. /\ stage'[h] = stage[h] /\ draft'[h] = draft[h]
          /\ floor'[h] = floor[h] /\ real'[h] = real[h]
          /\ (h \in found' <=> h \in found) /\ (h \in failed <=> h \in failed')
          /\ (h \in dark <=> h \in dark')
      BY <1>1, <1>3 DEF Deliver, TypeOK
    <2>2. rows' \in Nat /\ rows' >= rows /\ head' \in Nat /\ head' >= head
      BY <1>1 DEF TypeOK
    <2>3. ~up' /\ h \in InHand => h \in dark'
      BY <1>1, <2>1 DEF HandlerInv
    <2> QED BY <1>1, <2>1, <2>2, <2>3, HandlerKept
  <1> QED BY <1>2, <1>3

\* A handler whose call returned knows what Ready says.
LEMMA ReturnedHandlers ==
  ASSUME Inv, NEW r \in Handler, NEW b \in Body, NEW s \in Busy,
         Returned(r, b, s), stage[r] \notin {"idle", "found"},
         failed \subseteq failed', failed' \subseteq failed \cup {r},
         \A q \in Nat : (key \in LagKey => q = head - rows) =>
           Ready(r, b, s, r \in failed', q)
  PROVE  \A h \in Handler : HandlerInv(h)'
  <1> SUFFICES ASSUME NEW h \in Handler PROVE HandlerInv(h)'
    OBVIOUS
  <1>1. TypeOK /\ HandlerInv(h)
    BY DEF Inv
  <1>u. UNCHANGED <<key, rows, head, up, floor, found, dark>>
    BY DEF Returned
  <1>2. CASE h = r
    <2>1. stage'[r] = s /\ draft'[r] = b
      BY <1>1 DEF Returned, TypeOK
    <2>2. real'[r] \in Nat /\ (key \in LagKey => real'[r] = head - rows)
      <3>1. head - rows \in Nat
        BY <1>1 DEF TypeOK
      <3> QED BY <1>1, <3>1 DEF Returned, TypeOK
    <2>3. Ready(r, b, s, r \in failed', real'[r])
      BY <2>2
    <2>4. Ready(r, draft[r], stage[r], r \in failed, real[r])'
      BY <1>u, <2>1, <2>3 DEF Ready
    <2>5. r \in InHand
      BY DEF InHand
    <2> QED BY <1>1, <1>2, <1>u, <2>1, <2>4, <2>5 DEF HandlerInv, Busy
  <1>3. CASE h # r
    <2>1. /\ stage'[h] = stage[h] /\ draft'[h] = draft[h]
          /\ real'[h] = real[h] /\ (h \in failed <=> h \in failed')
      BY <1>1, <1>3 DEF Returned, TypeOK
    <2>2. rows' \in Nat /\ rows' >= rows /\ head' \in Nat /\ head' >= head
      BY <1>1, <1>u DEF TypeOK
    <2>3. ~up' /\ h \in InHand => h \in dark'
      BY <1>1, <1>u DEF HandlerInv
    <2> QED BY <1>1, <1>u, <2>1, <2>2, <2>3, HandlerKept
  <1> QED BY <1>2, <1>3

-----------------------------------------------------------------------------
(***************************************************************************)
(* Steps that answer nobody.                                               *)
(***************************************************************************)
Answers == [body : Body, edged : BOOLEAN, found : BOOLEAN, floor : Nat,
            dark : BOOLEAN, failed : BOOLEAN]

\* The empty values have their types.
LEMMA NoAnswerFacts ==
  NoBody \in Body /\ NoAnswer \in Answers /\ NoEntry \in Entry
  <1>1. NoBody \in Body
    BY DEF NoBody, Body
  <1>2. NoEntry \in Entry
    BY <1>1 DEF NoEntry, Entry
  <1>3. NoAnswer \in Answers
    BY <1>1 DEF NoAnswer, Answers
  <1> QED BY <1>1, <1>2, <1>3

\* Saying nothing is never wrong.
LEMMA SilentAnswers ==
  ASSUME Silent
  PROVE  AnswerInv'
  BY DEF Silent, NoAnswer, NoBody, Told, AnswerInv, AnswersRecent,
         OutageNotSticky, FailuresExplained, HitResolves

\* The caches do not change by themselves.
LEMMA CachesKept ==
  ASSUME CacheInv, EdgeInv, UNCHANGED <<key, cache, edge>>
  PROVE  CacheInv' /\ EdgeInv'
  BY DEF CacheInv, EdgeInv, Sound, MaxAgeOf, Window

\* A call that returns what Ready asks for keeps the invariant.
LEMMA ReturnedStep ==
  ASSUME Inv, NEW r \in Handler, NEW b \in Body, NEW s \in Busy,
         Returned(r, b, s), stage[r] \notin {"idle", "found"},
         \/ UNCHANGED <<failed, faults>>
         \/ failed' = failed \cup {r} /\ Fault,
         \A q \in Nat : (key \in LagKey => q = head - rows) =>
           Ready(r, b, s, r \in failed', q)
  PROVE  Inv'
  <1>1. TypeOK /\ CacheInv /\ EdgeInv
    BY DEF Inv
  <1>2. \A h \in Handler : HandlerInv(h)'
    BY ReturnedHandlers
  <1>3. CacheInv' /\ EdgeInv'
    BY <1>1, CachesKept DEF Returned
  <1>4. AnswerInv'
    BY SilentAnswers DEF Returned
  <1>5. TypeOK'
    <2>1. draft' \in [Handler -> Body]
      BY <1>1 DEF TypeOK, Returned
    <2>2. stage' \in [Handler -> {"idle", "found", "first", "second", "third",
                                 "put"}]
      BY <1>1 DEF TypeOK, Returned, Busy
    <2>3. real' \in [Handler -> Nat]
      <3>1. head - rows \in Nat
        BY <1>1 DEF TypeOK
      <3> QED BY <1>1, <3>1 DEF TypeOK, Returned
    <2>4. failed' \subseteq Handler /\ faults' \in 0..MaxFaults
      BY <1>1, CacheAssumption DEF TypeOK, Fault
    <2>5. answer' \in Answers
      BY NoAnswerFacts DEF Returned, Silent
    <2>6. UNCHANGED <<key, rows, head, up, cache, edge, floor, found, dark>>
      BY DEF Returned
    <2> QED BY <1>1, <2>1, <2>2, <2>3, <2>4, <2>5, <2>6
            DEF TypeOK, Answers
  <1> QED BY <1>2, <1>3, <1>4, <1>5 DEF Inv

\* The clock moves.
LEMMA TickStep ==
  ASSUME Inv, Tick
  PROVE  Inv'
  <1>1. TypeOK /\ CacheInv /\ EdgeInv
    BY DEF Inv
  <1>u. UNCHANGED <<key, rows, head, up, faults, stage, draft, floor, real,
                    found, dark, failed>>
    BY DEF Tick, world, request
  <1>2. \A h \in Handler : HandlerInv(h)'
    <2> SUFFICES ASSUME NEW h \in Handler PROVE HandlerInv(h)'
      OBVIOUS
    <2>1. HandlerInv(h)
      BY DEF Inv
    <2> QED BY <1>1, <1>u, <2>1, HandlerKept DEF HandlerInv, TypeOK
  <1>3. cache' \in Entry /\ edge' \in Entry
    <2>1. \A e \in Entry : Aged(e) \in Entry
      BY AgedFacts, NoAnswerFacts DEF Aged
    <2> QED BY <1>1, <2>1 DEF Tick, TypeOK
  <1>4. CacheInv'
    <2> SUFFICES ASSUME Aged(cache) # NoEntry
                 PROVE  /\ Sound(cache.body)'
                        /\ cache'.body.kind # "unknown"
                        /\ cache'.body.old = cache'.age
      BY DEF Tick, CacheInv
    <2>1. cache # NoEntry /\ cache \in Entry
      BY <1>1 DEF Aged, TypeOK
    <2> QED BY <1>1, <1>u, <2>1, AgedFacts DEF Tick, CacheInv, Sound
  <1>5. EdgeInv'
    <2> SUFFICES ASSUME Aged(edge) # NoEntry
                 PROVE  /\ Sound(edge.body)'
                        /\ edge'.life = MaxAgeOf(edge.body)'
                        /\ edge'.body.old <= edge'.age +
                             (IF edge'.body.kind = "unknown" THEN 0
                              ELSE Window(TTL[key]))
      BY <1>u DEF Tick, EdgeInv
    <2>1. edge # NoEntry /\ edge \in Entry
      BY <1>1 DEF Aged, TypeOK
    <2>2. edge' = Aged(edge)
      BY DEF Tick
    <2>3. Sound(edge.body)'
      BY <1>1, <1>u, <2>1, <2>2, AgedFacts DEF EdgeInv, Sound
    <2>4. edge'.life = MaxAgeOf(edge.body)'
      BY <1>1, <1>u, <2>1, <2>2, AgedFacts DEF EdgeInv, MaxAgeOf
    <2>5. edge.age \in Nat /\ edge.body.old \in Nat
      BY <2>1 DEF Entry, Body
    <2>6. Window(TTL[key]) \in Int
      BY <1>1, CacheAssumption DEF TypeOK, Window
    <2>7. edge.body.old <= edge.age + (IF edge.body.kind = "unknown" THEN 0
                                       ELSE Window(TTL[key]))
      BY <1>1, <2>1 DEF EdgeInv
    <2>8. /\ edge'.body.old = edge.body.old + 1 /\ edge'.age = edge.age + 1
          /\ edge'.body.kind = edge.body.kind
      BY <2>1, <2>2, AgedFacts
    <2> HIDE DEF Window
    <2> QED BY <2>3, <2>4, <2>5, <2>6, <2>7, <2>8
  <1>6. AnswerInv'
    BY SilentAnswers DEF Tick
  <1>7. TypeOK'
    <2>1. answer' \in Answers
      BY NoAnswerFacts DEF Tick, Silent
    <2> QED BY <1>1, <1>u, <1>3, <2>1 DEF TypeOK, Answers
  <1> QED BY <1>2, <1>4, <1>5, <1>6, <1>7 DEF Inv

\* The indexer and the chain move.
LEMMA WorldStep ==
  ASSUME Inv, Produce \/ Record \/ GoDown \/ ComeBack
  PROVE  Inv'
  <1>1. TypeOK /\ CacheInv /\ EdgeInv
    BY DEF Inv
  <1>u. /\ UNCHANGED <<key, cache, edge, stage, draft, floor, real, found,
                       failed>>
        /\ Silent
    BY DEF Produce, Record, GoDown, ComeBack, request
  <1>2. /\ head' \in Nat /\ head' >= head
        /\ rows' \in 0..head' /\ rows' >= rows
    <2>1. rows \in Nat /\ head \in Nat /\ rows <= head
      BY <1>1 DEF TypeOK
    <2>2. CASE Produce
      BY <2>1, <2>2 DEF Produce
    <2>3. CASE Record
      BY <2>1, <2>3 DEF Record
    <2>4. CASE GoDown \/ ComeBack
      BY <2>1, <2>4 DEF GoDown, ComeBack
    <2> QED BY <2>2, <2>3, <2>4
  <1>3. dark \subseteq dark' /\ dark' \subseteq Handler
    BY <1>1 DEF Produce, Record, GoDown, ComeBack, request, TypeOK, InHand
  <1>4. faults' \in 0..MaxFaults
    BY <1>1, CacheAssumption
    DEF Produce, Record, GoDown, ComeBack, Fault, TypeOK
  <1>5. up' \in BOOLEAN /\ (~up' => ~up \/ InHand \subseteq dark')
    BY <1>1 DEF Produce, Record, GoDown, ComeBack, TypeOK
  <1>6. \A h \in Handler : HandlerInv(h)'
    <2> SUFFICES ASSUME NEW h \in Handler PROVE HandlerInv(h)'
      OBVIOUS
    <2>1. HandlerInv(h)
      BY DEF Inv
    <2>2. ~up' /\ h \in InHand => h \in dark'
      BY <1>3, <1>5, <2>1 DEF HandlerInv
    <2>3. rows' \in Nat
      BY <1>2
    <2> QED BY <1>1, <1>u, <1>2, <1>3, <2>1, <2>2, <2>3, HandlerKept
  <1>7. CacheInv' /\ EdgeInv'
    BY <1>1, <1>u, CachesKept
  <1>8. AnswerInv'
    BY <1>u, SilentAnswers
  <1>9. TypeOK'
    <2>1. answer' \in Answers
      BY <1>u, NoAnswerFacts DEF Silent
    <2> QED BY <1>1, <1>u, <1>2, <1>3, <1>4, <1>5, <2>1, Zenon
            DEF TypeOK, Answers
  <1> QED BY <1>6, <1>7, <1>8, <1>9 DEF Inv

-----------------------------------------------------------------------------
(***************************************************************************)
(* Computations.                                                           *)
(***************************************************************************)

\* What a handler knows before a call returns.
LEMMA BeforeCall ==
  ASSUME Inv, NEW r \in Handler
  PROVE  /\ rows \in Nat /\ head \in Nat /\ rows <= head /\ up \in BOOLEAN
         /\ floor[r] \in Nat /\ floor[r] <= rows
         /\ draft[r] \in Body /\ draft[r].total \in Nat
         /\ draft[r].committed \in Nat
         /\ ~up /\ stage[r] \notin {"idle", "found"} => r \in dark
         /\ stage[r] \in Busy =>
              Ready(r, draft[r], stage[r], r \in failed, real[r])
  <1>1. TypeOK /\ HandlerInv(r)
    BY DEF Inv
  <1>2. draft[r] \in Body
    BY <1>1 DEF TypeOK
  <1>3. draft[r].total \in Nat /\ draft[r].committed \in Nat
    BY <1>2 DEF Body
  <1>4. ~up /\ stage[r] \notin {"idle", "found"} => r \in dark
    BY <1>1 DEF HandlerInv, InHand
  <1> QED BY <1>1, <1>2, <1>3, <1>4 DEF HandlerInv, TypeOK

\* One query, over whatever is recorded now.
LEMMA OnceStep ==
  ASSUME Inv, NEW r \in Handler, NEW s \in Busy,
         NEW k \in CacheKey \ (LagKey \cup BadWindow),
         At(r, k, "first"), Computed(r, Data(rows), s)
  PROVE  Inv'
  <1>1. rows \in Nat /\ floor[r] \in Nat /\ floor[r] <= rows
    BY BeforeCall
  <1>2. Data(rows) \in Body
    BY <1>1, DataFacts
  <1>3. /\ Returned(r, Data(rows), s) /\ UNCHANGED <<failed, faults>>
        /\ stage[r] = "first" /\ key = k
    BY DEF Computed, At
  <1>4. ASSUME NEW q \in Nat
        PROVE  Ready(r, Data(rows), s, r \in failed', q)
    BY <1>1, <1>3, DataFacts DEF Ready, LagKey
  <1> QED BY <1>2, <1>3, <1>4, ReturnedStep

\* The first of two counts.
LEMMA HalfStep ==
  ASSUME Inv, NEW r \in Handler, NEW k \in {"totals", "drips"},
         At(r, k, "first"),
         Computed(r, [Data(rows) EXCEPT !.committed = 0], "second")
  PROVE  Inv'
  <1>1. rows \in Nat /\ floor[r] \in Nat /\ floor[r] <= rows
    BY BeforeCall
  <1>2. PICK b : b = [Data(rows) EXCEPT !.committed = 0]
    OBVIOUS
  <1>3. /\ b \in Body /\ b.kind = "data" /\ b.total = rows /\ b.old = 0
        /\ ~b.gap
    BY <1>1, <1>2 DEF Data, Plain, NoBody, Body
  <1>4. /\ Returned(r, b, "second") /\ UNCHANGED <<failed, faults>>
        /\ stage[r] = "first" /\ key = k
    BY <1>2 DEF Computed, At
  <1>5. ASSUME NEW q \in Nat
        PROVE  Ready(r, b, "second", r \in failed', q)
    BY <1>1, <1>3, <1>4 DEF Ready, BadWindow
  <1> QED BY <1>3, <1>4, <1>5, ReturnedStep DEF Busy

\* The second one.
LEMMA OtherHalfStep ==
  ASSUME Inv, NEW r \in Handler, NEW k \in {"totals", "drips"},
         NEW s \in {"third", "put"},
         At(r, k, "second"),
         Computed(r, [draft[r] EXCEPT !.committed = rows], s)
  PROVE  Inv'
  <1>1. /\ rows \in Nat /\ floor[r] \in Nat /\ floor[r] <= rows
        /\ draft[r] \in Body
    BY BeforeCall
  <1>2. PICK b : b = [draft[r] EXCEPT !.committed = rows]
    OBVIOUS
  <1>3. /\ b \in Body /\ b.kind = draft[r].kind /\ b.total = draft[r].total
        /\ b.old = draft[r].old /\ b.gap = draft[r].gap /\ b.committed = rows
    BY <1>1, <1>2 DEF Body
  <1>4. /\ Returned(r, b, s) /\ UNCHANGED <<failed, faults>>
        /\ stage[r] = "second" /\ key = k
    BY <1>2 DEF Computed, At
  <1>5. Ready(r, draft[r], "second", r \in failed, real[r])
    BY <1>4, BeforeCall DEF Busy
  <1>6. ASSUME NEW q \in Nat
        PROVE  Ready(r, b, s, r \in failed', q)
    BY <1>1, <1>3, <1>4, <1>5 DEF Ready
  <1> QED BY <1>3, <1>4, <1>6, ReturnedStep DEF Busy

\* A call to the chain that may leave a hole.
LEMMA BestEffortStep ==
  ASSUME Inv, NEW r \in Handler, stage[r] \in {"second", "third"},
         key \notin LagKey, key = "totals" => stage[r] = "third",
         key # "drips", BestEffort(r, "put")
  PROVE  Inv'
  <1>1. /\ up \in BOOLEAN /\ floor[r] \in Nat /\ draft[r] \in Body
        /\ (~up => r \in dark)
    BY BeforeCall
  <1>2. PICK g \in BOOLEAN : g = ~up
    BY <1>1
  <1>3. PICK b : b = [draft[r] EXCEPT !.gap = g]
    OBVIOUS
  <1>4. /\ b \in Body /\ b.kind = draft[r].kind /\ b.total = draft[r].total
        /\ b.old = draft[r].old /\ b.committed = draft[r].committed
        /\ b.gap = g
    BY <1>1, <1>3 DEF Body
  <1>5. Returned(r, b, "put") /\ UNCHANGED <<failed, faults>>
    BY <1>2, <1>3 DEF BestEffort, Computed
  <1>6. Ready(r, draft[r], stage[r], r \in failed, real[r])
    BY BeforeCall DEF Busy
  <1>7. b.gap => r \in dark
    BY <1>1, <1>2, <1>4
  <1>8. draft[r].total \in Nat /\ draft[r].committed \in Nat
    BY BeforeCall
  <1>9. b.kind = "data" /\ b.old = 0
    BY <1>4, <1>6 DEF Ready
  <1>10. ~b.gap => b.total >= floor[r]
    BY <1>4, <1>6, <1>9 DEF Ready, LagKey
  <1>11. ASSUME NEW q \in Nat
         PROVE  Ready(r, b, "put", r \in failed', q)
    BY <1>4, <1>6, <1>7, <1>9, <1>10 DEF Ready, LagKey
  <1> QED BY <1>4, <1>5, <1>11, ReturnedStep DEF Busy

\* A query that answers one of a few fixed bodies.
LEMMA PlainStep ==
  ASSUME Inv, NEW r \in Handler,
         NEW k \in {"estimate", "unknown", "error", "missing"},
         stage[r] \notin {"idle", "found"}, Returned(r, Plain(k), "put"),
         \/ UNCHANGED <<failed, faults>>
         \/ failed' = failed \cup {r} /\ Fault,
         k = "estimate" => key = "finality",
         k = "unknown" => key = "cluster" /\ r \in dark,
         k = "error" =>
           r \in failed' \/ (key = "eta" /\ floor[r] = 0) \/ key \in BadWindow,
         key \in BadWindow => k = "error",
         k = "missing" => floor[r] = 0
  PROVE  Inv'
  <1>1. /\ Plain(k) \in Body /\ Plain(k).kind = k /\ Plain(k).old = 0
        /\ ~Plain(k).gap
    BY PlainFacts
  <1>2. ASSUME NEW q \in Nat
        PROVE  Ready(r, Plain(k), "put", r \in failed', q)
    BY <1>1 DEF Ready
  <1> QED BY <1>1, <1>2, ReturnedStep DEF Busy

\* A record, or 404.
LEMMA RecordStep ==
  ASSUME Inv, NEW r \in Handler, NEW k \in RecordKey, RecordOr404(r, k)
  PROVE  Inv'
  <1>1. rows \in Nat /\ floor[r] \in Nat /\ floor[r] <= rows
    BY BeforeCall
  <1>2. CASE rows = 0
    BY <1>1, <1>2, PlainStep
    DEF RecordOr404, At, Computed, RecordKey, BadWindow
  <1>3. CASE rows # 0
    BY <1>3, OnceStep
    DEF RecordOr404, RecordKey, CacheKey, StatsKey, LagKey, BadWindow, Busy
  <1> QED BY <1>2, <1>3

\* next_block_eta: the head, then the slots.
LEMMA EtaStep ==
  ASSUME Inv, NEW r \in Handler, EtaHead(r) \/ EtaSlots(r)
  PROVE  Inv'
  <1>1. /\ rows \in Nat /\ head \in Nat /\ rows <= head /\ up \in BOOLEAN
        /\ floor[r] \in Nat /\ floor[r] <= rows
        /\ draft[r] \in Body /\ draft[r].committed \in Nat
    BY BeforeCall
  <1>2. CASE EtaHead(r)
    <2>1. PICK g \in BOOLEAN : g = ~up
      BY <1>1
    <2>2. PICK b : b = [Plain("data") EXCEPT !.committed = head, !.gap = g]
      OBVIOUS
    <2>3. /\ b \in Body /\ b.kind = "data" /\ b.old = 0 /\ b.committed = head
          /\ b.gap = g
      BY <1>1, <2>2 DEF Plain, NoBody, Body
    <2>4. /\ Returned(r, b, "second") /\ UNCHANGED <<failed, faults>>
          /\ stage[r] = "first" /\ key = "eta"
      BY <1>2, <2>1, <2>2 DEF EtaHead, Computed, At
    <2>5. b.gap => r \in dark
      BY <2>1, <2>3, <2>4, BeforeCall
    <2>6. ASSUME NEW q \in Nat
          PROVE  Ready(r, b, "second", r \in failed', q)
      BY <1>1, <2>3, <2>4, <2>5 DEF Ready, LagKey, BadWindow
    <2> QED BY <2>3, <2>4, <2>6, ReturnedStep DEF Busy
  <1>3. CASE EtaSlots(r) /\ rows = 0
    BY <1>1, <1>3, PlainStep DEF EtaSlots, At, Computed
  <1>4. CASE EtaSlots(r) /\ rows # 0
    <2>0. PICK mean \in BOOLEAN :
            Computed(r, [draft[r] EXCEPT !.total = rows,
                           !.lag = IF draft[r].gap \/ ~mean THEN 0
                                   ELSE Lag(draft[r].committed, rows)], "put")
      BY <1>4 DEF EtaSlots
    <2>1. PICK n : n = IF draft[r].gap \/ ~mean THEN 0
                       ELSE Lag(draft[r].committed, rows)
      OBVIOUS
    <2>2. PICK b : b = [draft[r] EXCEPT !.total = rows, !.lag = n]
      OBVIOUS
    <2>3. /\ Returned(r, b, "put") /\ UNCHANGED <<failed, faults>>
          /\ stage[r] = "second" /\ key = "eta"
      BY <1>4, <2>0, <2>1, <2>2 DEF EtaSlots, Computed, At
    <2>4. Ready(r, draft[r], "second", r \in failed, real[r])
      BY <2>3, BeforeCall DEF Busy
    <2>5. n \in Nat /\ n <= head - rows
      BY <1>1, <2>1, <2>3, <2>4 DEF Lag, Ready
    <2>6. /\ b \in Body /\ b.kind = draft[r].kind /\ b.old = draft[r].old
          /\ b.gap = draft[r].gap /\ b.total = rows /\ b.lag = n
      BY <1>1, <2>2, <2>5 DEF Body
    <2>7. ASSUME NEW q \in Nat, key \in LagKey => q = head - rows
          PROVE  Ready(r, b, "put", r \in failed', q)
      <3>1. q = head - rows
        BY <2>3, <2>7 DEF LagKey
      <3> QED BY <1>1, <2>3, <2>4, <2>5, <2>6, <3>1 DEF Ready
    <2> QED BY <2>3, <2>6, <2>7, ReturnedStep DEF Busy
  <1> QED BY <1>2, <1>3, <1>4

\* info: the indexer's height, then the chain's.
LEMMA InfoStep ==
  ASSUME Inv, NEW r \in Handler, InfoHeight(r) \/ InfoChain(r)
  PROVE  Inv'
  <1>1. /\ rows \in Nat /\ head \in Nat /\ rows <= head /\ up \in BOOLEAN
        /\ floor[r] \in Nat /\ floor[r] <= rows
        /\ draft[r] \in Body /\ draft[r].total \in Nat
    BY BeforeCall
  <1>2. CASE At(r, "info", "first") /\ Computed(r, Data(rows), "second")
    <2>1. /\ Returned(r, Data(rows), "second") /\ UNCHANGED <<failed, faults>>
          /\ stage[r] = "first" /\ key = "info"
      BY <1>2 DEF Computed, At
    <2>2. ASSUME NEW q \in Nat
          PROVE  Ready(r, Data(rows), "second", r \in failed', q)
      BY <1>1, <2>1, DataFacts DEF Ready, LagKey, BadWindow
    <2> QED BY <1>1, <2>1, <2>2, DataFacts, ReturnedStep DEF Busy
  <1>3. CASE /\ At(r, "info", "first")
             /\ QueryFailed(r, [Plain("data") EXCEPT !.gap = TRUE], "second")
    <2>1. PICK b : b = [Plain("data") EXCEPT !.gap = TRUE]
      OBVIOUS
    <2>2. b \in Body /\ b.kind = "data" /\ b.old = 0 /\ b.gap
      BY <2>1 DEF Plain, NoBody, Body
    <2>3. /\ Returned(r, b, "second") /\ failed' = failed \cup {r} /\ Fault
          /\ stage[r] = "first" /\ key = "info"
      BY <1>3, <2>1 DEF QueryFailed, At
    <2>4. ASSUME NEW q \in Nat
          PROVE  Ready(r, b, "second", r \in failed', q)
      BY <2>2, <2>3 DEF Ready, LagKey, BadWindow
    <2> QED BY <2>2, <2>3, <2>4, ReturnedStep DEF Busy
  <1>4. CASE InfoChain(r)
    <2>1. /\ stage[r] = "second" /\ key = "info"
          /\ UNCHANGED <<failed, faults>>
      BY <1>4 DEF InfoChain, Computed, At
    <2>2. Ready(r, draft[r], "second", r \in failed, real[r])
      BY <2>1, BeforeCall DEF Busy
    <2>3. CASE draft[r].gap \/ ~up
      <3>1. PICK b : b = [draft[r] EXCEPT !.gap = TRUE]
        OBVIOUS
      <3>2. /\ b \in Body /\ b.kind = draft[r].kind /\ b.old = draft[r].old
            /\ b.gap
        BY <1>1, <3>1 DEF Body
      <3>3. Returned(r, b, "put")
        BY <1>4, <2>3, <3>1 DEF InfoChain, Computed
      <3>4. r \in dark \/ r \in failed
        BY <2>1, <2>2, <2>3, BeforeCall DEF Ready
      <3>5. b.kind = "data" /\ b.old = 0
        BY <2>2, <3>2 DEF Ready
      <3>6. ASSUME NEW q \in Nat
            PROVE  Ready(r, b, "put", r \in failed', q)
        BY <2>1, <3>2, <3>4, <3>5 DEF Ready, BadWindow
      <3> QED BY <2>1, <3>2, <3>3, <3>6, ReturnedStep DEF Busy
    <2>4. CASE ~(draft[r].gap \/ ~up)
      <3>1. PICK n : n = IF draft[r].total = 0 THEN 0
                         ELSE Lag(head, draft[r].total)
        OBVIOUS
      <3>2. PICK b : b = [draft[r] EXCEPT !.lag = n]
        OBVIOUS
      <3>3. Returned(r, b, "put")
        BY <1>4, <2>4, <3>1, <3>2 DEF InfoChain, Computed
      <3>4. draft[r].total <= rows /\ draft[r].total >= floor[r]
        BY <2>1, <2>2, <2>4 DEF Ready
      <3>5. n \in Nat /\ (draft[r].total > 0 => n >= head - rows)
        BY <1>1, <3>1, <3>4 DEF Lag
      <3>6. /\ b \in Body /\ b.kind = draft[r].kind /\ b.old = draft[r].old
            /\ b.gap = draft[r].gap /\ b.total = draft[r].total /\ b.lag = n
        BY <1>1, <3>2, <3>5 DEF Body
      <3>7. ASSUME NEW q \in Nat, key \in LagKey => q = head - rows
            PROVE  Ready(r, b, "put", r \in failed', q)
        <4>1. q = head - rows
          BY <2>1, <3>7 DEF LagKey
        <4> QED BY <1>1, <2>1, <2>2, <2>4, <3>4, <3>5, <3>6, <4>1 DEF Ready
      <3> QED BY <2>1, <3>3, <3>6, <3>7, ReturnedStep DEF Busy
    <2> QED BY <2>3, <2>4
  <1> QED BY <1>2, <1>3, <1>4 DEF InfoHeight

-----------------------------------------------------------------------------
(***************************************************************************)
(* Steps that answer a client.                                             *)
(***************************************************************************)

\* How old `b` may be when a client gets it.
BoundOf(b) == IF b.kind = "unknown" THEN Window(UnknownAge)
              ELSE Window(TTL[key]) + Window(MaxAge[key])

\* How old `b` may be when it leaves the process.
InsideBound(b) == IF b.kind = "unknown" THEN 0 ELSE Window(TTL[key])

\* What the properties ask of an answer.
Right(b, outside, f, d, x, hit) ==
  /\ b.kind \in {"data", "estimate", "unknown"} =>
       b.old <= BoundOf(b) /\ Sound(b)
  /\ b.kind = "unknown" /\ ~outside => d
  /\ b.kind = "error" => x \/ (key = "eta" /\ f = 0) \/ key \in BadWindow
  /\ key \in BadWindow => b.kind \in {"none", "error"}
  /\ b.kind \in {"missing", "nomatch"} => f = 0
  /\ b.gap => b.hurt
  /\ hit => b.kind \in {"data", "error"}

\* A right answer has the four properties.
LEMMA DeliverAnswers ==
  ASSUME NEW r \in Handler, NEW b, NEW o, NEW f, NEW d, NEW x,
         Deliver(r, b, o, f, d, x), key' = key,
         Right(b, o, f, d, x, r \in found)
  PROVE  AnswerInv'
  <1>1. /\ answer'.body = b /\ (answer'.edged <=> o) /\ answer'.floor = f
        /\ (answer'.found <=> r \in found) /\ (answer'.dark <=> d)
        /\ (answer'.failed <=> x)
    BY DEF Deliver
  <1>2. AnswersRecent'
    BY <1>1 DEF AnswersRecent, Told, Slack, Right, Sound, BoundOf, Window
  <1>3. OutageNotSticky' /\ FailuresExplained' /\ HitResolves'
    BY <1>1 DEF OutageNotSticky, FailuresExplained, HitResolves, Told, Right
  <1> QED BY <1>2, <1>3 DEF AnswerInv

\* An answer has its type.
LEMMA DeliverTypes ==
  ASSUME TypeOK, NEW r \in Handler, NEW b \in Body, NEW o \in BOOLEAN,
         NEW f \in Nat, NEW d \in BOOLEAN, NEW x \in BOOLEAN,
         Deliver(r, b, o, f, d, x), UNCHANGED <<key, rows, head, up>>,
         cache' \in Entry, edge' \in Entry, faults' \in 0..MaxFaults
  PROVE  TypeOK'
  <1>1. answer' \in Answers
    <2>0. (r \in found) \in BOOLEAN
      OBVIOUS
    <2>1. PICK h \in BOOLEAN : h = (r \in found)
      BY <2>0, Zenon
    <2>2. answer' = [body |-> b, edged |-> o, found |-> h, floor |-> f,
                     dark |-> d, failed |-> x]
      BY <2>1 DEF Deliver
    <2> QED BY <2>2 DEF Answers
  <1>2. stage' \in [Handler -> {"idle", "found", "first", "second", "third",
                               "put"}]
    BY DEF Deliver, TypeOK
  <1>3. draft' \in [Handler -> Body]
    BY NoAnswerFacts DEF Deliver, TypeOK
  <1>4. floor' \in [Handler -> Nat] /\ real' \in [Handler -> Nat]
    BY DEF Deliver, TypeOK
  <1>5. /\ found' \subseteq Handler /\ dark' \subseteq Handler
        /\ failed' \subseteq Handler
    BY DEF Deliver, TypeOK
  <1> QED BY <1>1, <1>2, <1>3, <1>4, <1>5 DEF TypeOK, Answers

\* What a cache outside may take.
LEMMA KeepFacts ==
  ASSUME TypeOK, EdgeInv, NEW b \in Body, KeepOutside(b), key' = key,
         MaxAgeOf(b) > 0 => Sound(b) /\ b.old <= InsideBound(b)
  PROVE  edge' \in Entry /\ EdgeInv'
  <1>1. CASE UNCHANGED edge
    BY <1>1 DEF TypeOK, EdgeInv, Sound, MaxAgeOf, Window
  <1>2. CASE /\ MaxAgeOf(b) > 0
             /\ edge' = [age |-> 0, life |-> MaxAgeOf(b), body |-> b]
    <2>1. MaxAgeOf(b) \in Nat
      BY CacheAssumption DEF TypeOK, MaxAgeOf
    <2>2. edge'.age = 0 /\ edge'.life = MaxAgeOf(b) /\ edge'.body = b
      BY <1>2
    <2>3. edge' \in Entry
      BY <1>2, <2>1 DEF Entry
    <2>4. Sound(edge.body)' /\ MaxAgeOf(edge.body)' = MaxAgeOf(b)
      BY <1>2, <2>2 DEF Sound, MaxAgeOf
    <2>5. b.old <= 0 + (IF b.kind = "unknown" THEN 0 ELSE Window(TTL[key]))
      <3>1. Window(TTL[key]) \in Int
        BY CacheAssumption DEF TypeOK, Window
      <3> HIDE DEF Window
      <3> QED BY <1>2, <3>1 DEF InsideBound, Body
    <2> HIDE DEF Window
    <2>6. (Window(TTL[key]))' = Window(TTL[key])
      BY DEF Window
    <2> QED BY <2>2, <2>3, <2>4, <2>5, <2>6 DEF EdgeInv
  <1> QED BY <1>1, <1>2 DEF KeepOutside

\* A client can wait out both windows, but no more.
LEMMA Bounds ==
  ASSUME TypeOK, NEW b \in Body
  PROVE  /\ Window(TTL[key]) \in Nat /\ Window(MaxAge[key]) \in Nat
         /\ Window(UnknownAge) \in Nat
         /\ InsideBound(b) <= BoundOf(b)
         /\ \A n \in Nat : n < TTL[key] => n <= Window(TTL[key])
         /\ b.kind \in {"data", "estimate", "unknown"} =>
              \A n \in Nat :
                n < MaxAgeOf(b) => n + InsideBound(b) <= BoundOf(b)
  <1>1. TTL[key] \in Nat /\ MaxAge[key] \in Nat /\ UnknownAge \in Nat
    BY CacheAssumption DEF TypeOK
  <1> QED BY <1>1 DEF Window, InsideBound, BoundOf, MaxAgeOf

\* The outer window has begun when the inner one was used up at most.
LEMMA EdgeHitStep ==
  ASSUME Inv, NEW r \in Handler, EdgeHit(r)
  PROVE  Inv'
  <1>1. TypeOK /\ CacheInv /\ EdgeInv /\ HandlerInv(r)
    BY DEF Inv
  <1>2. /\ Deliver(r, edge.body, TRUE, rows, FALSE, FALSE)
        /\ UNCHANGED <<key, rows, head, up, faults, cache, edge>>
        /\ edge # NoEntry /\ edge.age < edge.life
    BY DEF EdgeHit, world
  <1>3. PICK b : b = edge.body
    OBVIOUS
  <1>4. b \in Body /\ edge.age \in Nat /\ b.old \in Nat
    BY <1>1, <1>3 DEF TypeOK, Entry, Body
  <1>5. /\ Sound(b) /\ edge.age < MaxAgeOf(b)
        /\ b.old <= edge.age + InsideBound(b)
    BY <1>1, <1>2, <1>3 DEF EdgeInv, InsideBound
  <1>6. b.old <= BoundOf(b)
    <2>1. b.kind \in {"data", "estimate", "unknown"}
      BY <1>5 DEF Sound
    <2>2. edge.age + InsideBound(b) <= BoundOf(b)
      BY <1>1, <1>4, <1>5, <2>1, Bounds
    <2>3. InsideBound(b) \in Nat /\ BoundOf(b) \in Nat
      BY <1>1, <1>4, Bounds DEF InsideBound, BoundOf
    <2> HIDE DEF InsideBound, BoundOf
    <2> QED BY <1>4, <1>5, <2>2, <2>3
  <1>7. Right(b, TRUE, rows, FALSE, FALSE, r \in found)
    BY <1>1, <1>5, <1>6 DEF Right, Sound, HandlerInv, SearchKey
  <1>8. TypeOK'
    <2>1. /\ rows \in Nat /\ cache' \in Entry /\ edge' \in Entry
          /\ faults' \in 0..MaxFaults
      BY <1>1, <1>2 DEF TypeOK
    <2> QED BY <1>1, <1>2, <1>3, <1>4, <2>1, DeliverTypes
  <1>9. AnswerInv'
    BY <1>2, <1>3, <1>7, DeliverAnswers
  <1>10. \A h \in Handler : HandlerInv(h)'
    BY <1>2, DeliverHandlers
  <1>11. CacheInv' /\ EdgeInv'
    BY <1>1, <1>2, CachesKept
  <1> QED BY <1>8, <1>9, <1>10, <1>11 DEF Inv

\* An entry is handed out within its own window.
LEMMA CacheHitStep ==
  ASSUME Inv, NEW r \in Handler, CacheHit(r)
  PROVE  Inv'
  <1>1. TypeOK /\ CacheInv /\ EdgeInv /\ HandlerInv(r)
    BY DEF Inv
  <1>2. PICK d \in BOOLEAN : d = ~up
    BY <1>1 DEF TypeOK
  <1>3. PICK b : b = cache.body
    OBVIOUS
  <1>4. /\ Deliver(r, b, FALSE, rows, d, FALSE) /\ KeepOutside(b)
        /\ UNCHANGED <<key, rows, head, up, faults, cache>>
        /\ cache # NoEntry /\ cache.age < TTL[key]
    BY <1>2, <1>3 DEF CacheHit, world, Fresh
  <1>5. b \in Body /\ cache.age \in Nat
    BY <1>1, <1>3 DEF TypeOK, Entry
  <1>6. Sound(b) /\ b.kind # "unknown" /\ b.old = cache.age
    BY <1>1, <1>3, <1>4 DEF CacheInv
  <1>7. b.old <= InsideBound(b)
    BY <1>1, <1>4, <1>5, <1>6, Bounds DEF InsideBound
  <1>8. b.old <= BoundOf(b)
    <2>1. /\ InsideBound(b) <= BoundOf(b) /\ InsideBound(b) \in Nat
          /\ BoundOf(b) \in Nat
      BY <1>1, <1>5, Bounds DEF InsideBound, BoundOf
    <2> HIDE DEF InsideBound, BoundOf
    <2> QED BY <1>5, <1>6, <1>7, <2>1
  <1>9. Right(b, FALSE, rows, d, FALSE, r \in found)
    BY <1>1, <1>6, <1>8 DEF Right, Sound, HandlerInv, SearchKey
  <1>10. edge' \in Entry /\ EdgeInv'
    BY <1>1, <1>4, <1>5, <1>6, <1>7, KeepFacts
  <1>11. TypeOK'
    <2>1. rows \in Nat /\ cache' \in Entry /\ faults' \in 0..MaxFaults
      BY <1>1, <1>4 DEF TypeOK
    <2> QED BY <1>1, <1>4, <1>5, <1>10, <2>1, DeliverTypes
  <1>12. AnswerInv'
    BY <1>4, <1>9, DeliverAnswers
  <1>13. \A h \in Handler : HandlerInv(h)'
    BY <1>4, DeliverHandlers
  <1>14. CacheInv'
    BY <1>1, <1>4 DEF CacheInv, Sound
  <1> QED BY <1>10, <1>11, <1>12, <1>13, <1>14 DEF Inv

\* A computed answer is put and sent.
LEMMA StoreStep ==
  ASSUME Inv, NEW r \in Handler, Store(r)
  PROVE  Inv'
  <1>1. TypeOK /\ CacheInv /\ EdgeInv /\ HandlerInv(r)
    BY DEF Inv
  <1>2. PICK h \in BOOLEAN : h = (r \in dark \cup failed)
    <2>1. (r \in dark \cup failed) \in BOOLEAN
      OBVIOUS
    <2> QED BY <2>1, Zenon
  <1>3. PICK d \in BOOLEAN : d = (r \in dark)
    <2>1. (r \in dark) \in BOOLEAN
      OBVIOUS
    <2> QED BY <2>1, Zenon
  <1>4. PICK x \in BOOLEAN : x = (r \in failed)
    <2>1. (r \in failed) \in BOOLEAN
      OBVIOUS
    <2> QED BY <2>1, Zenon
  <1>5. PICK b : b = [draft[r] EXCEPT !.since = floor[r], !.hurt = h]
    OBVIOUS
  <1>6. /\ stage[r] = "put" /\ KeepOutside(b)
        /\ IF Cacheable(b) THEN Put(b) ELSE UNCHANGED cache
        /\ Deliver(r, b, FALSE, floor[r], d, x)
        /\ UNCHANGED <<key, rows, head, up, faults>>
    BY <1>2, <1>3, <1>4, <1>5, Zenon DEF Store, world
  <1>7. draft[r] \in Body /\ floor[r] \in Nat /\ draft[r].total \in Nat
          /\ draft[r].committed \in Nat
    BY BeforeCall
  <1>8. /\ b \in Body /\ b.kind = draft[r].kind /\ b.total = draft[r].total
        /\ b.committed = draft[r].committed /\ b.old = draft[r].old
        /\ b.gap = draft[r].gap /\ b.since = floor[r] /\ b.hurt = h
    BY <1>5, <1>7 DEF Body
  <1>9. Ready(r, draft[r], "put", r \in failed, real[r])
    BY <1>1, <1>6 DEF HandlerInv, Busy
  <1>10. b.gap => b.hurt
    BY <1>2, <1>8, <1>9 DEF Ready
  <1>11. b.kind \in {"data", "estimate", "unknown", "error", "missing"}
           /\ b.old = 0
    BY <1>8, <1>9 DEF Ready
  <1>12. b.kind \in {"data", "estimate", "unknown"} => Sound(b)
    BY <1>8, <1>9, <1>10 DEF Ready, Sound
  <1>13. InsideBound(b) \in Nat /\ BoundOf(b) \in Nat
    BY <1>1, <1>8, Bounds DEF InsideBound, BoundOf
  <1>14. Right(b, FALSE, floor[r], d, x, r \in found)
    <2>1. b.kind = "unknown" => d
      BY <1>3, <1>8, <1>9 DEF Ready
    <2>2. b.kind = "error" => x \/ (key = "eta" /\ floor[r] = 0)
                               \/ key \in BadWindow
      BY <1>4, <1>8, <1>9 DEF Ready
    <2>3. b.kind = "missing" => floor[r] = 0
      BY <1>8, <1>9 DEF Ready
    <2>4. r \in found => b.kind \in {"data", "error"}
      <3>1. r \in found => floor[r] > 0 /\ key \in SearchKey
        BY <1>1, <1>6 DEF HandlerInv
      <3> QED BY <1>7, <1>8, <1>9, <1>11, <3>1 DEF Ready, SearchKey
    <2>5. b.old <= BoundOf(b)
      BY <1>11, <1>13
    <2>6. key \in BadWindow => b.kind = "error"
      BY <1>8, <1>9 DEF Ready
    <2> HIDE DEF Sound, BoundOf
    <2> QED BY <1>10, <1>11, <1>12, <2>1, <2>2, <2>3, <2>4, <2>5, <2>6
            DEF Right
  <1>15. edge' \in Entry /\ EdgeInv'
    <2>1. MaxAgeOf(b) > 0 => b.kind \in {"data", "estimate", "unknown"}
      BY <1>11 DEF MaxAgeOf
    <2>2. b.old <= InsideBound(b)
      BY <1>11, <1>13
    <2> HIDE DEF Sound, InsideBound, MaxAgeOf
    <2> QED BY <1>1, <1>6, <1>8, <1>12, <2>1, <2>2, KeepFacts
  <1>16. cache' \in Entry /\ CacheInv'
    <2>1. CASE Cacheable(b)
      <3>1. cache' = [age |-> 0, life |-> TTL[key], body |-> b]
        BY <1>6, <2>1 DEF Put
      <3>2. TTL[key] \in Nat
        BY <1>1, CacheAssumption DEF TypeOK
      <3>3. cache' \in Entry
        BY <1>8, <3>1, <3>2 DEF Entry
      <3>4. cache'.body = b /\ cache'.age = 0
        BY <3>1
      <3>5. Sound(b) /\ b.kind # "unknown"
        BY <1>12, <2>1 DEF Cacheable
      <3>6. Sound(cache.body)'
        BY <1>6, <3>4, <3>5 DEF Sound
      <3> QED BY <1>11, <3>3, <3>4, <3>5, <3>6 DEF CacheInv
    <2>2. CASE ~Cacheable(b)
      BY <1>1, <1>6, <2>2 DEF TypeOK, CacheInv, Sound
    <2> QED BY <2>1, <2>2
  <1>17. TypeOK'
    <2>1. faults' \in 0..MaxFaults
      BY <1>1, <1>6 DEF TypeOK
    <2> QED BY <1>1, <1>6, <1>7, <1>8, <1>15, <1>16, <2>1, DeliverTypes
  <1>18. AnswerInv'
    BY <1>6, <1>14, DeliverAnswers
  <1>19. \A q \in Handler : HandlerInv(q)'
    BY <1>6, DeliverHandlers
  <1> QED BY <1>15, <1>16, <1>17, <1>18, <1>19 DEF Inv

\* Search answers without a record.
LEMMA SearchStep ==
  ASSUME Inv, NEW r \in Handler, SearchMiss(r) \/ SearchFails(r)
  PROVE  Inv'
  <1>1. TypeOK /\ CacheInv /\ EdgeInv /\ HandlerInv(r)
    BY DEF Inv
  <1>2. PICK k \in {"nomatch", "error"}, x \in BOOLEAN :
          /\ Deliver(r, Plain(k), FALSE, rows, FALSE, x)
          /\ KeepOutside(Plain(k)) /\ key \in SearchKey
          /\ k = "nomatch" => rows = 0
          /\ k = "error" => x
    <2>1. CASE SearchMiss(r)
      <3>1. rows = 0
        BY <1>1, <2>1 DEF SearchMiss, Exists, TypeOK
      <3> QED BY <2>1, <3>1 DEF SearchMiss
    <2>2. CASE SearchFails(r)
      BY <2>2 DEF SearchFails
    <2> QED BY <2>1, <2>2
  <1>3. /\ stage[r] = "idle" /\ UNCHANGED <<key, rows, head, up, cache>>
        /\ faults' \in 0..MaxFaults
    <2>1. stage[r] = "idle" /\ UNCHANGED <<key, rows, head, up, cache>>
      BY DEF SearchMiss, SearchFails, world
    <2>2. UNCHANGED faults \/ Fault
      BY DEF SearchMiss, SearchFails, world
    <2>3. faults' \in 0..MaxFaults
      BY <1>1, <2>2, CacheAssumption DEF Fault, TypeOK
    <2> QED BY <2>1, <2>3
  <1>4. /\ Plain(k) \in Body /\ Plain(k).kind = k /\ ~Plain(k).gap
    BY PlainFacts
  <1>5. r \notin found
    BY <1>1, <1>3 DEF HandlerInv
  <1>6. Right(Plain(k), FALSE, rows, FALSE, x, r \in found)
    BY <1>2, <1>4, <1>5 DEF Right, SearchKey, BadWindow
  <1>7. edge' \in Entry /\ EdgeInv'
    <2>1. ~(MaxAgeOf(Plain(k)) > 0)
      BY <1>4 DEF MaxAgeOf
    <2> QED BY <1>1, <1>2, <1>3, <1>4, <2>1, KeepFacts
  <1>8. TypeOK'
    <2>1. rows \in Nat /\ cache' \in Entry
      BY <1>1, <1>3 DEF TypeOK
    <2> QED BY <1>1, <1>2, <1>3, <1>4, <1>7, <2>1, DeliverTypes
  <1>9. AnswerInv'
    BY <1>2, <1>3, <1>6, DeliverAnswers
  <1>10. \A h \in Handler : HandlerInv(h)'
    BY <1>2, <1>3, DeliverHandlers
  <1>11. CacheInv'
    BY <1>1, <1>3 DEF CacheInv, Sound
  <1> QED BY <1>7, <1>8, <1>9, <1>10, <1>11 DEF Inv

\* A window that cannot be used: 500, or nothing at all.
LEMMA WindowStep ==
  ASSUME Inv, NEW r \in Handler, WindowMalformed(r) \/ WindowPanics(r)
  PROVE  Inv'
  <1>1. TypeOK /\ CacheInv /\ EdgeInv /\ HandlerInv(r)
    BY DEF Inv
  <1>2. PICK k \in {"none", "error"}, f \in Nat, d \in BOOLEAN :
          /\ Deliver(r, Plain(k), FALSE, f, d, FALSE)
          /\ UNCHANGED edge \/ (k = "error" /\ KeepOutside(Plain(k)))
    <2>1. CASE WindowMalformed(r)
      <3>1. rows \in Nat /\ (~up) \in BOOLEAN
        BY <1>1 DEF TypeOK
      <3> QED BY <2>1, <3>1 DEF WindowMalformed
    <2>2. CASE WindowPanics(r)
      <3>1. floor[r] \in Nat /\ (r \in dark) \in BOOLEAN
        BY <1>1 DEF TypeOK
      <3>2. NoBody = Plain("none")
        BY DEF Plain, NoBody
      <3> QED BY <2>2, <3>1, <3>2 DEF WindowPanics
    <2> QED BY <2>1, <2>2
  <1>3. key \in BadWindow /\ UNCHANGED <<key, rows, head, up, faults, cache>>
    BY DEF WindowMalformed, WindowPanics, At, BadWindow, world
  <1>4. /\ Plain(k) \in Body /\ Plain(k).kind = k /\ ~Plain(k).gap
    BY PlainFacts
  <1>5. r \notin found
    BY <1>1, <1>3 DEF HandlerInv, BadWindow, SearchKey
  <1>6. Right(Plain(k), FALSE, f, d, FALSE, r \in found)
    BY <1>3, <1>4, <1>5 DEF Right
  <1>7. edge' \in Entry /\ EdgeInv'
    <2>1. CASE UNCHANGED edge
      BY <1>1, <1>3, <2>1, CachesKept DEF TypeOK
    <2>2. CASE k = "error" /\ KeepOutside(Plain(k))
      <3>1. ~(MaxAgeOf(Plain(k)) > 0)
        BY <1>4, <2>2 DEF MaxAgeOf
      <3> QED BY <1>1, <1>3, <1>4, <2>2, <3>1, KeepFacts
    <2> QED BY <1>2, <2>1, <2>2
  <1>8. TypeOK'
    <2>1. cache' \in Entry /\ faults' \in 0..MaxFaults
      BY <1>1, <1>3 DEF TypeOK
    <2> QED BY <1>1, <1>2, <1>3, <1>4, <1>7, <2>1, DeliverTypes
  <1>9. AnswerInv'
    BY <1>2, <1>3, <1>6, DeliverAnswers
  <1>10. \A h \in Handler : HandlerInv(h)'
    BY <1>2, <1>3, DeliverHandlers
  <1>11. CacheInv'
    BY <1>1, <1>3 DEF CacheInv, Sound
  <1> QED BY <1>7, <1>8, <1>9, <1>10, <1>11 DEF Inv

\* A handler takes up a request, or a client gets a hit to follow.
LEMMA TakeStep ==
  ASSUME Inv, NEW r \in Handler, CacheMiss(r) \/ SearchHit(r)
  PROVE  Inv'
  <1>1. TypeOK /\ CacheInv /\ EdgeInv
    BY DEF Inv
  <1>2. /\ UNCHANGED <<key, rows, head, up, faults, draft, cache, edge, real,
                       failed>>
        /\ Silent /\ stage[r] \in {"idle", "found"}
        /\ \E s \in {"first", "found"} : stage' = [stage EXCEPT ![r] = s]
    BY DEF CacheMiss, SearchHit, world
  <1>3. /\ found \subseteq found' /\ found' \subseteq found \cup {r}
        /\ dark \subseteq dark' /\ dark' \subseteq dark \cup {r}
        /\ (UNCHANGED floor \/ floor' = [floor EXCEPT ![r] = rows])
    BY DEF CacheMiss, SearchHit
  <1>4. TypeOK'
    <2>1. answer' \in Answers
      BY <1>2, NoAnswerFacts DEF Silent
    <2>2. stage' \in [Handler -> {"idle", "found", "first", "second", "third",
                                 "put"}]
      BY <1>1, <1>2 DEF TypeOK
    <2>3. floor' \in [Handler -> Nat]
      BY <1>1, <1>3 DEF TypeOK
    <2>4. found' \subseteq Handler /\ dark' \subseteq Handler
      BY <1>1, <1>3 DEF TypeOK
    <2> QED BY <1>1, <1>2, <2>1, <2>2, <2>3, <2>4 DEF TypeOK, Answers
  <1>5. CacheInv' /\ EdgeInv'
    BY <1>1, <1>2, CachesKept
  <1>6. AnswerInv'
    BY <1>2, SilentAnswers
  <1>7. ASSUME NEW h \in Handler PROVE HandlerInv(h)'
    <2>1. HandlerInv(h)
      BY DEF Inv
    <2>2. CASE h # r
      <3>1. /\ stage'[h] = stage[h] /\ draft'[h] = draft[h]
            /\ floor'[h] = floor[h] /\ real'[h] = real[h]
            /\ (h \in found' <=> h \in found) /\ (h \in dark' <=> h \in dark)
        BY <1>1, <1>2, <1>3, <2>2 DEF TypeOK
      <3>2. rows' \in Nat /\ rows' >= rows /\ head' \in Nat /\ head' >= head
        BY <1>1, <1>2 DEF TypeOK
      <3>3. ~up' /\ h \in InHand => h \in dark'
        BY <1>2, <2>1, <3>1 DEF HandlerInv
      <3> QED BY <1>1, <1>2, <2>1, <3>1, <3>2, <3>3, HandlerKept
    <2>3. CASE h = r /\ CacheMiss(r)
      <3>1. stage'[r] = "first" /\ floor'[r] = rows /\ (~up => r \in dark')
        BY <1>1, <2>3 DEF CacheMiss, TypeOK
      <3>2. UNCHANGED found /\ rows \in Nat
        BY <1>1, <2>3 DEF CacheMiss, TypeOK
      <3> QED BY <1>2, <2>1, <2>3, <3>1, <3>2 DEF HandlerInv, Busy
    <2>4. CASE h = r /\ SearchHit(r)
      <3>1. /\ stage'[r] = "found" /\ UNCHANGED floor /\ rows > 0
            /\ key \in SearchKey
        BY <1>1, <2>4 DEF SearchHit, TypeOK, Exists
      <3> QED BY <1>2, <2>1, <2>4, <3>1 DEF HandlerInv, InHand, Busy
    <2> QED BY <2>2, <2>3, <2>4
  <1> QED BY <1>4, <1>5, <1>6, <1>7 DEF Inv

-----------------------------------------------------------------------------
(***************************************************************************)
(* All steps.                                                              *)
(***************************************************************************)

\* Every step of a handler keeps the invariant.
LEMMA HandlerStep ==
  ASSUME Inv, NEW r \in Handler, Step(r)
  PROVE  Inv'
  <1>1. CASE EdgeHit(r)
    BY <1>1, EdgeHitStep
  <1>2. CASE CacheHit(r)
    BY <1>2, CacheHitStep
  <1>3. CASE CacheMiss(r) \/ SearchHit(r)
    BY <1>3, TakeStep
  <1>4. CASE Store(r)
    BY <1>4, StoreStep
  <1>5. CASE SearchMiss(r) \/ SearchFails(r)
    BY <1>5, SearchStep
  <1>6. CASE TotalsCountAll(r) \/ DripsWeb(r)
    BY <1>6, HalfStep DEF TotalsCountAll, DripsWeb
  <1>7. CASE TotalsCountCommitted(r) \/ DripsBot(r)
    BY <1>7, OtherHalfStep DEF TotalsCountCommitted, DripsBot
  <1>8. CASE TotalsChain(r) \/ HoldersBalances(r) \/ AddressBalance(r)
    <2>1. /\ key \in {"totals", "holders", "address"} /\ BestEffort(r, "put")
          /\ stage[r] = IF key = "totals" THEN "third" ELSE "second"
      BY <1>8 DEF TotalsChain, HoldersBalances, AddressBalance, At
    <2> QED BY <2>1, BestEffortStep DEF LagKey
  <1>9. CASE \/ ActiveAddresses(r) \/ DailySeries(r) \/ Leaderboard(r)
             \/ BountiesMatching(r)
    BY <1>9, OnceStep
    DEF ActiveAddresses, DailySeries, Leaderboard, BountiesMatching,
        ComputeOnce, CacheKey, StatsKey, LagKey, BadWindow, Busy
  <1>10. CASE HoldersAddresses(r) \/ AddressRow(r)
    BY <1>10, OnceStep
    DEF HoldersAddresses, AddressRow, CacheKey, StatsKey, LagKey, BadWindow,
        Busy
  <1>11. CASE ObservedFinality(r)
    <2>1. CASE Computed(r, Data(rows), "put")
      BY <1>11, <2>1, OnceStep
      DEF ObservedFinality, CacheKey, StatsKey, LagKey, BadWindow, Busy
    <2>2. CASE Computed(r, Plain("estimate"), "put")
      BY <1>11, <2>2, PlainStep DEF ObservedFinality, At, Computed,
                                 BadWindow
    <2> QED BY <1>11, <2>1, <2>2 DEF ObservedFinality
  <1>12. CASE FinalityEstimate(r)
    BY <1>12, PlainStep DEF FinalityEstimate, At, QueryFailed, BadWindow
  <1>13. CASE EtaHead(r) \/ EtaSlots(r)
    BY <1>13, EtaStep
  <1>14. CASE InfoHeight(r) \/ InfoChain(r)
    BY <1>14, InfoStep
  <1>15. CASE FetchAndTransform(r)
    <2>1. CASE up
      BY <1>15, <2>1, OnceStep
      DEF FetchAndTransform, CacheKey, LagKey, BadWindow, Busy
    <2>2. CASE ~up
      <3>1. key = "cluster" /\ stage[r] = "first"
        BY <1>15 DEF FetchAndTransform, At
      <3>2. r \in dark
        BY <2>2, <3>1, BeforeCall
      <3> QED BY <1>15, <2>2, <3>1, <3>2, PlainStep
              DEF FetchAndTransform, Computed, BadWindow
    <2> QED BY <2>1, <2>2
  <1>16. CASE \/ BlockByHeight(r) \/ TxByHash(r) \/ SchemaById(r)
              \/ AttestorSetById(r) \/ AttestationById(r) \/ BountyDetail(r)
              \/ ContractDetail(r)
    BY <1>16, RecordStep
    DEF BlockByHeight, TxByHash, SchemaById, AttestorSetById, AttestationById,
        BountyDetail, ContractDetail, RecordKey
  <1>17. CASE ComputeFails(r)
    <2>1. /\ stage[r] \in {"first", "second"}
          /\ QueryFailed(r, Plain("error"), "put")
      BY <1>17 DEF ComputeFails
    <2> QED BY <2>1, PlainStep DEF QueryFailed
  <1>18. CASE WindowMalformed(r) \/ WindowPanics(r)
    BY <1>18, WindowStep
  <1>19. CASE WindowTooLong(r)
    BY <1>19, PlainStep DEF WindowTooLong, At, Computed, BadWindow
  <1> QED
    BY <1>1, <1>2, <1>3, <1>4, <1>5, <1>6, <1>7, <1>8, <1>9, <1>10, <1>11,
       <1>12, <1>13, <1>14, <1>15, <1>16, <1>17, <1>18, <1>19
    DEF Step

\* Initially no request is open and no cache holds anything.
LEMMA InitInv == Init => Inv
  <1> SUFFICES ASSUME Init PROVE Inv
    OBVIOUS
  <1>1. TypeOK
    <2>1. /\ head \in Nat /\ rows \in 0..head /\ key \in CacheKey
          /\ faults \in 0..MaxFaults
      BY CacheAssumption DEF Init
    <2>2. draft \in [Handler -> Body] /\ cache \in Entry /\ edge \in Entry
            /\ answer \in Answers
      BY NoAnswerFacts DEF Init
    <2> QED BY <2>1, <2>2 DEF Init, TypeOK, Answers
  <1>2. \A r \in Handler : HandlerInv(r)
    BY DEF Init, HandlerInv, Busy
  <1>3. CacheInv /\ EdgeInv
    BY DEF Init, CacheInv, EdgeInv
  <1>4. AnswerInv
    BY DEF Init, NoAnswer, NoBody, Told, AnswerInv, AnswersRecent,
           OutageNotSticky, FailuresExplained, HitResolves
  <1> QED BY <1>1, <1>2, <1>3, <1>4 DEF Inv

\* A step that changes nothing.
LEMMA StutterStep ==
  ASSUME Inv, UNCHANGED vars
  PROVE  Inv'
  <1>1. TypeOK'
    BY DEF Inv, TypeOK, vars
  <1>2. \A r \in Handler : HandlerInv(r)'
    BY DEF Inv, HandlerInv, Ready, InHand, vars
  <1>3. CacheInv' /\ EdgeInv'
    BY CachesKept DEF Inv, vars
  <1>4. AnswerInv'
    BY DEF Inv, AnswerInv, Told, Slack, AnswersRecent, OutageNotSticky,
           FailuresExplained, HitResolves, vars
  <1> QED BY <1>1, <1>2, <1>3, <1>4 DEF Inv

\* The invariant holds in every reachable state.
LEMMA Invariance == Spec => []Inv
  <1>1. Init => Inv
    BY InitInv
  <1>2. Inv /\ [Next]_vars => Inv'
    <2> SUFFICES ASSUME Inv, [Next]_vars
                 PROVE  Inv'
      OBVIOUS
    <2>1. CASE Tick
      BY <2>1, TickStep
    <2>2. CASE Produce \/ Record \/ GoDown \/ ComeBack
      BY <2>2, WorldStep
    <2>3. CASE \E r \in Handler : Step(r)
      BY <2>3, HandlerStep
    <2>4. CASE UNCHANGED vars
      BY <2>4, StutterStep
    <2> QED BY <2>1, <2>2, <2>3, <2>4 DEF Next
  <1> QED BY <1>1, <1>2, PTL DEF Spec

-----------------------------------------------------------------------------
(***************************************************************************)
(* Theorems.                                                               *)
(***************************************************************************)

\* The variables keep their types; in particular no more is recorded than the
\* chain has (Record, Produce).
THEOREM TypeCorrect == Spec => []TypeOK
  <1>1. Inv => TypeOK
    BY DEF Inv
  <1> QED BY <1>1, Invariance, PTL

\* Whatever the windows and however the handlers overlap, an answer was
\* computed within the two windows before and holds what was recorded when
\* its computation began (get_fresh and put of stats.rs and cluster.rs, the
\* Cache-Control of handlers.rs).
THEOREM AnswersAreRecent == Spec => []AnswersRecent
  <1>1. Inv => AnswersRecent
    BY DEF Inv, AnswerInv
  <1> QED BY <1>1, Invariance, PTL

\* The process does not remember an outage: it calls the topology unknown
\* only to a request during which the chain was down (cluster.rs, which puts
\* no unknown topology).
THEOREM OutageIsNotSticky == Spec => []OutageNotSticky
  <1>1. Inv => OutageNotSticky
    BY DEF Inv, AnswerInv
  <1> QED BY <1>1, Invariance, PTL

\* A 500, a 404 and a hole are explained by what happened to the request
\* that is told of them, also across the caches.
THEOREM FailuresAreExplained == Spec => []FailuresExplained
  <1>1. Inv => FailuresExplained
    BY DEF Inv, AnswerInv
  <1> QED BY <1>1, Invariance, PTL

\* A hit of search leads to the record, never to a 404 (handlers.rs, search
\* and the handlers of single records).
THEOREM HitsResolve == Spec => []HitResolves
  <1>1. Inv => HitResolves
    BY DEF Inv, AnswerInv
  <1> QED BY <1>1, Invariance, PTL

\* The lag of next_block_eta is at most, and that of info at least, the lag
\* there was at the second read.
THEOREM LagIsSound == Spec => []LagSound
  <1>1. Inv => LagSound
    <2> SUFFICES ASSUME Inv, NEW r \in Handler, stage[r] = "put",
                        draft[r].kind = "data"
                 PROVE  /\ key = "eta" => draft[r].lag \in 0..real[r]
                        /\ key = "info" /\ ~draft[r].gap
                              /\ draft[r].total > 0 =>
                             draft[r].lag >= real[r]
      BY DEF LagSound
    <2>1. Ready(r, draft[r], "put", r \in failed, real[r])
      BY DEF Inv, HandlerInv, Busy
    <2> QED BY <2>1 DEF Ready
  <1> QED BY <1>1, Invariance, PTL
=============================================================================
