--------------------------- MODULE ChatBlocProofs ---------------------------
(***************************************************************************)
(* Proofs about the chat state of the app, for any number of conversations,*)
(* messages, loads and sends: a text is shown once; only messages of the   *)
(* active conversation are shown until a reload was misplaced; and when    *)
(* nothing is under way, all of them are, unless a handler slipped.        *)
(***************************************************************************)
EXTENDS ChatBloc, TLAPS

ItemType == [msg : Msgs, bubble : BOOLEAN, status : {"sending", "sent", "failed"}]
ViewType == [active : Convs \cup {NoConv}, shown : SUBSET ItemType]
Phases == {"idle", "asked", "answering", "naming", "done", "ignored", "gone"}
ReqType == [kind : {"none", "load", "reload", "text", "media"}, conv : Convs \cup {NoConv},
            msg : Msgs \cup {NoMsg}, gen : Nat, phase : Phases, snap : SUBSET Msgs, base : ViewType]

\* The messages sent as a text, and those sent as a voice message or a file.
Texts == {m \in Msgs : \E r \in Reqs : req[r].msg = m /\ req[r].kind = "text"}
Media == {m \in Msgs : \E r \in Reqs : req[r].msg = m /\ req[r].kind = "media"}

\* One item a key; what is not confirmed is something that was sent.
Once(shown, texts, media) ==
    /\ \A i, j \in shown : i.msg = j.msg /\ i.bubble = j.bubble => i = j
    /\ \A i \in shown : i.bubble => i.msg \in media
    /\ \A i \in shown : ~i.bubble /\ i.status # "sent" => i.msg \in texts

\* Every state that a handler holds is such a state, as the emitted one.
Good(v, texts, media) == v \in ViewType /\ Once(v.shown, texts, media)

Held(texts, media) ==
    /\ Good(view, texts, media)
    /\ \A r \in Reqs : Good(req[r].base, texts, media)
    /\ \A m \in Msgs : Good(seen[m], texts, media)

Typed ==
    /\ stored \subseteq Msgs /\ missed \subseteq stored /\ listed \subseteq Convs
    /\ link \in {"down", "joining", "up"} /\ known \in {"never", "yes", "lost"}
    /\ event \in [Msgs -> {"none", "coming", "learning", "over"}]
    /\ \A m \in Msgs : event[m] # "none" => m \in stored
    /\ gens \in [Convs -> Nat] /\ listGen \in Nat
    /\ slip \in {"none", "stale", "misplaced"}
    /\ seen \in [Msgs -> ViewType]

\* A message is sent by one request; an answer has messages of what was asked for.
Requested ==
    /\ req \in [Reqs -> ReqType]
    /\ \A r \in Reqs : req[r].phase = "idle" => req[r] = Unused
    /\ \A r \in Reqs : req[r].kind \in Sends => req[r].msg \in Msgs /\ req[r].conv = req[r].msg.conv
    /\ \A r, q \in Reqs : req[r].kind \in Sends /\ req[r].msg = req[q].msg => r = q
    /\ \A r \in Reqs : \A m \in req[r].snap : m.conv = req[r].conv
    /\ \A r \in Reqs : req[r].kind \in {"load", "reload"} => req[r].conv \in Convs

OnlyOf(v) == \A i \in v.shown : i.msg.conv = v.active

\* What a handler holds is of the conversation that was active then.
InPlace ==
    slip # "misplaced" =>
        /\ OnlyOf(view)
        /\ \A r \in Reqs : OnlyOf(req[r].base)
        /\ \A m \in Msgs : OnlyOf(seen[m])

IInv == Typed /\ Requested /\ Held(Texts, Media) /\ InPlace
-----------------------------------------------------------------------------
(* Merging *)

LEMMA GoodGrows ==
    ASSUME NEW v, NEW t1, NEW m1, NEW t2, NEW m2,
           Good(v, t1, m1), t1 \subseteq t2, m1 \subseteq m2
    PROVE  Good(v, t2, m2)
BY DEF Good, Once

LEMMA MergeTyped ==
    ASSUME NEW new \in SUBSET ItemType, NEW old \in SUBSET ItemType
    PROVE  Merge(new, old) \in SUBSET ItemType
BY DEF Merge, ItemType

LEMMA MergeOf ==
    ASSUME NEW c, NEW new \in SUBSET ItemType, NEW old \in SUBSET ItemType,
           \A i \in new : i.msg.conv = c, \A i \in old : i.msg.conv = c
    PROVE  \A i \in Merge(new, old) : i.msg.conv = c
BY DEF Merge, ItemType

\* A confirmed bubble takes the identity of its message, which then is shown by
\* a confirmed item or not at all: media is not sent as a text.
LEMMA MergeOnce ==
    ASSUME NEW texts, NEW media, texts \cap media = {},
           NEW new \in SUBSET ItemType, NEW old \in SUBSET ItemType,
           Once(new, texts, media), Once(old, texts, media)
    PROVE  Once(Merge(new, old), texts, media)
<1> DEFINE Norm(i) == IF i.status = "sent" THEN [i EXCEPT !.bubble = FALSE] ELSE i
<1> DEFINE normal == {Norm(i) : i \in old}
<1>1. \A i \in normal : /\ i \in ItemType
                        /\ i.bubble => i.msg \in media
                        /\ ~i.bubble /\ i.status # "sent" => i.msg \in texts
  <2> TAKE i \in normal
  <2>1. PICK k \in old : i = Norm(k)
    OBVIOUS
  <2>2. k \in ItemType
    OBVIOUS
  <2>3. CASE k.status = "sent"
    BY <2>1, <2>2, <2>3 DEF ItemType
  <2>4. CASE k.status # "sent"
    BY <2>1, <2>2, <2>4 DEF Once
  <2> QED
    BY <2>3, <2>4
<1>2. ASSUME NEW i \in normal, NEW j \in normal, i.msg = j.msg, i.bubble = j.bubble
      PROVE  i = j
  <2>1. PICK k \in old : i = Norm(k)
    OBVIOUS
  <2>2. PICK l \in old : j = Norm(l)
    OBVIOUS
  <2>3. k \in ItemType /\ l \in ItemType /\ k.msg = l.msg
    BY <1>2, <2>1, <2>2 DEF ItemType
  <2>4. CASE k.bubble = l.bubble
    BY <2>1, <2>2, <2>3, <2>4 DEF Once
  <2>5. CASE k.bubble # l.bubble
    <3>1. k.msg \in media /\ k.msg \notin texts
      BY <2>3, <2>5 DEF Once, ItemType
    <3>2. (~k.bubble => k.status = "sent") /\ (~l.bubble => l.status = "sent")
      BY <2>3, <3>1 DEF Once
    <3>3. (k.bubble => k.status = "sent") /\ (l.bubble => l.status = "sent")
      BY <1>2, <2>1, <2>2, <2>3, <2>5, <3>2 DEF ItemType
    <3>4. \A x \in ItemType : x.status = "sent" => Norm(x) = Item(x.msg, FALSE, "sent")
      BY DEF ItemType, Item
    <3> QED
      BY <2>1, <2>2, <2>3, <2>5, <3>2, <3>3, <3>4
  <2> QED
    BY <2>4, <2>5
<1>3. Merge(new, old) = new \cup {i \in normal : \A j \in new : <<i.msg, i.bubble>> # <<j.msg, j.bubble>>}
  BY DEF Merge
<1> HIDE DEF normal
<1> QED
  BY <1>1, <1>2, <1>3 DEF Once
-----------------------------------------------------------------------------
(* Requests *)

LEMMA Apart == Requested => Texts \cap Media = {}
BY DEF Requested, Texts, Media, Sends

\* What a step leaves of the requests.
Kept ==
    /\ Requested'
    /\ Texts \subseteq Texts' /\ Media \subseteq Media'
    /\ \A r \in Reqs : req'[r].base \in {NoView, view, req[r].base}

\* A handler goes on, or ends.
GoesOn(r, q) ==
    /\ q \in ReqType /\ q.phase # "idle" /\ req[r].phase # "idle"
    /\ \/ q.kind = req[r].kind /\ q.msg = req[r].msg /\ q.conv = req[r].conv
       \/ req[r].kind \notin Sends /\ q.kind = "none" /\ q.msg = NoMsg /\ q.snap = {}
    /\ \A m \in q.snap : m.conv = q.conv
    /\ q.base \in {NoView, view, req[r].base}

LEMMA GoesOnKept ==
    ASSUME Requested, NEW r \in Reqs, NEW q, GoesOn(r, q), req' = [req EXCEPT ![r] = q]
    PROVE  Kept
<1>1. Requested'
  BY MsgsAssumption DEF Requested, GoesOn, ReqType, Sends
<1>2. Texts \subseteq Texts' /\ Media \subseteq Media'
  BY DEF Requested, GoesOn, Texts, Media, Sends
<1>3. \A k \in Reqs : req'[k].base \in {NoView, view, req[k].base}
  BY DEF Requested, GoesOn
<1> QED
  BY <1>1, <1>2, <1>3 DEF Kept

LEMMA AskKept ==
    ASSUME Requested, NEW r \in Reqs, NEW kind \in {"load", "reload", "text", "media"},
           NEW c \in Convs, NEW m \in Msgs \cup {NoMsg}, NEW gen \in Nat,
           Ask(r, kind, c, m, gen),
           kind \in Sends => m \in Msgs /\ m.conv = c /\ \A q \in Reqs : req[q].msg # m,
           kind \notin Sends => m = NoMsg
    PROVE  Kept
<1> DEFINE q == [Unused EXCEPT !.kind = kind, !.conv = c, !.msg = m, !.gen = gen, !.phase = "asked"]
<1>1. /\ q \in ReqType /\ q.phase = "asked" /\ q.kind = kind /\ q.conv = c /\ q.msg = m
      /\ q.snap = {} /\ q.base = NoView
  <2>1. NoView \in ViewType
    BY DEF NoView, ViewType
  <2>2. /\ Unused \in ReqType /\ Unused.snap = {} /\ Unused.base = NoView
    BY <2>1 DEF Unused, ReqType, Phases
  <2> QED
    BY <2>2 DEF ReqType, Phases
<1>2. req[r] = Unused /\ req' = [req EXCEPT ![r] = q]
  BY DEF Ask, Requested
<1>3. req[r].kind = "none" /\ req[r].msg = NoMsg
  BY <1>2 DEF Unused
<1> HIDE DEF q
<1>4. Requested'
  BY <1>1, <1>2, <1>3, MsgsAssumption DEF Requested, Sends
<1>5. Texts \subseteq Texts' /\ Media \subseteq Media'
  BY <1>2, <1>3 DEF Requested, Texts, Media
<1>6. \A k \in Reqs : req'[k].base \in {NoView, view, req[k].base}
  BY <1>1, <1>2 DEF Requested
<1> QED
  BY <1>4, <1>5, <1>6 DEF Kept

LEMMA UnchangedKept == Requested /\ UNCHANGED req => Kept
BY DEF Requested, Kept, Texts, Media
-----------------------------------------------------------------------------
(* Emitted states *)

\* What a step emits is a good state, and of one conversation unless misplaced.
Emits ==
    /\ Good(view', Texts', Media')
    /\ slip' # "misplaced" => slip # "misplaced" /\ OnlyOf(view')

LEMMA EmitsGood ==
    ASSUME Kept, NEW v, Good(v, Texts, Media), slip # "misplaced" => OnlyOf(v),
           view' = v, slip' # "misplaced" => slip # "misplaced"
    PROVE  Emits
BY GoodGrows DEF Emits, Kept

LEMMA NoViewGood == ASSUME NEW t, NEW m PROVE Good(NoView, t, m) /\ OnlyOf(NoView)
BY DEF Good, Once, NoView, ViewType, OnlyOf

LEMMA EmitsSame ==
    ASSUME IInv, Kept, view' \in {view, NoView}, slip' # "misplaced" => slip # "misplaced"
    PROVE  Emits
<1>1. \A v \in {view, NoView} : Good(v, Texts, Media) /\ (slip # "misplaced" => OnlyOf(v))
  BY NoViewGood DEF IInv, Held, InPlace
<1>2. CASE view' = view
  BY <1>1, <1>2, EmitsGood
<1>3. CASE view' = NoView
  BY <1>1, <1>3, EmitsGood
<1> QED
  BY <1>2, <1>3

LEMMA ShownGood ==
    ASSUME NEW t, NEW m, NEW v, Good(v, t, m), NEW c \in Convs \cup {NoConv}
    PROVE  /\ Shown(v, c) \in SUBSET ItemType /\ Once(Shown(v, c), t, m)
           /\ OnlyOf(v) => \A i \in Shown(v, c) : i.msg.conv = c
BY DEF Good, Once, ViewType, Shown, OnlyOf

LEMMA MainGood ==
    ASSUME NEW S \in SUBSET Msgs, NEW t, NEW m
    PROVE  {Main(k) : k \in S} \in SUBSET ItemType /\ Once({Main(k) : k \in S}, t, m)
<1> DEFINE items == {Main(k) : k \in S}
<1>1. \A k \in S : /\ Main(k) \in ItemType /\ Main(k).msg = k
                  /\ Main(k).bubble = FALSE /\ Main(k).status = "sent"
  BY DEF Main, Item, ItemType
<1>2. \A i \in items : \E k \in S : i = Main(k)
  OBVIOUS
<1>3. \A i \in items : i \in ItemType /\ i = Main(i.msg) /\ ~i.bubble /\ i.status = "sent"
  BY <1>1, <1>2
<1> HIDE DEF items
<1>4. items \in SUBSET ItemType /\ Once(items, t, m)
  BY <1>3 DEF Once
<1> QED
  BY <1>4 DEF items

LEMMA AfterLoadGood ==
    ASSUME Requested, NEW r \in Reqs, NEW v, Good(v, Texts, Media)
    PROVE  /\ Good(AfterLoad(r, v), Texts, Media)
           /\ OnlyOf(v) => OnlyOf(AfterLoad(r, v))
<1> DEFINE c == req[r].conv
<1>1. c \in Convs \cup {NoConv} /\ req[r].snap \in SUBSET Msgs /\ \A m \in req[r].snap : m.conv = c
  BY DEF Requested, ReqType
<1>2. /\ Loaded(r) \in SUBSET ItemType /\ Once(Loaded(r), Texts, Media)
      /\ \A i \in Loaded(r) : i.msg.conv = c
  <2>1. \A i \in Loaded(r) : i.msg.conv = c
    BY <1>1 DEF Loaded, Main, Item
  <2> QED
    BY <1>1, <2>1, MainGood DEF Loaded
<1>3. /\ Shown(v, c) \in SUBSET ItemType /\ Once(Shown(v, c), Texts, Media)
      /\ OnlyOf(v) => \A i \in Shown(v, c) : i.msg.conv = c
  BY <1>1, ShownGood
<1>4. /\ Merge(Loaded(r), Shown(v, c)) \in SUBSET ItemType
      /\ Once(Merge(Loaded(r), Shown(v, c)), Texts, Media)
  BY <1>2, <1>3, Apart, MergeTyped, MergeOnce
<1>5. OnlyOf(v) => \A i \in Merge(Loaded(r), Shown(v, c)) : i.msg.conv = c
  BY <1>2, <1>3, MergeOf
<1> QED
  <2>1. AfterLoad(r, v) = [active |-> c, shown |-> Merge(Loaded(r), Shown(v, c))]
    BY DEF AfterLoad
  <2> HIDE DEF c
  <2>2. AfterLoad(r, v) \in ViewType
    BY <1>1, <1>4, <2>1 DEF ViewType
  <2> QED
    BY <1>4, <1>5, <2>1, <2>2 DEF Good, OnlyOf

\* A message that is confirmed or shown until it is sent, in its conversation.
LEMMA AddedGood ==
    ASSUME NEW t, NEW m, t \cap m = {}, NEW v, Good(v, t, m), NEW i \in ItemType,
           ~i.bubble, i.status = "sent" \/ i.msg \in t, i.msg.conv = v.active
    PROVE  /\ Good([v EXCEPT !.shown = Merge({i}, @)], t, m)
           /\ OnlyOf(v) => OnlyOf([v EXCEPT !.shown = Merge({i}, @)])
<1> DEFINE new == {i}
<1>1. new \in SUBSET ItemType /\ Once(new, t, m) /\ \A j \in new : j.msg.conv = v.active
  BY DEF Once
<1>2. v.shown \in SUBSET ItemType /\ Once(v.shown, t, m) /\ v \in ViewType
  BY DEF Good, ViewType
<1> HIDE DEF new
<1>3. Merge(new, v.shown) \in SUBSET ItemType /\ Once(Merge(new, v.shown), t, m)
  BY <1>1, <1>2, MergeTyped, MergeOnce
<1>4. ASSUME OnlyOf(v) PROVE \A j \in Merge(new, v.shown) : j.msg.conv = v.active
  <2>1. \A j \in v.shown : j.msg.conv = v.active
    BY <1>4 DEF OnlyOf
  <2> QED
    BY <1>1, <1>2, <2>1 DEF Merge, ItemType
<1>5. /\ Good([v EXCEPT !.shown = Merge(new, @)], t, m)
      /\ OnlyOf(v) => OnlyOf([v EXCEPT !.shown = Merge(new, @)])
  BY <1>2, <1>3, <1>4 DEF Good, OnlyOf, ViewType
<1> QED
  BY <1>5 DEF new
-----------------------------------------------------------------------------
(* The steps of a request *)

LEMMA EndedType ==
    ASSUME Requested, NEW r \in Reqs, NEW phase \in Phases \ {"idle"}
    PROVE  GoesOn(r, [Ended(req[r]) EXCEPT !.phase = phase]) \/ req[r].phase = "idle"
<1> DEFINE q == [Ended(req[r]) EXCEPT !.phase = phase]
<1>1. req[r] \in ReqType /\ NoView \in ViewType
  BY DEF Requested, NoView, ViewType
<1>2. /\ q \in ReqType /\ q.kind = req[r].kind /\ q.msg = req[r].msg /\ q.conv = req[r].conv
      /\ q.phase = phase /\ q.snap = {} /\ q.base = NoView
  BY <1>1 DEF Ended, ReqType, Phases
<1> HIDE DEF q
<1>3. GoesOn(r, q) \/ req[r].phase = "idle"
  BY <1>2 DEF GoesOn, Phases
<1> QED
  BY <1>3 DEF q

LEMMA GiveUpKept ==
    ASSUME Requested, NEW r \in Reqs, NEW phase \in Phases \ {"idle"},
           req[r].phase # "idle", GiveUp(r, phase)
    PROVE  Kept
<1>1. req' = [req EXCEPT ![r] = [Ended(req[r]) EXCEPT !.phase = phase]]
  BY DEF GiveUp, Requested
<1> QED
  BY <1>1, EndedType, GoesOnKept

LEMMA DoneKept ==
    ASSUME Requested, NEW r \in Reqs, req[r].phase # "idle", Done(r)
    PROVE  Kept
<1>1. CASE req[r].kind \in Sends
  <2>1. req' = [req EXCEPT ![r] = [Ended(req[r]) EXCEPT !.phase = "done"]]
    BY <1>1 DEF Done, Requested
  <2>2. "done" \in Phases \ {"idle"}
    BY DEF Phases
  <2> QED
    BY <2>1, <2>2, EndedType, GoesOnKept
<1>2. CASE req[r].kind \notin Sends
  <2> DEFINE q == [Unused EXCEPT !.phase = "done"]
  <2>1. req' = [req EXCEPT ![r] = q]
    BY <1>2 DEF Done, Requested
  <2>2. /\ q \in ReqType /\ q.kind = "none" /\ q.msg = NoMsg
        /\ q.phase = "done" /\ q.snap = {} /\ q.base = NoView
    BY DEF Unused, NoView, ReqType, ViewType, Phases
  <2> HIDE DEF q
  <2>3. GoesOn(r, q)
    BY <1>2, <2>2 DEF GoesOn
  <2> QED
    BY <2>1, <2>3, GoesOnKept
<1> QED
  BY <1>1, <1>2

LEMMA ApartNext == Requested' => Texts' \cap Media' = {}
BY DEF Requested, Texts, Media, Sends

LEMMA OpenStep ==
    ASSUME IInv, NEW r \in Reqs, NEW c \in Convs, Open(r, c)
    PROVE  Kept /\ Emits
<1>1. Kept
  <2>1. Requested /\ gens[c] + 1 \in Nat /\ Ask(r, "load", c, NoMsg, gens[c] + 1)
    BY DEF IInv, Typed, Open
  <2>2. "load" \notin Sends
    BY DEF Sends
  <2> QED
    BY <2>1, <2>2, AskKept
<1>2. Good(view, Texts, Media) /\ view \in ViewType
  BY DEF IInv, Held, Good
<1> DEFINE v == [active |-> c, shown |-> Shown(view, c)]
<1>3. Good(v, Texts, Media) /\ (OnlyOf(view) => OnlyOf(v))
  <2>1. /\ Shown(view, c) \in SUBSET ItemType /\ Once(Shown(view, c), Texts, Media)
        /\ OnlyOf(view) => \A i \in Shown(view, c) : i.msg.conv = c
    BY <1>2, ShownGood
  <2> QED
    BY <2>1 DEF Good, OnlyOf, ViewType
<1>4. view' = v /\ slip' = slip
  BY DEF Open
<1> HIDE DEF v
<1> QED
  BY <1>1, <1>3, <1>4, EmitsGood DEF IInv, InPlace

LEMMA ReconnectStep ==
    ASSUME IInv, NEW r \in Reqs, Reconnect(r)
    PROVE  Kept /\ Emits
<1>1. CASE view.active = NoConv
  BY <1>1, UnchangedKept, EmitsSame DEF IInv, Reconnect
<1>2. CASE view.active # NoConv
  <2>1. view.active \in Convs
    BY <1>2 DEF IInv, Held, Good, ViewType
  <2>2. Kept
    <3> DEFINE c == view.active
    <3>1. Requested /\ gens[c] + 1 \in Nat /\ Ask(r, "reload", c, NoMsg, gens[c] + 1)
      BY <1>2, <2>1 DEF IInv, Typed, Reconnect
    <3>2. "reload" \notin Sends
      BY DEF Sends
    <3> HIDE DEF c
    <3> QED
      BY <2>1, <3>1, <3>2, AskKept DEF c
  <2> QED
    BY <2>2, EmitsSame DEF IInv, Reconnect
<1> QED
  BY <1>1, <1>2

LEMMA SendStep ==
    ASSUME IInv, NEW r \in Reqs, NEW kind \in Sends, NEW m \in Msgs, Send(r, kind, m)
    PROVE  Kept /\ Emits
<1>1. Kept
  <2>1. m.conv \in Convs /\ kind \in {"load", "reload", "text", "media"}
    BY MsgsAssumption DEF Sends
  <2> QED
    BY <2>1, AskKept DEF IInv, Typed, Send
<1>2. m \in IF kind = "text" THEN Texts' ELSE Media'
  BY DEF IInv, Requested, Send, Ask, Unused, Texts, Media, Sends
<1>3. Good(view, Texts', Media') /\ view \in ViewType /\ Texts' \cap Media' = {}
  BY <1>1, GoodGrows, ApartNext DEF IInv, Held, Good, Kept
<1>4. slip' = slip /\ (slip # "misplaced" => OnlyOf(view))
  BY DEF IInv, InPlace, Send
<1>5. CASE view.active # m.conv
  BY <1>1, <1>5, EmitsSame DEF Send
<1>6. CASE view.active = m.conv /\ kind = "text"
  <2> DEFINE i == Item(m, FALSE, "sending")
  <2>1. i \in ItemType /\ ~i.bubble /\ i.msg = m
    BY DEF Item, ItemType
  <2>2. view' = [view EXCEPT !.shown = Merge({i}, @)]
    BY <1>6 DEF Send
  <2> HIDE DEF i
  <2> QED
    BY <1>1, <1>2, <1>3, <1>4, <1>6, <2>1, <2>2, AddedGood DEF Emits
<1>7. CASE view.active = m.conv /\ kind = "media"
  <2> DEFINE i == Item(m, TRUE, "sending")
  <2>1. i \in ItemType /\ i.bubble /\ i.msg = m
    BY DEF Item, ItemType
  <2>2. view' = [view EXCEPT !.shown = @ \cup {i}]
    BY <1>7 DEF Send
  <2> HIDE DEF i
  <2>3. \A j \in view.shown : j.bubble => j.msg # m
    <3>1. m \notin Media
      BY DEF Send, Media
    <3> QED
      BY <3>1 DEF IInv, Held, Good, Once
  <2>4. Good(view', Texts', Media')
    BY <1>2, <1>3, <1>7, <2>1, <2>2, <2>3 DEF Good, Once, ViewType
  <2>5. OnlyOf(view) => OnlyOf(view')
    BY <1>3, <1>7, <2>1, <2>2 DEF OnlyOf, ViewType
  <2> QED
    BY <1>1, <1>4, <2>4, <2>5 DEF Emits
<1> QED
  BY <1>5, <1>6, <1>7 DEF Sends
-----------------------------------------------------------------------------
(* The steps of an answer *)

LEMMA StaleKeeps == ASSUME NEW wrong, Stale(wrong) PROVE slip' # "misplaced" => slip # "misplaced"
BY DEF Stale

LEMMA ServeStep ==
    ASSUME IInv, NEW r \in Reqs, ServeSend(r) \/ ServeRead(r) \/ AskName(r)
    PROVE  Kept /\ Emits
<1>1. req[r] \in ReqType /\ req \in [Reqs -> ReqType] /\ Requested /\ stored \subseteq Msgs
      /\ view \in ViewType
  BY DEF IInv, Requested, Typed, Held, Good
<1>2. view' = view /\ slip' = slip
  BY DEF ServeSend, ServeRead, AskName
<1>3. CASE ServeSend(r)
  <2> DEFINE q == [req[r] EXCEPT !.phase = IF @ = "asked" THEN "answering" ELSE "done"]
  <2>1. req' = [req EXCEPT ![r] = q]
    BY <1>1, <1>3 DEF ServeSend
  <2>2. GoesOn(r, q)
    BY <1>1, <1>3 DEF ServeSend, GoesOn, ReqType, Phases, Requested
  <2> HIDE DEF q
  <2> QED
    BY <1>1, <1>2, <2>1, <2>2, GoesOnKept, EmitsSame
<1>4. CASE ServeRead(r)
  <2> DEFINE q == [req[r] EXCEPT !.phase = "answering", !.snap = {m \in stored : m.conv = req[r].conv}]
  <2>1. req' = [req EXCEPT ![r] = q]
    BY <1>1, <1>4 DEF ServeRead
  <2>2. GoesOn(r, q)
    BY <1>1, <1>4 DEF ServeRead, GoesOn, ReqType, Phases
  <2> HIDE DEF q
  <2> QED
    BY <1>1, <1>2, <2>1, <2>2, GoesOnKept, EmitsSame
<1>5. CASE AskName(r)
  <2> DEFINE q == [req[r] EXCEPT !.phase = "naming", !.base = view]
  <2>1. req' = [req EXCEPT ![r] = q]
    BY <1>1, <1>5 DEF AskName
  <2>2. GoesOn(r, q)
    BY <1>1, <1>5 DEF AskName, GoesOn, ReqType, Phases, Requested
  <2> HIDE DEF q
  <2> QED
    BY <1>1, <1>2, <2>1, <2>2, GoesOnKept, EmitsSame
<1> QED
  BY <1>3, <1>4, <1>5

LEMMA LoadStep ==
    ASSUME IInv, NEW r \in Reqs, LoadAnswered(r) \/ Named(r)
    PROVE  Kept /\ Emits
<1>1. Requested /\ req[r].phase # "idle" /\ Done(r)
  BY DEF IInv, LoadAnswered, Named
<1>2. Kept
  BY <1>1, DoneKept
<1>3. slip' # "misplaced" => slip # "misplaced"
  BY StaleKeeps DEF LoadAnswered, Named
<1>4. PICK v \in {view, req[r].base} : view' = AfterLoad(r, v)
  BY DEF LoadAnswered, Named
<1>5. Good(v, Texts, Media) /\ (slip # "misplaced" => OnlyOf(v))
  BY <1>4 DEF IInv, Held, InPlace
<1>6. Good(AfterLoad(r, v), Texts, Media) /\ (OnlyOf(v) => OnlyOf(AfterLoad(r, v)))
  BY <1>1, <1>5, AfterLoadGood
<1> QED
  BY <1>2, <1>3, <1>4, <1>5, <1>6, EmitsGood

LEMMA ReloadStep ==
    ASSUME IInv, NEW r \in Reqs, ReloadAnswered(r)
    PROVE  Kept /\ Emits
<1>1. Requested /\ req[r].phase # "idle" /\ Done(r)
  BY DEF IInv, ReloadAnswered
<1>2. Kept
  BY <1>1, DoneKept
<1>3. Good(view, Texts, Media) /\ view \in ViewType /\ (slip # "misplaced" => OnlyOf(view))
  BY DEF IInv, Held, Good, InPlace
<1> DEFINE w == AfterLoad(r, view)
<1>4. Good(w, Texts, Media) /\ (OnlyOf(view) => OnlyOf(w))
  BY <1>1, <1>3, AfterLoadGood
<1>5. view' = [view EXCEPT !.shown = w.shown]
  BY DEF ReloadAnswered, AfterLoad
<1>6. w.active = req[r].conv
  BY DEF AfterLoad
<1> HIDE DEF w
<1>7. Good(view', Texts, Media)
  BY <1>3, <1>4, <1>5 DEF Good, ViewType
<1>8. slip' # "misplaced" => slip # "misplaced" /\ view.active = req[r].conv
  BY DEF ReloadAnswered
<1>9. slip' # "misplaced" => OnlyOf(view')
  BY <1>3, <1>4, <1>5, <1>6, <1>8 DEF OnlyOf, ViewType
<1> QED
  BY <1>2, <1>7, <1>8, <1>9, GoodGrows DEF Emits, Kept

LEMMA FailStep ==
    ASSUME IInv, NEW r \in Reqs, Ignore(r) \/ ReadFails(r)
    PROVE  Kept /\ Emits
<1>1. Requested /\ req[r].phase # "idle" /\ GiveUp(r, "ignored") /\ view' \in {view, NoView}
  BY DEF IInv, Ignore, ReadFails, InFlight
<1>2. slip' # "misplaced" => slip # "misplaced"
  BY StaleKeeps DEF Ignore, ReadFails
<1>3. "ignored" \in Phases \ {"idle"}
  BY DEF Phases
<1> QED
  BY <1>1, <1>2, <1>3, GiveUpKept, EmitsSame

\* Some items take another status: a text its own, whatever it had, and of the
\* rest the bubble does.
Marked(w, v, S, status) ==
    /\ w = [v EXCEPT !.shown = w.shown]
    /\ \A j \in w.shown : \E i \in v.shown : j = IF i \in S THEN [i EXCEPT !.status = status] ELSE i

LEMMA MarkedGood ==
    ASSUME NEW v, NEW w, NEW t, NEW m, Good(v, t, m), NEW S, NEW status \in {"sent", "failed"},
           \A i \in v.shown : i \in S /\ ~i.bubble => i.msg \in t,
           Marked(w, v, S, status)
    PROVE  Good(w, t, m) /\ (OnlyOf(v) => OnlyOf(w))
<1> DEFINE Mark(i) == IF i \in S THEN [i EXCEPT !.status = status] ELSE i
<1>1. v \in ViewType /\ v.shown \in SUBSET ItemType /\ Once(v.shown, t, m)
  BY DEF Good, ViewType
<1>2. \A i \in v.shown : /\ Mark(i) \in ItemType /\ Mark(i).msg = i.msg /\ Mark(i).bubble = i.bubble
                         /\ ~i.bubble /\ Mark(i).status # "sent" => i.msg \in t
  BY <1>1 DEF ItemType, Once
<1>3. (\A j \in w.shown : \E i \in v.shown : j = Mark(i)) /\ w = [v EXCEPT !.shown = w.shown]
  BY DEF Marked
<1> HIDE DEF Mark
<1>4. w.shown \in SUBSET ItemType /\ Once(w.shown, t, m)
  BY <1>1, <1>2, <1>3 DEF Once
<1>5. w \in ViewType /\ w.active = v.active
  BY <1>1, <1>3, <1>4 DEF ViewType
<1>6. OnlyOf(v) => OnlyOf(w)
  BY <1>2, <1>3, <1>5 DEF OnlyOf
<1> QED
  BY <1>4, <1>5, <1>6 DEF Good

LEMMA SendMarks ==
    ASSUME IInv, NEW r \in Reqs, req[r].kind \in Sends, Kept,
           NEW status \in {"sent", "failed"}, NEW S,
           \A i \in S : i.msg = req[r].msg /\ (req[r].kind = "text" \/ i.bubble),
           Marked(view', view, S, status), slip' = slip
    PROVE  Emits
<1>1. Good(view, Texts, Media) /\ (slip # "misplaced" => OnlyOf(view))
  BY DEF IInv, Held, InPlace
<1>2. \A i \in view.shown : i \in S /\ ~i.bubble => i.msg \in Texts
  BY DEF IInv, Requested, Texts
<1>3. Good(view', Texts, Media) /\ (OnlyOf(view) => OnlyOf(view'))
  BY <1>1, <1>2, MarkedGood
<1> QED
  BY <1>1, <1>3, GoodGrows DEF Emits, Kept

LEMMA SendAnsweredStep ==
    ASSUME IInv, NEW r \in Reqs, SendAnswered(r)
    PROVE  Kept /\ Emits
<1> DEFINE m == req[r].msg
<1>1. /\ Requested /\ req[r].phase # "idle" /\ Done(r) /\ slip' = slip
      /\ req[r].kind \in Sends /\ m \in Msgs /\ req[r].conv = m.conv /\ view \in ViewType
  BY DEF IInv, Requested, Held, Good, SendAnswered
<1>2. Kept
  BY <1>1, DoneKept
<1>3. CASE view.active # m.conv
  BY <1>1, <1>2, <1>3, EmitsSame DEF SendAnswered
<1>4. CASE view.active = m.conv /\ req[r].kind = "text"
  <2> DEFINE i == Main(m)
  <2>1. i \in ItemType /\ ~i.bubble /\ i.msg = m /\ i.status = "sent"
    BY <1>1 DEF Main, Item, ItemType
  <2>2. view' = [view EXCEPT !.shown = Merge({i}, @)]
    BY <1>1, <1>4 DEF SendAnswered
  <2>3. Good(view, Texts, Media) /\ Texts \cap Media = {} /\ (slip # "misplaced" => OnlyOf(view))
    BY <1>1, Apart DEF IInv, Held, InPlace
  <2> HIDE DEF i
  <2>4. Good(view', Texts, Media) /\ (OnlyOf(view) => OnlyOf(view'))
    BY <1>4, <2>1, <2>2, <2>3, AddedGood
  <2> QED
    BY <1>1, <1>2, <2>3, <2>4, GoodGrows DEF Emits, Kept
<1>5. CASE view.active = m.conv /\ req[r].kind # "text"
  <2> DEFINE S == {i \in view.shown : i.msg = m /\ i.bubble}
  <2>1. view' = [view EXCEPT !.shown = {IF i.msg = m /\ i.bubble THEN [i EXCEPT !.status = "sent"] ELSE i : i \in @}]
    BY <1>1, <1>5 DEF SendAnswered
  <2>2. Marked(view', view, S, "sent")
    BY <1>1, <2>1 DEF Marked, ViewType
  <2>3. \A i \in S : i.msg = m /\ i.bubble
    OBVIOUS
  <2> HIDE DEF S
  <2> QED
    BY <1>1, <1>2, <1>5, <2>2, <2>3, SendMarks
<1> QED
  BY <1>3, <1>4, <1>5

LEMMA SendFailsStep ==
    ASSUME IInv, NEW r \in Reqs, SendFails(r)
    PROVE  Kept /\ Emits
<1> DEFINE m == req[r].msg
           phase == IF req[r].phase = "asked" THEN "gone" ELSE "done"
<1>1. /\ Requested /\ req[r].phase # "idle" /\ GiveUp(r, phase) /\ slip' = slip
      /\ req[r].kind \in Sends /\ view \in ViewType
  BY DEF IInv, Held, Good, SendFails
<1>2. phase \in Phases \ {"idle"}
  BY DEF Phases
<1> HIDE DEF phase
<1>3. Kept
  BY <1>1, <1>2, GiveUpKept
<1>4. CASE view.active # m.conv
  BY <1>1, <1>3, <1>4, EmitsSame DEF SendFails
<1>5. CASE view.active = m.conv
  <2> DEFINE S == {i \in view.shown : i.msg = m /\ (req[r].kind = "text" \/ i.bubble)}
  <2>1. view' = [view EXCEPT !.shown = {IF i.msg = m /\ (req[r].kind = "text" \/ i.bubble)
                                        THEN [i EXCEPT !.status = "failed"] ELSE i : i \in @}]
    BY <1>5 DEF SendFails
  <2>2. Marked(view', view, S, "failed")
    BY <1>1, <2>1 DEF Marked, ViewType
  <2>3. \A i \in S : i.msg = m /\ (req[r].kind = "text" \/ i.bubble)
    OBVIOUS
  <2> HIDE DEF S
  <2> QED
    BY <1>1, <1>3, <1>5, <2>2, <2>3, SendMarks
<1> QED
  BY <1>4, <1>5

LEMMA RequestSteps ==
    ASSUME IInv, NEW r \in Reqs, Request(r) \/ Answer(r)
    PROVE  Kept /\ Emits /\ seen' = seen
<1>1. Kept /\ Emits
  BY OpenStep, ReconnectStep, SendStep, ServeStep, LoadStep, ReloadStep, FailStep,
     SendAnsweredStep, SendFailsStep DEF Request, Answer
<1>2. seen' = seen
  BY DEF Request, Answer, Open, Reconnect, Send, ServeSend, ServeRead, Ignore, LoadAnswered,
         AskName, Named, ReloadAnswered, SendAnswered, ReadFails, SendFails
<1> QED
  BY <1>1, <1>2
-----------------------------------------------------------------------------
(* The other steps *)

SeenKept == \A m \in Msgs : seen'[m] \in {NoView, view, seen[m]}

LEMMA ReceiveStep ==
    ASSUME IInv, NEW m \in Msgs, Receive(m)
    PROVE  Kept /\ Emits /\ SeenKept
<1>1. Kept
  BY UnchangedKept DEF IInv, Receive
<1>2. SeenKept
  BY DEF IInv, Typed, Receive, SeenKept
<1>3. slip' = slip /\ Good(view, Texts, Media) /\ Texts \cap Media = {}
      /\ (slip # "misplaced" => OnlyOf(view))
  BY Apart DEF IInv, Held, InPlace, Receive
<1>4. CASE view.active # m.conv
  BY <1>1, <1>2, <1>3, <1>4, EmitsSame DEF Receive, Told
<1>5. CASE view.active = m.conv
  <2> DEFINE i == Main(m)
  <2>1. i \in ItemType /\ ~i.bubble /\ i.msg = m /\ i.status = "sent"
    BY DEF Main, Item, ItemType
  <2>2. view' = [view EXCEPT !.shown = Merge({i}, @)]
    BY <1>5 DEF Receive, Told
  <2> HIDE DEF i
  <2>3. Good(view', Texts, Media) /\ (OnlyOf(view) => OnlyOf(view'))
    BY <1>3, <1>5, <2>1, <2>2, AddedGood
  <2> QED
    BY <1>1, <1>2, <1>3, <2>3, GoodGrows DEF Emits, Kept
<1> QED
  BY <1>4, <1>5

LEMMA LearnedStep ==
    ASSUME IInv, NEW m \in Msgs, Learned(m)
    PROVE  Kept /\ Emits /\ SeenKept
<1>1. Kept
  BY UnchangedKept DEF IInv, Learned
<1>2. SeenKept
  BY DEF IInv, Typed, Learned, SeenKept
<1>3. slip' # "misplaced" => slip # "misplaced"
  BY StaleKeeps DEF Learned
<1>4. PICK v \in {view, seen[m]} : view' = v
  BY DEF Learned
<1>5. Good(v, Texts, Media) /\ (slip # "misplaced" => OnlyOf(v))
  BY <1>4 DEF IInv, Held, InPlace
<1> QED
  BY <1>1, <1>2, <1>3, <1>4, <1>5, EmitsGood

LEMMA OtherSteps ==
    ASSUME IInv,
           \/ \E m \in Msgs : PeerSends(m) \/ LearnFails(m)
           \/ \E l \in lists : ListAnswered(l) \/ ListFails(l)
           \/ Drop \/ Connect \/ Join \/ Reset \/ LoadConversations \/ UNCHANGED vars
    PROVE  Kept /\ Emits /\ SeenKept
<1>1. UNCHANGED req /\ view' \in {view, NoView} /\ slip' = slip
  BY DEF PeerSends, LearnFails, ListAnswered, ListFails, Drop, Connect, Join, Reset,
         LoadConversations, vars
<1>2. SeenKept
  BY DEF IInv, Typed, PeerSends, LearnFails, ListAnswered, ListFails, Drop, Connect, Join, Reset,
         LoadConversations, vars, SeenKept
<1> QED
  BY <1>1, <1>2, UnchangedKept, EmitsSame DEF IInv

LEMMA StepEffect == IInv /\ [Next]_vars => Kept /\ Emits /\ SeenKept
<1> SUFFICES ASSUME IInv, [Next]_vars PROVE Kept /\ Emits /\ SeenKept
  OBVIOUS
<1>1. ASSUME NEW r \in Reqs, Request(r) \/ Answer(r) PROVE Kept /\ Emits /\ SeenKept
  BY <1>1, RequestSteps DEF SeenKept
<1> QED
  BY <1>1, ReceiveStep, LearnedStep, OtherSteps DEF Next

LEMMA HeldStep ==
    ASSUME IInv, Kept, Emits, SeenKept
    PROVE  Held(Texts, Media)' /\ InPlace'
<1>1. \A r \in Reqs : /\ Good(req'[r].base, Texts', Media')
                      /\ slip' # "misplaced" => OnlyOf(req'[r].base)
  <2> TAKE r \in Reqs
  <2>1. PICK v \in {NoView, view, req[r].base} : req'[r].base = v
    BY DEF Kept
  <2>2. Good(v, Texts, Media) /\ (slip # "misplaced" => OnlyOf(v))
    BY NoViewGood DEF IInv, Held, InPlace
  <2> QED
    BY <2>1, <2>2, GoodGrows DEF Kept, Emits
<1>2. \A m \in Msgs : /\ Good(seen'[m], Texts', Media')
                      /\ slip' # "misplaced" => OnlyOf(seen'[m])
  <2> TAKE m \in Msgs
  <2>1. PICK v \in {NoView, view, seen[m]} : seen'[m] = v
    BY DEF SeenKept
  <2>2. Good(v, Texts, Media) /\ (slip # "misplaced" => OnlyOf(v))
    BY NoViewGood DEF IInv, Held, InPlace
  <2> QED
    BY <2>1, <2>2, GoodGrows DEF Kept, Emits
<1>3. Held(Texts, Media)'
  BY <1>1, <1>2 DEF Held, Emits
<1>4. InPlace'
  BY <1>1, <1>2 DEF InPlace, Emits
<1> QED
  BY <1>3, <1>4
-----------------------------------------------------------------------------
(* What the variables hold *)

LEMMA StoreType ==
    ASSUME IInv, NEW m \in Msgs, Store(m)
    PROVE  /\ stored' \subseteq Msgs /\ missed' \subseteq stored'
           /\ event' \in [Msgs -> {"none", "coming", "learning", "over"}]
           /\ \A k \in Msgs : event'[k] # "none" => k \in stored'
BY DEF IInv, Typed, Store

LEMMA LoseType ==
    ASSUME IInv, LoseSome
    PROVE  /\ missed' \subseteq stored
           /\ event' \in [Msgs -> {"none", "coming", "learning", "over"}]
           /\ \A k \in Msgs : event'[k] # "none" => k \in stored
BY DEF IInv, Typed, LoseSome

LEMMA SlipType == ASSUME IInv, NEW wrong, Stale(wrong) PROVE slip' \in {"none", "stale", "misplaced"}
BY DEF IInv, Typed, Stale

LEMMA TypedStep == IInv /\ [Next]_vars => Typed'
<1> SUFFICES ASSUME IInv, [Next]_vars PROVE Typed'
  OBVIOUS
<1>1. view \in ViewType /\ NoView \in ViewType
  BY DEF IInv, Held, Good, NoView, ViewType
<1>2. seen' \in [Msgs -> ViewType]
  BY <1>1 DEF IInv, Typed, Next, vars, Request, Answer, Open, Reconnect, Send, ServeSend, ServeRead,
       Ignore, LoadAnswered, AskName, Named, ReloadAnswered, SendAnswered, ReadFails, SendFails,
       PeerSends, Receive, Learned, LearnFails, ListAnswered, ListFails, Drop, Connect, Join, Reset,
       LoadConversations
<1>3. ASSUME NEW r \in Reqs, Request(r) PROVE Typed'
  <2>1. ASSUME NEW c \in Convs, Open(r, c) PROVE Typed'
    BY <1>2, <2>1 DEF IInv, Typed, Open
  <2>2. CASE Reconnect(r)
    <3>1. gens' \in [Convs -> Nat] /\ listGen' \in Nat
      BY <2>2 DEF IInv, Typed, Reconnect, AskList
    <3> QED
      BY <1>2, <2>2, <3>1 DEF IInv, Typed, Reconnect
  <2>3. ASSUME NEW kind \in Sends, NEW m \in Msgs, Send(r, kind, m) PROVE Typed'
    BY <1>2, <2>3 DEF IInv, Typed, Send
  <2> QED
    BY <1>3, <2>1, <2>2, <2>3 DEF Request
<1>4. ASSUME NEW r \in Reqs, Answer(r) PROVE Typed'
  <2>1. CASE ServeSend(r)
    <3>1. req[r].msg \in Msgs
      BY <2>1 DEF IInv, Requested, ServeSend
    <3> QED
      BY <1>2, <2>1, <3>1, StoreType DEF IInv, Typed, ServeSend
  <2>2. CASE ServeRead(r) \/ Ignore(r) \/ AskName(r) \/ SendAnswered(r) \/ SendFails(r)
    BY <1>2, <2>2 DEF IInv, Typed, ServeRead, Ignore, AskName, SendAnswered, SendFails
  <2>3. CASE LoadAnswered(r) \/ Named(r)
    BY <1>2, <2>3, SlipType DEF IInv, Typed, LoadAnswered, Named
  <2>4. CASE ReloadAnswered(r)
    BY <1>2, <2>4 DEF IInv, Typed, ReloadAnswered
  <2>5. CASE ReadFails(r)
    BY <1>2, <2>5, SlipType DEF IInv, Typed, ReadFails
  <2> QED
    BY <1>4, <2>1, <2>2, <2>3, <2>4, <2>5 DEF Answer
<1>5. ASSUME NEW m \in Msgs, PeerSends(m) PROVE Typed'
  BY <1>2, <1>5, StoreType DEF IInv, Typed, PeerSends
<1>6. ASSUME NEW m \in Msgs, Receive(m) \/ LearnFails(m) PROVE Typed'
  BY <1>2, <1>6 DEF IInv, Typed, Receive, LearnFails
<1>7. ASSUME NEW m \in Msgs, Learned(m) PROVE Typed'
  <2>1. m.conv \in Convs
    BY MsgsAssumption
  <2>2. slip' \in {"none", "stale", "misplaced"}
    BY <1>7, SlipType DEF IInv, Typed, Learned
  <2> QED
    BY <1>2, <1>7, <2>1, <2>2 DEF IInv, Typed, Learned
<1>8. ASSUME NEW l \in lists, ListAnswered(l) \/ ListFails(l) PROVE Typed'
  BY <1>2, <1>8 DEF IInv, Typed, ListAnswered, ListFails
<1>9. CASE Drop \/ Reset
  BY <1>2, <1>9, LoseType DEF IInv, Typed, Drop, Reset
<1>10. CASE Connect \/ Join \/ LoadConversations
  BY <1>2, <1>10 DEF IInv, Typed, Connect, Join, LoadConversations, AskList
<1>11. CASE UNCHANGED vars
  BY <1>11 DEF IInv, Typed, vars
<1> QED
  BY <1>3, <1>4, <1>5, <1>6, <1>7, <1>8, <1>9, <1>10, <1>11 DEF Next
-----------------------------------------------------------------------------
LEMMA Inductive == Spec => []IInv
<1>1. Init => IInv
  <2> SUFFICES ASSUME Init PROVE IInv
    OBVIOUS
  <2>1. NoView \in ViewType /\ Unused \in ReqType /\ Unused.base = NoView
    BY DEF NoView, ViewType, Unused, ReqType, Phases
  <2>2. Typed
    BY <2>1, MsgsAssumption DEF Init, Typed
  <2>3. Requested
    BY <2>1, MsgsAssumption DEF Init, Requested, Unused, Sends
  <2>4. Held(Texts, Media) /\ InPlace
    BY <2>1, NoViewGood DEF Init, Held, InPlace
  <2> QED
    BY <2>2, <2>3, <2>4 DEF IInv
<1>2. IInv /\ [Next]_vars => IInv'
  BY StepEffect, HeldStep, TypedStep DEF IInv, Kept
<1> QED
  BY <1>1, <1>2, PTL DEF Spec

\* A text is shown once, whichever of its answer, its event and a load is first.
THEOREM Typing == Spec => []TypeOK
<1>1. IInv => TypeOK
  BY DEF IInv, Typed, Held, Good, Once, ViewType, ItemType, Media, TypeOK
<1> QED
  BY Inductive, <1>1, PTL

\* Only messages of the active conversation are shown, until a reload after a
\* reconnect is answered while another conversation is active.
THEOREM InItsConversation == Spec => []OfActive
<1>1. IInv => OfActive
  BY DEF IInv, InPlace, OnlyOf, OfActive
<1> QED
  BY Inductive, <1>1, PTL
-----------------------------------------------------------------------------
(* Nothing of what the server has is left behind *)

\* A load that is under way and will be shown, and in it the message.
Covers(r, m) ==
    /\ req[r].kind \in {"load", "reload"} /\ req[r].conv = m.conv /\ Current(r)
    /\ \/ req[r].phase = "asked"
       \/ req[r].phase \in {"answering", "naming"} /\ m \in req[r].snap

\* A load of the screen that will not be shown any more.
Superseded(c) ==
    \E q \in Reqs : /\ req[q].kind = "load" /\ req[q].conv = c /\ req[q].phase # "done"
                    /\ req[q].gen < gens[c]

\* A reload is waited for only where it superseded a load: its failure is a slip then.
Awaited(m) == \E r \in Reqs : Covers(r, m) /\ (req[r].kind = "load" \/ Superseded(m.conv))

Among(items, m) == \E i \in items : i.msg = m

Has(v, m) == Among(v.shown, m)

Pursues(m) == Has(view, m) \/ event[m] = "coming" \/ Awaited(m)

\* A message of the active conversation is shown, or its event or a load that has
\* it is under way, or its event was lost.
Pursued ==
    slip = "none" => \A m \in stored \ missed : m.conv = view.active => Pursues(m)

LEMMA SlipStays == [Next]_vars => (slip' = "none" => slip = "none")
BY DEF Next, vars, Request, Answer, Open, Reconnect, Send, ServeSend, ServeRead,
       Ignore, LoadAnswered, AskName, Named, ReloadAnswered, SendAnswered, ReadFails, SendFails,
       PeerSends, Receive, Learned, LearnFails, ListAnswered, ListFails, Drop, Connect, Join, Reset,
       LoadConversations, Stale

LEMMA MergeHas ==
    ASSUME NEW new \in SUBSET ItemType, NEW old \in SUBSET ItemType, NEW m,
           Among(new \cup old, m)
    PROVE  Among(Merge(new, old), m)
<1>1. CASE \E i \in new : i.msg = m
  BY <1>1 DEF Merge, Among
<1>2. ASSUME NEW i \in old, i.msg = m, ~\E j \in new : j.msg = m
      PROVE  Among(Merge(new, old), m)
  <2> DEFINE k == IF i.status = "sent" THEN [i EXCEPT !.bubble = FALSE] ELSE i
  <2>1. i \in ItemType
    OBVIOUS
  <2>2. k.msg = m
    BY <1>2, <2>1 DEF ItemType
  <2>3. \A j \in new : <<k.msg, k.bubble>> # <<j.msg, j.bubble>>
    BY <1>2, <2>2
  <2>4. k \in Merge(new, old)
    BY <2>3 DEF Merge
  <2> QED
    BY <2>2, <2>4 DEF Among
<1> QED
  BY <1>1, <1>2 DEF Among

\* A step of the request r that keeps what it is waited for.
LEMMA RoleKept ==
    ASSUME NEW r \in Reqs, NEW m, Awaited(m),
           \A q \in Reqs \ {r} : req'[q] = req[q], UNCHANGED gens,
           req[r].kind = "load" /\ req[r].phase # "done" /\ req[r].gen < gens[req[r].conv]
              => /\ req'[r].kind = "load" /\ req'[r].conv = req[r].conv
                 /\ req'[r].phase # "done" /\ req'[r].gen < gens[req[r].conv],
           Covers(r, m) => Covers(r, m)' /\ req'[r].kind = req[r].kind
    PROVE  Awaited(m)'
<1>1. Superseded(m.conv) => Superseded(m.conv)'
  BY DEF Superseded
<1>2. PICK w \in Reqs : Covers(w, m) /\ (req[w].kind = "load" \/ Superseded(m.conv))
  BY DEF Awaited
<1>3. Covers(w, m)' /\ req'[w].kind = req[w].kind
  BY <1>2 DEF Covers, Current
<1> QED
  BY <1>1, <1>2, <1>3 DEF Awaited

\* Steps that are about no load.
LEMMA SameAwaited ==
    ASSUME NEW m, UNCHANGED <<req, gens>>, Awaited(m)
    PROVE  Awaited(m)'
BY DEF Awaited, Covers, Superseded, Current

LEMMA NoActive ==
    ASSUME view' = NoView, stored' \subseteq Msgs
    PROVE  Pursued'
BY MsgsAssumption DEF Pursued, NoView

LEMMA OpenPursued ==
    ASSUME IInv, NEW r \in Reqs, NEW c \in Convs, Open(r, c)
    PROVE  Pursued'
<1> SUFFICES ASSUME NEW m \in stored, m.conv = c PROVE Awaited(m)'
  BY DEF Open, Pursued, Pursues
<1>1. /\ gens'[c] = gens[c] + 1 /\ req'[r].kind = "load" /\ req'[r].conv = c
      /\ req'[r].gen = gens[c] + 1 /\ req'[r].phase = "asked"
  BY DEF Open, Ask, Unused, IInv, Typed, Requested
<1> QED
  BY <1>1 DEF Awaited, Covers, Current

LEMMA ReconnectPursued ==
    ASSUME IInv, Pursued, NEW r \in Reqs, Reconnect(r)
    PROVE  Pursued'
<1> SUFFICES ASSUME slip = "none", NEW m \in stored \ missed, m.conv = view.active
             PROVE  Pursues(m)'
  BY DEF Reconnect, Pursued
<1>1. Pursues(m) /\ m.conv \in Convs /\ m.conv # NoConv
  BY MsgsAssumption DEF Pursued, IInv, Typed
<1>2. UNCHANGED <<view, event>>
  BY DEF Reconnect
<1>3. ASSUME Awaited(m) PROVE Awaited(m)'
  <2> DEFINE c == m.conv
  <2>1. /\ Ask(r, "reload", c, NoMsg, gens[c] + 1) /\ gens' = [gens EXCEPT ![c] = @ + 1]
    BY <1>1 DEF Reconnect
  <2>2. /\ gens'[c] = gens[c] + 1 /\ gens[c] \in Nat
        /\ req'[r].kind = "reload" /\ req'[r].conv = c
        /\ req'[r].gen = gens[c] + 1 /\ req'[r].phase = "asked"
        /\ req[r].kind = "none" /\ \A q \in Reqs \ {r} : req'[q] = req[q]
    BY <1>1, <2>1 DEF Ask, Unused, IInv, Typed, Requested
  <2>3. Covers(r, m)'
    BY <2>2 DEF Covers, Current
  <2>4. PICK w \in Reqs : Covers(w, m) /\ (req[w].kind = "load" \/ Superseded(c))
    BY <1>3 DEF Awaited
  <2>5. PICK q \in Reqs : /\ req[q].kind = "load" /\ req[q].conv = c /\ req[q].phase # "done"
                          /\ req[q].gen <= gens[c] /\ req[q].gen \in Nat
    <3>1. CASE req[w].kind = "load"
      BY <2>2, <2>4, <3>1 DEF Covers, Current
    <3>2. CASE Superseded(c)
      <4>1. PICK q \in Reqs : /\ req[q].kind = "load" /\ req[q].conv = c /\ req[q].phase # "done"
                              /\ req[q].gen < gens[c]
        BY <3>2 DEF Superseded
      <4>2. req[q].gen \in Nat
        BY DEF IInv, Requested, ReqType
      <4> QED
        BY <2>2, <4>1, <4>2
    <3> QED
      BY <2>4, <3>1, <3>2
  <2>6. req'[q] = req[q] /\ req[q].gen < gens'[c]
    BY <2>2, <2>5
  <2>7. Superseded(c)'
    BY <2>5, <2>6 DEF Superseded
  <2> QED
    BY <2>3, <2>7 DEF Awaited
<1> QED
  BY <1>1, <1>2, <1>3 DEF Pursues, Has


\* What is shown of the active conversation stays shown.
LEMMA StillShown ==
    ASSUME Pursued, slip = "none", NEW m \in stored \ missed, m.conv = view.active,
           Has(view, m) => Has(view', m), event[m] = "coming" => event'[m] = "coming",
           Awaited(m) => Awaited(m)' \/ Has(view', m)
    PROVE  Pursues(m)'
BY DEF Pursued, Pursues, Has

\* The steps of a request that is no load.
LEMMA SendRole ==
    ASSUME IInv, NEW r \in Reqs, NEW m, Awaited(m), UNCHANGED gens,
           req[r].kind \notin {"load", "reload"}, \A q \in Reqs \ {r} : req'[q] = req[q]
    PROVE  Awaited(m)'
BY RoleKept DEF Covers

LEMMA StorePursued ==
    ASSUME Pursued, UNCHANGED <<view, slip>>, NEW k \in Msgs, Store(k), IInv,
           \A m \in Msgs : Awaited(m) => Awaited(m)'
    PROVE  Pursued'
<1> SUFFICES ASSUME slip = "none", NEW m \in stored' \ missed', m.conv = view.active
             PROVE  Pursues(m)'
  BY DEF Pursued
<1>1. stored \subseteq Msgs /\ stored' = stored \cup {k} /\ event \in [Msgs -> {"none", "coming", "learning", "over"}]
  BY DEF IInv, Typed, Store
<1>2. CASE m = k
  BY <1>1, <1>2 DEF Store, Pursues
<1>3. CASE m # k
  <2>1. m \in stored \ missed /\ event'[m] = event[m] /\ m \in Msgs
    BY <1>1, <1>3 DEF Store
  <2> QED
    BY <2>1, StillShown
<1> QED
  BY <1>2, <1>3

LEMMA SendPursued ==
    ASSUME IInv, Pursued, NEW r \in Reqs, NEW kind \in Sends, NEW k \in Msgs, Send(r, kind, k)
    PROVE  Pursued'
<1> SUFFICES ASSUME slip = "none", NEW m \in stored \ missed, m.conv = view'.active
             PROVE  Pursues(m)'
  BY DEF Pursued, Send
<1>1. view \in ViewType /\ view.shown \in SUBSET ItemType
  BY DEF IInv, Held, Good, ViewType
<1>2. view'.active = view.active /\ UNCHANGED <<event, gens>>
  BY <1>1 DEF Send, ViewType
<1>3. ASSUME Has(view, m) PROVE Has(view', m)
  <2>1. CASE view' = view
    BY <1>3, <2>1
  <2>2. CASE view' = [view EXCEPT !.shown = Merge({Item(k, FALSE, "sending")}, @)]
    <3>1. {Item(k, FALSE, "sending")} \in SUBSET ItemType
      BY DEF Item, ItemType
    <3>2. Among({Item(k, FALSE, "sending")} \cup view.shown, m)
      BY <1>3 DEF Has, Among
    <3>3. Among(Merge({Item(k, FALSE, "sending")}, view.shown), m)
      BY <1>1, <3>1, <3>2, MergeHas
    <3> QED
      BY <1>1, <2>2, <3>3 DEF Has, ViewType
  <2>3. CASE view' = [view EXCEPT !.shown = @ \cup {Item(k, TRUE, "sending")}]
    BY <1>1, <1>3, <2>3 DEF Has, Among, ViewType
  <2> QED
    BY <2>1, <2>2, <2>3 DEF Send
<1>4. ASSUME Awaited(m) PROVE Awaited(m)'
  <2>1. req[r].kind = "none" /\ \A q \in Reqs \ {r} : req'[q] = req[q]
    BY DEF Send, Ask, IInv, Requested, Unused
  <2> QED
    BY <1>2, <1>4, <2>1, SendRole
<1> QED
  BY <1>2, <1>3, <1>4, StillShown

LEMMA ServePursued ==
    ASSUME IInv, Pursued, NEW r \in Reqs, ServeSend(r) \/ ServeRead(r) \/ AskName(r)
    PROVE  Pursued'
<1>0. req \in [Reqs -> ReqType]
  BY DEF IInv, Requested
<1>1. CASE ServeSend(r)
  <2>1. /\ req[r].kind \in Sends /\ req[r].msg \in Msgs /\ \A q \in Reqs \ {r} : req'[q] = req[q]
    BY <1>0, <1>1 DEF ServeSend, IInv, Requested
  <2>2. \A m \in Msgs : Awaited(m) => Awaited(m)'
    BY <1>1, <2>1, SendRole DEF ServeSend, Sends
  <2> QED
    BY <1>1, <2>1, <2>2, StorePursued DEF ServeSend
<1>2. CASE ServeRead(r) \/ AskName(r)
  <2>1. /\ UNCHANGED <<view, stored, event, gens, slip, missed>>
        /\ \A q \in Reqs \ {r} : req'[q] = req[q]
        /\ req'[r].kind = req[r].kind /\ req'[r].conv = req[r].conv /\ req'[r].gen = req[r].gen
        /\ req'[r].phase \in {"answering", "naming"}
        /\ ServeRead(r) => req[r].phase = "asked" /\ req'[r].snap = {m \in stored : m.conv = req[r].conv}
        /\ AskName(r) => req[r].phase = "answering" /\ req'[r].snap = req[r].snap
    BY <1>0, <1>2 DEF ServeRead, AskName, ReqType
  <2> SUFFICES ASSUME slip = "none", NEW m \in stored \ missed, m.conv = view.active
               PROVE  Pursues(m)'
    BY <2>1 DEF Pursued
  <2>2. Covers(r, m) => Covers(r, m)'
    BY <1>2, <2>1 DEF Covers, Current
  <2>3. Awaited(m) => Awaited(m)'
    BY <2>1, <2>2, RoleKept
  <2> QED
    BY <2>1, <2>3, StillShown
<1> QED
  BY <1>1, <1>2

\* The answer of a load shows what it has, and what was shown.
LEMMA LoadHas ==
    ASSUME IInv, NEW r \in Reqs, NEW m, view.active = req[r].conv,
           m \in req[r].snap \/ Has(view, m)
    PROVE  Among(Merge(Loaded(r), Shown(view, req[r].conv)), m)
<1>1. view.shown \in SUBSET ItemType /\ req[r].snap \in SUBSET Msgs
  BY DEF IInv, Held, Good, ViewType, Requested, ReqType
<1>2. Loaded(r) \in SUBSET ItemType
  BY <1>1, MainGood DEF Loaded
<1>3. Shown(view, req[r].conv) = view.shown
  BY DEF Shown
<1>4. ASSUME m \in req[r].snap PROVE \E i \in Loaded(r) : i.msg = m
  <2>1. Main(m) \in Loaded(r)
    BY <1>4 DEF Loaded
  <2>2. Main(m).msg = m
    BY DEF Main, Item
  <2> QED
    BY <2>1, <2>2
<1>5. Among(Loaded(r) \cup view.shown, m)
  BY <1>4 DEF Has, Among
<1>6. Among(Merge(Loaded(r), view.shown), m)
  BY <1>1, <1>2, <1>5, MergeHas
<1> QED
  BY <1>3, <1>6

LEMMA LoadedPursued ==
    ASSUME IInv, Pursued, NEW r \in Reqs, LoadAnswered(r) \/ Named(r) \/ ReloadAnswered(r)
    PROVE  Pursued'
<1> SUFFICES ASSUME slip' = "none", NEW m \in stored' \ missed', m.conv = view'.active
             PROVE  Pursues(m)'
  BY DEF Pursued
<1> DEFINE c == req[r].conv
<1>1. /\ slip = "none" /\ view.active = c /\ Current(r) /\ missed' = missed \ req[r].snap
      /\ UNCHANGED <<stored, event, gens>>
  BY DEF LoadAnswered, Named, ReloadAnswered, Stale
<1>2. view'.active = c /\ view'.shown = Merge(Loaded(r), Shown(view, c))
  <2>1. CASE LoadAnswered(r)
    BY <2>1 DEF LoadAnswered, AfterLoad
  <2>2. CASE Named(r)
    <3>1. req[r].base = view
      BY <2>2 DEF Named, Stale
    <3> QED
      BY <2>2, <3>1 DEF Named, AfterLoad
  <2>3. CASE ReloadAnswered(r)
    <3>1. view \in ViewType
      BY DEF IInv, Held, Good
    <3> QED
      BY <1>1, <2>3, <3>1 DEF ReloadAnswered, ViewType
  <2> QED
    BY <2>1, <2>2, <2>3
<1>3. Has(view, m) \/ m \in req[r].snap => Has(view', m)
  BY <1>1, <1>2, LoadHas DEF Has
<1>4. CASE m \in req[r].snap
  BY <1>3, <1>4 DEF Pursues, Has
<1>5. CASE m \notin req[r].snap
  <2>1. m \in stored \ missed /\ m.conv = view.active
    BY <1>1, <1>2, <1>5
  <2>2. \A q \in Reqs \ {r} : req'[q] = req[q]
    BY DEF LoadAnswered, Named, ReloadAnswered, Done, IInv, Requested
  <2>3. ~Covers(r, m)
    <3>1. req[r].phase # "asked"
      BY DEF LoadAnswered, Named, ReloadAnswered
    <3> QED
      BY <1>5, <3>1 DEF Covers
  <2>4. ~(req[r].gen < gens[c])
    <3>1. req[r].gen = gens[c] /\ req[r].gen \in Nat
      BY <1>1 DEF Current, IInv, Requested, ReqType
    <3> QED
      BY <3>1
  <2>5. Awaited(m) => Awaited(m)'
    BY <1>1, <2>2, <2>3, <2>4, RoleKept
  <2> QED
    BY <1>1, <1>3, <2>1, <2>5, StillShown
<1> QED
  BY <1>4, <1>5

LEMMA FailPursued ==
    ASSUME IInv, Pursued, NEW r \in Reqs, Ignore(r) \/ ReadFails(r)
    PROVE  Pursued'
<1>0. req \in [Reqs -> ReqType] /\ stored \subseteq Msgs
  BY DEF IInv, Typed, Requested
<1>1. CASE view' = NoView
  BY <1>0, <1>1, NoActive DEF Ignore, ReadFails
<1>2. CASE view' # NoView
  <2> SUFFICES ASSUME slip' = "none", NEW m \in stored \ missed, m.conv = view'.active
               PROVE  Pursues(m)'
    BY DEF Pursued, Ignore, ReadFails
  <2>1. /\ slip = "none" /\ view' = view /\ UNCHANGED <<event, gens>>
        /\ ~(req[r].kind = "load" /\ Current(r))
    BY <1>2 DEF Ignore, ReadFails, Stale
  <2>2. /\ \A q \in Reqs \ {r} : req'[q] = req[q]
        /\ req'[r].kind = req[r].kind /\ req'[r].conv = req[r].conv /\ req'[r].gen = 0
        /\ req'[r].phase = "ignored"
    BY <1>0 DEF Ignore, ReadFails, GiveUp, Ended, ReqType
  <2>3. /\ req[r].gen \in Nat
        /\ req[r].kind = "load" /\ req[r].gen < gens[req[r].conv] => 0 < gens[req[r].conv]
    <3>1. req[r].gen \in Nat /\ req[r].conv \in Convs \cup {NoConv} /\ gens \in [Convs -> Nat]
      BY <1>0 DEF ReqType, IInv, Typed
    <3>2. CASE req[r].conv \in Convs
      BY <3>1, <3>2
    <3>3. req[r].kind = "load" => req[r].conv \in Convs
      BY DEF IInv, Requested
    <3> QED
      BY <3>1, <3>2, <3>3
  <2>4. ASSUME Awaited(m) PROVE Awaited(m)'
    <3>1. CASE ~Covers(r, m)
      BY <2>1, <2>2, <2>3, <2>4, <3>1, RoleKept
    <3>2. CASE Covers(r, m)
      <4>1. req[r].kind = "reload" /\ Current(r) /\ req[r].conv = m.conv
        BY <2>1, <3>2 DEF Covers
      <4>2. \A q \in Reqs : ~(req[q].kind = "load" /\ req[q].conv = m.conv /\ req[q].phase # "done")
        BY <2>1, <4>1 DEF Ignore, ReadFails, Stale
      <4>3. ~Superseded(m.conv)
        BY <4>2 DEF Superseded
      <4>4. PICK w \in Reqs : Covers(w, m) /\ req[w].kind = "load"
        BY <2>4, <4>3 DEF Awaited
      <4> QED
        BY <4>2, <4>4 DEF Covers
    <3> QED
      BY <3>1, <3>2
  <2> QED
    BY <2>1, <2>4, StillShown
<1> QED
  BY <1>1, <1>2

\* The answer or the failure of a send changes how its message is shown.
LEMMA SentPursued ==
    ASSUME IInv, Pursued, NEW r \in Reqs, SendAnswered(r) \/ SendFails(r)
    PROVE  Pursued'
<1>1. view \in ViewType /\ view.shown \in SUBSET ItemType
  BY DEF IInv, Held, Good, ViewType
<1>2. /\ view'.active = view.active /\ UNCHANGED <<stored, missed, event, gens, slip>>
      /\ req[r].kind \notin {"load", "reload"} /\ req[r].msg \in Msgs
  BY <1>1 DEF SendAnswered, SendFails, Sends, ViewType, IInv, Requested
<1>3. \A q \in Reqs \ {r} : req'[q] = req[q]
  BY DEF SendAnswered, SendFails, Done, GiveUp, IInv, Requested
<1> SUFFICES ASSUME slip = "none", NEW m \in stored \ missed, m.conv = view.active
             PROVE  Pursues(m)'
  BY <1>2 DEF Pursued
<1>4. ASSUME Has(view, m) PROVE Has(view', m)
  <2>1. PICK i \in view.shown : i.msg = m
    BY <1>4 DEF Has, Among
  <2>2. i \in ItemType
    BY <1>1
  <2>3. CASE view' = view
    BY <1>4, <2>3
  <2>4. CASE SendAnswered(r) /\ view' # view /\ req[r].kind = "text"
    <3>1. view' = [view EXCEPT !.shown = Merge({Main(req[r].msg)}, @)]
      BY <2>4 DEF SendAnswered
    <3>2. {Main(req[r].msg)} \in SUBSET ItemType
      BY <1>2 DEF Main, Item, ItemType
    <3>3. Among({Main(req[r].msg)} \cup view.shown, m)
      BY <2>1 DEF Among
    <3>4. Among(Merge({Main(req[r].msg)}, view.shown), m)
      BY <1>1, <3>2, <3>3, MergeHas
    <3> QED
      BY <1>1, <3>1, <3>4 DEF Has, ViewType
  <2>5. CASE SendAnswered(r) /\ view' # view /\ req[r].kind # "text"
    <3> DEFINE j == IF i.msg = req[r].msg /\ i.bubble THEN [i EXCEPT !.status = "sent"] ELSE i
    <3>1. j \in view'.shown
      BY <1>1, <2>1, <2>5 DEF SendAnswered, ViewType
    <3>2. j.msg = m
      BY <2>1, <2>2 DEF ItemType
    <3> QED
      BY <3>1, <3>2 DEF Has, Among
  <2>6. CASE SendFails(r) /\ view' # view
    <3> DEFINE j == IF i.msg = req[r].msg /\ (req[r].kind = "text" \/ i.bubble)
                    THEN [i EXCEPT !.status = "failed"] ELSE i
    <3>1. j \in view'.shown
      BY <1>1, <2>1, <2>6 DEF SendFails, ViewType
    <3>2. j.msg = m
      BY <2>1, <2>2 DEF ItemType
    <3> QED
      BY <3>1, <3>2 DEF Has, Among
  <2> QED
    BY <2>3, <2>4, <2>5, <2>6
<1>5. Awaited(m) => Awaited(m)'
  BY <1>2, <1>3, SendRole
<1> QED
  BY <1>2, <1>4, <1>5, StillShown

LEMMA ReceivePursued ==
    ASSUME IInv, Pursued, NEW k \in Msgs, Receive(k)
    PROVE  Pursued'
<1>1. view \in ViewType /\ view.shown \in SUBSET ItemType
  BY DEF IInv, Held, Good, ViewType
<1>2. /\ view'.active = view.active /\ UNCHANGED <<stored, missed, gens, slip, req>>
      /\ \A m \in Msgs \ {k} : event'[m] = event[m]
  BY <1>1 DEF Receive, Told, ViewType, IInv, Typed
<1> SUFFICES ASSUME slip = "none", NEW m \in stored \ missed, m.conv = view.active
             PROVE  Pursues(m)'
  BY <1>2 DEF Pursued
<1>3. {Main(k)} \in SUBSET ItemType /\ Main(k).msg = k
  BY DEF Main, Item, ItemType
<1>4. Has(view, m) \/ m = k => Has(view', m)
  <2>1. CASE view.active = k.conv
    <3>1. view'.shown = Merge({Main(k)}, view.shown)
      BY <1>1, <2>1 DEF Receive, Told, ViewType
    <3>2. Has(view, m) \/ m = k => Among({Main(k)} \cup view.shown, m)
      BY <1>3 DEF Has, Among
    <3>3. Has(view, m) \/ m = k => Among(Merge({Main(k)}, view.shown), m)
      BY <1>1, <1>3, <3>2, MergeHas
    <3> QED
      BY <3>1, <3>3 DEF Has
  <2>2. CASE view.active # k.conv
    BY <2>2 DEF Receive, Told
  <2> QED
    BY <2>1, <2>2
<1>5. Awaited(m) => Awaited(m)'
  BY <1>2, SameAwaited
<1>6. CASE m = k
  BY <1>4, <1>6 DEF Pursues, Has
<1>7. CASE m # k
  <2>1. m \in Msgs
    BY DEF IInv, Typed
  <2> QED
    BY <1>2, <1>4, <1>5, <1>7, <2>1, StillShown
<1> QED
  BY <1>6, <1>7

LEMMA LearnPursued ==
    ASSUME IInv, Pursued, NEW k \in Msgs, Learned(k) \/ LearnFails(k)
    PROVE  Pursued'
<1>1. /\ UNCHANGED <<stored, missed, gens, req>> /\ event[k] = "learning"
      /\ \A m \in Msgs \ {k} : event'[m] = event[m]
  BY DEF Learned, LearnFails, IInv, Typed
<1>2. slip' = "none" => slip = "none" /\ view' = view
  BY DEF Learned, LearnFails, Stale
<1> SUFFICES ASSUME slip' = "none", NEW m \in stored \ missed, m.conv = view.active
             PROVE  Pursues(m)'
  BY <1>1, <1>2 DEF Pursued
<1>3. m \in Msgs /\ (event[m] = "coming" => event'[m] = "coming")
  BY <1>1 DEF IInv, Typed
<1>4. Awaited(m) => Awaited(m)'
  BY <1>1, SameAwaited
<1> QED
  BY <1>2, <1>3, <1>4, StillShown

LEMMA RestPursued ==
    ASSUME IInv, Pursued,
           \/ \E l \in lists : ListAnswered(l) \/ ListFails(l)
           \/ Drop \/ Connect \/ Join \/ Reset \/ LoadConversations \/ UNCHANGED vars
    PROVE  Pursued'
<1>1. view' \in {view, NoView} /\ UNCHANGED <<stored, req, slip>> /\ stored \subseteq Msgs
  BY DEF IInv, Typed, ListAnswered, ListFails, Drop, Connect, Join, Reset, LoadConversations, vars
<1>2. CASE view' = NoView
  BY <1>1, <1>2, NoActive
<1>3. CASE view' = view /\ ~Reset
  <2>1. UNCHANGED gens
    BY <1>3 DEF ListAnswered, ListFails, Drop, Connect, Join, LoadConversations, AskList, vars
  <2>2. missed \subseteq missed' /\ \A m \in Msgs \ missed' : event[m] = "coming" => event'[m] = "coming"
    BY <1>3 DEF ListAnswered, ListFails, Drop, LoseSome, Connect, Join, LoadConversations, vars
  <2> SUFFICES ASSUME slip = "none", NEW m \in stored \ missed', m.conv = view.active
               PROVE  Pursues(m)'
    BY <1>1, <1>3 DEF Pursued
  <2>3. Awaited(m) => Awaited(m)'
    BY <1>1, <2>1, SameAwaited
  <2>4. m \in stored \ missed /\ (event[m] = "coming" => event'[m] = "coming")
    BY <1>1, <2>2
  <2> QED
    BY <1>3, <2>3, <2>4, StillShown
<1>4. CASE Reset
  BY <1>1, <1>4, NoActive DEF Reset
<1> QED
  BY <1>1, <1>2, <1>3, <1>4

LEMMA PursuedStep == IInv /\ Pursued /\ [Next]_vars => Pursued'
<1> SUFFICES ASSUME IInv, Pursued, [Next]_vars PROVE Pursued'
  OBVIOUS
<1>1. ASSUME NEW r \in Reqs, Request(r) \/ Answer(r) PROVE Pursued'
  BY <1>1, OpenPursued, ReconnectPursued, SendPursued, ServePursued, LoadedPursued, FailPursued,
     SentPursued DEF Request, Answer
<1>2. ASSUME NEW m \in Msgs, PeerSends(m) PROVE Pursued'
  <2>1. Store(m) /\ UNCHANGED <<view, slip, req, gens>>
    BY <1>2 DEF PeerSends
  <2>2. \A k \in Msgs : Awaited(k) => Awaited(k)'
    BY <2>1, SameAwaited
  <2> QED
    BY <2>1, <2>2, StorePursued
<1> QED
  BY <1>1, <1>2, ReceivePursued, LearnPursued, RestPursued DEF Next

\* When nothing is under way, the active conversation shows every message that the
\* server has but for lost events, as long as no handler slipped.
THEOREM NothingLeftBehind == Spec => []CaughtUp
<1>1. Init => Pursued
  BY DEF Init, Pursued
<1>2. IInv /\ Pursued => CaughtUp
  <2> SUFFICES ASSUME IInv, Pursued, slip = "none", Quiet,
                      NEW m \in stored \ missed, m.conv = view.active
               PROVE  \E i \in view.shown : i.msg = m
    BY DEF CaughtUp
  <2>1. Pursues(m) /\ m \in Msgs
    BY DEF Pursued, IInv, Typed
  <2>2. event[m] # "coming" /\ ~Awaited(m)
    BY <2>1 DEF Quiet, InFlight, Awaited, Covers
  <2> QED
    BY <2>1, <2>2 DEF Pursues, Has, Among
<1> QED
  BY <1>1, <1>2, Inductive, PursuedStep, PTL DEF Spec
=============================================================================
