-------------------------- MODULE PriceCacheProofs --------------------------
(***************************************************************************)
(* What the price history promises to the commands that use it as a cache, *)
(* for any number of them, any items, currencies and lifetimes.            *)
(***************************************************************************)
EXTENDS PriceCache, TLAPS

\* An item with rows has a newest one, and no row is from the future.
HistoryInv ==
    /\ \A i \in Items : history[i] # {} => Latest(i, Any) # {}
    /\ \A i \in Items : \A r \in history[i] : r.at <= now

\* At some time before t, the newest row of the item was at least as new as
\* every row p has fetched for it, and had outlived its lifetime.
Expired(p, t) ==
    \A r \in history[Item(p)] : r.by = p =>
        \E x \in history[Item(p)] : r.at <= x.at /\ x.at + x.ttl < t

\* A refresher that is not forced asks only then, and what it has in hand is
\* its own, and newer than the rows it has stored.
AskFor(p) ==
    /\ p \in Refreshers => began[p] <= now
    /\ pc[p] \in {"check", "ask"} => p \in Refreshers
    /\ pc[p] = "ask" /\ p \notin Forced => Expired(p, now)
    /\ pc[p] = "store" =>
         /\ got[p].by = p /\ got[p].at <= now
         /\ p \in Refreshers => began[p] <= got[p].at
    /\ pc[p] = "store" /\ p \in Refreshers \ Forced =>
         /\ Expired(p, got[p].at)
         /\ \A r \in history[Item(p)] : r.by = p => r.at < got[p].at

AskInv == \A p \in Procs : AskFor(p)

CacheInv == TypeOK /\ HistoryInv /\ AskInv /\ CacheSpares /\ ServedIsFresh

-----------------------------------------------------------------------------
(* Appending a row.                                                        *)

\* An answer of latest_price is at most replaced by a newer one.
LEMMA AppendKeeps ==
    ASSUME TypeOK, NEW i \in Items, NEW x \in Rows, NEW c,
           history'[i] = history[i] \cup {x}, NEW r \in Latest(i, c)
    PROVE  \E s \in Latest(i, c)' : s.at >= r.at
<1>1. \A s \in history[i] \cup {x} : s.at \in Nat
  BY DEF TypeOK, Rows
<1>2. r \in history[i] /\ (c = Any \/ (r.ask /\ r.cur = c))
      /\ \A s \in history[i] : (c = Any \/ (s.ask /\ s.cur = c)) => s.at <= r.at
  BY DEF Latest
<1>3. CASE (c = Any \/ (x.ask /\ x.cur = c)) /\ x.at >= r.at
  <2>1. x \in Latest(i, c)'
    BY <1>1, <1>2, <1>3 DEF Latest
  <2> QED
    BY <2>1, <1>3
<1>4. CASE ~((c = Any \/ (x.ask /\ x.cur = c)) /\ x.at >= r.at)
  <2>1. r \in Latest(i, c)'
    BY <1>1, <1>2, <1>4 DEF Latest
  <2>2. r.at >= r.at
    BY <1>1, <1>2
  <2> QED
    BY <2>1, <2>2
<1> QED
  BY <1>3, <1>4

\* After an append the newest row is at least as new as the one appended.
LEMMA AppendAnswers ==
    ASSUME TypeOK, HistoryInv, NEW i \in Items, NEW x \in Rows,
           history'[i] = history[i] \cup {x}
    PROVE  \E s \in Latest(i, Any)' : s.at >= x.at
<1>1. \A s \in history[i] \cup {x} : s.at \in Nat
  BY DEF TypeOK, Rows
<1>2. CASE history[i] = {}
  BY <1>1, <1>2 DEF Latest
<1>3. CASE history[i] # {}
  <2>1. PICK r \in Latest(i, Any) : TRUE
    BY <1>3 DEF HistoryInv
  <2>2. r \in history[i] /\ \A s \in history[i] : s.at <= r.at
    BY <2>1 DEF Latest
  <2>3. CASE x.at >= r.at
    <3>1. x \in Latest(i, Any)'
      BY <1>1, <2>2, <2>3 DEF Latest
    <3> QED
      BY <3>1, <1>1
  <2>4. CASE ~(x.at >= r.at)
    <3>1. r \in Latest(i, Any)' /\ r.at >= x.at
      BY <1>1, <2>2, <2>4 DEF Latest
    <3> QED
      BY <3>1
  <2> QED
    BY <2>3, <2>4
<1> QED
  BY <1>2, <1>3

-----------------------------------------------------------------------------
(* Steps that leave the history alone.                                     *)

LEMMA SameLatest ==
    ASSUME UNCHANGED history, NEW i, NEW c PROVE Latest(i, c)' = Latest(i, c)
  BY DEF Latest

\* Time and the reading steps: nothing that has been promised is undone.
LEMMA QuietInv ==
    ASSUME CacheInv, TypeOK', UNCHANGED history, now' >= now, AskInv',
           \A p \in Refreshers :
             \/ UNCHANGED <<began[p], served[p]>>
             \/ served'[p] = {}
             \/ /\ pc[p] = "check" /\ todo[p] # <<>> /\ Fresh(Item(p))
                /\ served'[p] = served[p] \cup {Item(p)}
                /\ UNCHANGED began[p]
    PROVE  CacheInv'
<1>0. now \in Nat /\ now' \in Nat /\ ShortTTL \in Nat /\ LongTTL \in Nat
      /\ ShortTTL <= LongTTL
  BY CacheAssumption DEF CacheInv, TypeOK
<1>1. HistoryInv'
  <2>1. \A i \in Items : Latest(i, Any)' = Latest(i, Any)
    BY SameLatest
  <2>2. \A i \in Items : \A r \in history[i] : r.at \in Nat
    BY DEF CacheInv, TypeOK, Rows
  <2> QED
    BY <1>0, <2>1, <2>2 DEF CacheInv, HistoryInv
<1>2. CacheSpares'
  BY DEF CacheInv, CacheSpares
<1>3. ServedIsFresh'
  <2> SUFFICES ASSUME NEW p \in Refreshers, NEW i \in served'[p]
               PROVE  \E r \in Latest(i, Any)' : r.at + LongTTL >= began'[p]
    BY DEF ServedIsFresh
  <2>1. Latest(i, Any)' = Latest(i, Any)
    BY SameLatest
  <2>2. CASE i \in served[p] /\ began'[p] = began[p]
    BY <2>1, <2>2 DEF CacheInv, ServedIsFresh
  <2>3. CASE /\ pc[p] = "check" /\ todo[p] # <<>> /\ Fresh(Item(p))
             /\ i = Item(p) /\ UNCHANGED began[p]
    <3>1. p \in Procs /\ began[p] \in Nat /\ began[p] <= now
      BY DEF Procs, CacheInv, AskInv, AskFor, TypeOK
    <3>2. Item(p) \in Items
      BY <2>3, <3>1 DEF CacheInv, TypeOK, Item
    <3>3. PICK r \in Latest(i, Any) : now - r.at <= r.ttl
      BY <2>3 DEF Fresh
    <3>4. r \in history[i]
      BY <3>3 DEF Latest
    <3>5. r.at \in Nat /\ r.ttl \in {ShortTTL, LongTTL}
      BY <2>3, <3>2, <3>4 DEF CacheInv, TypeOK, Rows
    <3>6. r.at + LongTTL >= began[p]
      BY <1>0, <3>1, <3>3, <3>5
    <3> QED
      BY <2>1, <2>3, <3>3, <3>6
  <2> QED
    BY <2>2, <2>3
<1> QED
  BY <1>1, <1>2, <1>3 DEF CacheInv

\* A command that does not move keeps what holds for it while time passes.
LEMMA AskStays ==
    ASSUME CacheInv, UNCHANGED history, now' \in Nat, now' >= now, NEW q \in Procs,
           pc'[q] = pc[q], todo'[q] = todo[q], got'[q] = got[q], began'[q] = began[q]
    PROVE  AskFor(q)'
<1>1. AskFor(q) /\ now \in Nat /\ began[q] \in Nat /\ got[q] \in Rows
  BY DEF CacheInv, AskInv, TypeOK
<1>2. got[q].at \in Nat
  BY <1>1 DEF Rows
<1>3. Item(q)' = Item(q)
  BY DEF Item
<1>4. CASE pc[q] \notin {"ask", "store"}
  BY <1>1, <1>4 DEF AskFor
<1>5. CASE pc[q] \in {"ask", "store"}
  <2>1. Item(q) \in Items
    BY <1>5 DEF CacheInv, TypeOK, Item
  <2>2. \A r \in history[Item(q)] : r.at \in Nat /\ r.ttl \in Nat
    <3>1. history[Item(q)] \subseteq Rows
      BY <2>1 DEF CacheInv, TypeOK
    <3>2. \A r \in Rows : r.at \in Nat /\ r.ttl \in Nat
      BY CacheAssumption DEF Rows
    <3> QED
      BY <3>1, <3>2
  <2>3. Expired(q, now) => Expired(q, now)'
    BY <1>1, <1>3, <2>2 DEF Expired
  <2>4. Expired(q, got[q].at) => Expired(q, got[q].at)'
    BY <1>3 DEF Expired
  <2> QED
    BY <1>1, <1>2, <1>3, <2>3, <2>4 DEF AskFor
<1> QED
  BY <1>4, <1>5

\* A step of p that leaves the history alone and p outside the network and the
\* store.
LEMMA LeaveInv ==
    ASSUME CacheInv, TypeOK', UNCHANGED <<history, now>>, NEW p \in Procs,
           pc'[p] = "idle" \/ (pc'[p] = "check" /\ p \in Refreshers),
           \A q \in Procs \ {p} :
               /\ pc'[q] = pc[q] /\ todo'[q] = todo[q] /\ got'[q] = got[q]
               /\ began'[q] = began[q] /\ served'[q] = served[q],
           p \in Refreshers => began'[p] <= now,
           \/ UNCHANGED <<began[p], served[p]>>
           \/ served'[p] = {}
           \/ /\ pc[p] = "check" /\ todo[p] # <<>> /\ Fresh(Item(p))
              /\ served'[p] = served[p] \cup {Item(p)} /\ UNCHANGED began[p]
    PROVE  CacheInv'
<1>1. now \in Nat /\ now' >= now
  BY DEF CacheInv, TypeOK
<1>2. ASSUME NEW q \in Procs PROVE AskFor(q)'
  <2>1. CASE q = p
    BY <2>1 DEF AskFor
  <2>2. CASE q # p
    BY <1>1, <2>2, AskStays
  <2> QED
    BY <2>1, <2>2
<1>3. AskInv'
  BY <1>2 DEF AskInv
<1>4. \A q \in Refreshers :
        \/ UNCHANGED <<began[q], served[q]>>
        \/ served'[q] = {}
        \/ /\ pc[q] = "check" /\ todo[q] # <<>> /\ Fresh(Item(q))
           /\ served'[q] = served[q] \cup {Item(q)} /\ UNCHANGED began[q]
  BY DEF Procs
<1> QED
  BY <1>1, <1>3, <1>4, QuietInv

-----------------------------------------------------------------------------
(* The steps, one by one.                                                  *)

LEMMA InitCache == ASSUME Init PROVE CacheInv
<1>1. TypeOK
  <2>1. \A p \in Procs : Blank(p) \in Rows
    BY CacheAssumption DEF Blank, Rows
  <2> QED
    BY <2>1, CacheAssumption DEF Init, TypeOK
<1>2. HistoryInv /\ CacheSpares
  BY DEF Init, HistoryInv, CacheSpares
<1>3. AskInv
  BY DEF Init, AskInv, AskFor, Procs
<1>4. ServedIsFresh
  BY DEF Init, ServedIsFresh, Procs
<1> QED
  BY <1>1, <1>2, <1>3, <1>4 DEF CacheInv

LEMMA BeginStep == ASSUME CacheInv, NEW p \in Procs, Begin(p) PROVE CacheInv'
<1>1. PICK list \in ListsOf[p] : todo' = [todo EXCEPT ![p] = list]
  BY DEF Begin
<1>2. list \in Seq(Items) /\ now \in Nat
  <2>1. ListsOf[p] \in SUBSET (Seq(Items) \ {<<>>})
    BY CacheAssumption
  <2> QED
    BY <1>1, <2>1 DEF CacheInv, TypeOK
<1>3. TypeOK'
  BY <1>1, <1>2 DEF CacheInv, TypeOK, Begin, Goto
<1>4. UNCHANGED <<history, now>> /\ pc'[p] = "check" /\ p \in Refreshers
      /\ began'[p] = now /\ served'[p] = {}
  BY DEF CacheInv, TypeOK, Begin, Goto
<1>5. \A q \in Procs \ {p} :
        /\ pc'[q] = pc[q] /\ todo'[q] = todo[q] /\ got'[q] = got[q]
        /\ began'[q] = began[q] /\ served'[q] = served[q]
  BY DEF CacheInv, TypeOK, Begin, Goto
<1> QED
  BY <1>2, <1>3, <1>4, <1>5, LeaveInv

LEMMA SkipStep == ASSUME CacheInv, NEW p \in Procs, SkipCached(p) PROVE CacheInv'
<1>1. Item(p) \in Items /\ Tail(todo[p]) \in Seq(Items)
  BY DEF CacheInv, TypeOK, SkipCached, Item
<1>2. TypeOK'
  BY <1>1 DEF CacheInv, TypeOK, SkipCached, Serve
<1>3. /\ UNCHANGED <<history, now>> /\ pc'[p] = "check"
      /\ began'[p] = began[p] /\ pc[p] = "check" /\ todo[p] # <<>> /\ Fresh(Item(p))
      /\ served'[p] \in {served[p], served[p] \cup {Item(p)}}
  BY DEF CacheInv, TypeOK, SkipCached, Serve
<1>4. \A q \in Procs \ {p} :
        /\ pc'[q] = pc[q] /\ todo'[q] = todo[q] /\ got'[q] = got[q]
        /\ began'[q] = began[q] /\ served'[q] = served[q]
  BY DEF CacheInv, TypeOK, SkipCached, Serve
<1>5. p \in Refreshers /\ began'[p] <= now
  BY <1>3 DEF CacheInv, AskInv, AskFor
<1> QED
  BY <1>2, <1>3, <1>4, <1>5, LeaveInv

LEMMA UnavailableStep ==
    ASSUME CacheInv, NEW p \in Procs, Unavailable(p) PROVE CacheInv'
<1>1. Tail(todo[p]) \in Seq(Items)
  BY DEF CacheInv, TypeOK, Unavailable
<1>2. TypeOK'
  BY <1>1 DEF CacheInv, TypeOK, Unavailable, Goto
<1>3. UNCHANGED <<history, now>> /\ pc'[p] = "check" /\ UNCHANGED <<began, served>>
  BY DEF CacheInv, TypeOK, Unavailable, Goto
<1>4. \A q \in Procs \ {p} :
        /\ pc'[q] = pc[q] /\ todo'[q] = todo[q] /\ got'[q] = got[q]
        /\ began'[q] = began[q] /\ served'[q] = served[q]
  BY DEF CacheInv, TypeOK, Unavailable, Goto
<1>5. p \in Refreshers /\ began'[p] <= now
  BY <1>3 DEF CacheInv, AskInv, AskFor, Unavailable
<1> QED
  BY <1>2, <1>3, <1>4, <1>5, LeaveInv

\* A command that returns, is stopped or is killed.
LEMMA StopStep ==
    ASSUME CacheInv, NEW p \in Procs, Stop(p), UNCHANGED <<now, history>>
    PROVE  CacheInv'
<1>1. Blank(p) \in Rows /\ <<>> \in Seq(Items)
  BY CacheAssumption DEF Blank, Rows
<1>2. TypeOK'
  BY <1>1 DEF CacheInv, TypeOK, Stop, Goto
<1>3. pc'[p] = "idle" /\ began'[p] = 0 /\ served'[p] = {} /\ now \in Nat
  BY DEF CacheInv, TypeOK, Stop, Goto
<1>4. \A q \in Procs \ {p} :
        /\ pc'[q] = pc[q] /\ todo'[q] = todo[q] /\ got'[q] = got[q]
        /\ began'[q] = began[q] /\ served'[q] = served[q]
  BY DEF CacheInv, TypeOK, Stop, Goto
<1> QED
  BY <1>2, <1>3, <1>4, LeaveInv

LEMMA TickStep == ASSUME CacheInv, Tick PROVE CacheInv'
<1>1. now \in Nat /\ now' = now + 1 /\ now' \in 0..MaxClock
  BY CacheAssumption DEF CacheInv, TypeOK, Tick
<1>2. UNCHANGED <<history, pc, todo, got, began, served>>
  BY DEF Tick
<1>3. TypeOK'
  BY <1>1, <1>2 DEF CacheInv, TypeOK
<1>4. AskInv'
  BY <1>1, <1>2, AskStays DEF AskInv
<1> QED
  BY <1>1, <1>2, <1>3, <1>4, QuietInv

\* The request goes out when the newest row has outlived its lifetime.
LEMMA AskStep == ASSUME CacheInv, NEW p \in Procs, Ask(p) PROVE CacheInv'
<1>1. UNCHANGED <<now, history, todo, got, began, served>> /\ now \in Nat
      /\ todo[p] # <<>> /\ pc'[p] = "ask" /\ pc[p] = "check"
      /\ \A q \in Procs \ {p} : pc'[q] = pc[q]
  BY DEF CacheInv, TypeOK, Ask, Goto
<1>2. TypeOK'
  BY <1>1 DEF CacheInv, TypeOK, Ask, Goto
<1>3. AskFor(p)'
  <2>1. p \in Refreshers
    BY <1>1 DEF CacheInv, AskInv, AskFor
  <2>2. Item(p) \in Items /\ Item(p)' = Item(p)
    BY <1>1 DEF CacheInv, TypeOK, Item
  <2>3. CASE p \in Forced
    BY <1>1, <2>1, <2>3 DEF CacheInv, AskInv, AskFor
  <2>4. CASE p \notin Forced
    <3> SUFFICES Expired(p, now)'
      BY <1>1, <2>1 DEF CacheInv, AskInv, AskFor
    <3> SUFFICES ASSUME NEW r \in history[Item(p)]
                 PROVE  \E x \in history[Item(p)] : r.at <= x.at /\ x.at + x.ttl < now
      BY <1>1, <2>2 DEF Expired
    <3>1. PICK x \in Latest(Item(p), Any) : TRUE
      BY <2>2 DEF CacheInv, HistoryInv
    <3>2. x \in history[Item(p)] /\ r.at <= x.at
      BY <3>1 DEF Latest
    <3>3. ~(now - x.at <= x.ttl)
      BY <2>4, <3>1 DEF Ask, Fresh
    <3>4. history[Item(p)] \subseteq Rows
      BY <2>2 DEF CacheInv, TypeOK
    <3>5. x.at \in Nat /\ x.ttl \in Nat
      BY <3>2, <3>4, CacheAssumption DEF Rows
    <3> QED
      BY <1>1, <3>2, <3>3, <3>5
  <2> QED
    BY <2>3, <2>4
<1>4. AskInv'
  <2> SUFFICES ASSUME NEW q \in Procs PROVE AskFor(q)'
    BY DEF AskInv
  <2>1. CASE q = p
    BY <1>3, <2>1
  <2>2. CASE q # p
    BY <1>1, <2>2, AskStays
  <2> QED
    BY <2>1, <2>2
<1> QED
  BY <1>1, <1>2, <1>4, QuietInv

\* What a response is stamped with.
LEMMA StampTypes ==
    ASSUME CacheInv, NEW p \in Procs, NEW ttl \in {ShortTTL, LongTTL}, NEW ask \in BOOLEAN,
           Stamp(p, ttl, ask)
    PROVE  /\ now \in Nat /\ now' = now + 1 /\ now' \in 0..MaxClock
           /\ got' \in [Procs -> Rows] /\ got'[p].at = now' /\ got'[p].by = p
           /\ pc' \in [Procs -> {"idle", "check", "ask", "store"}] /\ pc'[p] = "store"
           /\ UNCHANGED history
           /\ \A q \in Procs \ {p} : pc'[q] = pc[q] /\ got'[q] = got[q]
<1> DEFINE row == [at |-> now', ttl |-> ttl, cur |-> CurrencyOf[p], ask |-> ask, by |-> p]
<1>1. now \in Nat /\ now' = now + 1 /\ now' \in 0..MaxClock
  BY CacheAssumption DEF CacheInv, TypeOK, Stamp
<1>2. row \in Rows /\ row.at = now' /\ row.by = p
  BY <1>1, CacheAssumption DEF Rows
<1>3. got' = [got EXCEPT ![p] = row] /\ pc' = [pc EXCEPT ![p] = "store"] /\ UNCHANGED history
  BY DEF Stamp, Goto
<1> HIDE DEF row
<1> QED
  BY <1>1, <1>2, <1>3 DEF CacheInv, TypeOK

LEMMA PricedStep == ASSUME CacheInv, NEW p \in Procs, Priced(p) PROVE CacheInv'
<1>1. PICK ask \in BOOLEAN : Stamp(p, LongTTL, ask)
  BY DEF Priced
<1>2. /\ now \in Nat /\ now' = now + 1 /\ now' \in 0..MaxClock
      /\ got' \in [Procs -> Rows] /\ got'[p].at = now' /\ got'[p].by = p
      /\ pc' \in [Procs -> {"idle", "check", "ask", "store"}] /\ pc'[p] = "store"
      /\ UNCHANGED history
      /\ \A q \in Procs \ {p} : pc'[q] = pc[q] /\ got'[q] = got[q]
  BY <1>1, StampTypes
<1>3. pc[p] = "ask" /\ UNCHANGED <<todo, began, served>>
  BY DEF Priced
<1>4. TypeOK'
  BY <1>2, <1>3 DEF CacheInv, TypeOK
<1>5. AskFor(p)'
  <2>1. AskFor(p) /\ p \in Refreshers /\ began[p] \in Nat /\ Item(p) \in Items
        /\ Item(p)' = Item(p)
    BY <1>3 DEF CacheInv, AskInv, AskFor, TypeOK, Item
  <2>2. \A r \in history[Item(p)] : r.at \in Nat /\ r.at <= now /\ r.ttl \in Nat
    <3>1. history[Item(p)] \subseteq Rows
      BY <2>1 DEF CacheInv, TypeOK
    <3>2. \A r \in Rows : r.at \in Nat /\ r.ttl \in Nat
      BY CacheAssumption DEF Rows
    <3> QED
      BY <2>1, <3>1, <3>2 DEF CacheInv, HistoryInv
  <2>3. CASE p \in Forced
    BY <1>2, <1>3, <2>1, <2>3 DEF AskFor
  <2>4. CASE p \notin Forced
    <3>1. Expired(p, now)
      BY <1>3, <2>1, <2>4 DEF AskFor
    <3>2. Expired(p, got[p].at)'
      BY <1>2, <2>1, <2>2, <3>1 DEF Expired
    <3>3. \A r \in history'[Item(p)'] : r.by = p => r.at < got'[p].at
      BY <1>2, <2>1, <2>2
    <3> QED
      BY <1>2, <1>3, <2>1, <3>2, <3>3 DEF AskFor
  <2> QED
    BY <2>3, <2>4
<1>6. AskInv'
  <2> SUFFICES ASSUME NEW q \in Procs PROVE AskFor(q)'
    BY DEF AskInv
  <2>1. CASE q = p
    BY <1>5, <2>1
  <2>2. CASE q # p
    BY <1>2, <1>3, <2>2, AskStays
  <2> QED
    BY <2>1, <2>2
<1> QED
  BY <1>2, <1>3, <1>4, <1>6, QuietInv

LEMMA SweepStep == ASSUME CacheInv, NEW p \in Procs, SweepPage(p) PROVE CacheInv'
<1>1. PICK page \in ListsOf[p] : todo' = [todo EXCEPT ![p] = page]
  BY DEF SweepPage
<1>2. page \in Seq(Items) /\ page # <<>>
  <2>1. ListsOf[p] \in SUBSET (Seq(Items) \ {<<>>})
    BY CacheAssumption
  <2> QED
    BY <1>1, <2>1
<1>3. /\ now \in Nat /\ now' = now + 1 /\ now' \in 0..MaxClock
      /\ got' \in [Procs -> Rows] /\ got'[p].at = now' /\ got'[p].by = p
      /\ pc' \in [Procs -> {"idle", "check", "ask", "store"}] /\ pc'[p] = "store"
      /\ UNCHANGED history
      /\ \A q \in Procs \ {p} : pc'[q] = pc[q] /\ got'[q] = got[q]
  BY StampTypes DEF SweepPage
<1>4. UNCHANGED <<began, served>> /\ p \notin Refreshers
  BY CacheAssumption DEF SweepPage
<1>5. todo' \in [Procs -> Seq(Items)] /\ todo'[p] # <<>>
      /\ \A q \in Procs \ {p} : todo'[q] = todo[q]
  BY <1>1, <1>2 DEF CacheInv, TypeOK
<1>6. TypeOK'
  BY <1>3, <1>4, <1>5 DEF CacheInv, TypeOK
<1>7. AskInv'
  <2> SUFFICES ASSUME NEW q \in Procs PROVE AskFor(q)'
    BY DEF AskInv
  <2>1. CASE q = p
    BY <1>3, <1>4, <2>1 DEF AskFor
  <2>2. CASE q # p
    BY <1>3, <1>4, <1>5, <2>2, AskStays
  <2> QED
    BY <2>1, <2>2
<1> QED
  BY <1>3, <1>4, <1>6, <1>7, QuietInv

\* A row is stored: it is its command's newest, and was asked for because the
\* newest row of then had expired; the other commands' own rows are as before.
LEMMA AddStep == ASSUME CacheInv, NEW p \in Procs, AddSnapshot(p) PROVE CacheInv'
<1>1. pc[p] = "store" /\ todo[p] # <<>> /\ AskFor(p)
  BY DEF AddSnapshot, CacheInv, TypeOK, AskInv
<1>0. Item(p) \in Items /\ got[p] \in Rows /\ Tail(todo[p]) \in Seq(Items)
  BY <1>1 DEF CacheInv, TypeOK, Item
<1>2. PICK i \in Items, x \in Rows : i = Item(p) /\ x = got[p]
  BY <1>0
<1>3. x.by = p /\ x.at <= now /\ (p \in Refreshers => began[p] <= x.at)
  BY <1>1, <1>2 DEF AskFor
<1>4. history' = [history EXCEPT ![i] = @ \cup {x}] /\ UNCHANGED <<now, began>>
      /\ served' = Serve(p) /\ todo' = [todo EXCEPT ![p] = Tail(@)] /\ GoOn(p)
  BY <1>2 DEF AddSnapshot
<1>5. history'[i] = history[i] \cup {x} /\ \A j \in Items \ {i} : history'[j] = history[j]
  BY <1>2, <1>4 DEF CacheInv, TypeOK
<1>6. \/ p \in Sweepers /\ Tail(todo[p]) # <<>> /\ UNCHANGED <<pc, got>>
      \/ /\ pc' = [pc EXCEPT ![p] = IF p \in Sweepers THEN "idle" ELSE "check"]
         /\ got' = [got EXCEPT ![p] = Blank(p)]
  BY <1>4 DEF GoOn, Goto
<1>7. TypeOK'
  <2>1. history' \in [Items -> SUBSET Rows] /\ todo' \in [Procs -> Seq(Items)]
    BY <1>0, <1>4 DEF CacheInv, TypeOK
  <2>2. Blank(p) \in Rows
    BY CacheAssumption DEF Blank, Rows
  <2>3. /\ pc' \in [Procs -> {"idle", "check", "ask", "store"}] /\ got' \in [Procs -> Rows]
        /\ \A q \in Procs : pc'[q] \in {"ask", "store"} => todo'[q] # <<>>
    BY <1>4, <1>6, <2>2 DEF CacheInv, TypeOK
  <2>4. served' \in [Procs -> SUBSET Items]
    BY <1>0, <1>4 DEF CacheInv, TypeOK, Serve
  <2> QED
    BY <1>4, <2>1, <2>3, <2>4 DEF CacheInv, TypeOK
<1>8. \A j \in Items \ {i} : \A c : Latest(j, c)' = Latest(j, c)
  BY <1>5 DEF Latest
<1>9. \E s \in Latest(i, Any)' : s.at >= x.at
  BY <1>2, <1>5, AppendAnswers DEF CacheInv
<1>10. HistoryInv'
  BY <1>3, <1>4, <1>5, <1>8, <1>9 DEF CacheInv, HistoryInv
<1>11. CacheSpares'
  <2> SUFFICES ASSUME NEW j \in Items, NEW r \in history'[j], NEW s \in history'[j],
                      r.by = s.by, r.by \in Refreshers \ Forced, r.at < s.at
               PROVE  \E t \in history'[j] : r.at <= t.at /\ t.at + t.ttl < s.at
    BY DEF CacheSpares
  <2>1. history[j] \subseteq history'[j]
    BY <1>5
  <2>2. CASE r \in history[j] /\ s \in history[j]
    BY <2>1, <2>2 DEF CacheInv, CacheSpares
  <2>3. CASE j = i /\ r \in history[i] /\ s = x
    <3>1. Expired(p, x.at)
      BY <1>1, <1>2, <1>3, <2>3 DEF AskFor
    <3> QED
      BY <1>2, <1>3, <2>1, <2>3, <3>1 DEF Expired
  <2>4. CASE j = i /\ r = x
    <3>1. \A y \in history[i] : y.by = p => y.at < x.at
      BY <1>1, <1>2, <1>3, <2>4 DEF AskFor
    <3>2. x.at \in Nat /\ s.at \in Nat
      BY <1>7, <1>2, <2>4 DEF TypeOK, Rows
    <3>3. s \in history[i] \/ s = x
      BY <1>5, <2>4
    <3> QED
      BY <1>3, <2>4, <3>1, <3>2, <3>3
  <2> QED
    BY <1>5, <2>2, <2>3, <2>4
<1>12. ServedIsFresh'
  <2> SUFFICES ASSUME NEW q \in Refreshers, NEW j \in served'[q]
               PROVE  \E r \in Latest(j, Any)' : r.at + LongTTL >= began'[q]
    BY DEF ServedIsFresh
  <2>0. q \in Procs /\ began'[q] = began[q] /\ began[q] \in Nat /\ LongTTL \in Nat
        /\ j \in Items
    BY <1>4, <1>7, CacheAssumption DEF Procs, CacheInv, TypeOK
  <2>1. \A r \in Latest(j, Any)' : r.at \in Nat
    BY <1>7, <2>0 DEF Latest, TypeOK, Rows
  <2>2. CASE j \in served[q]
    <3>1. PICK r \in Latest(j, Any) : r.at + LongTTL >= began[q]
      BY <2>2 DEF CacheInv, ServedIsFresh
    <3>2. r.at \in Nat
      BY <2>0, <3>1 DEF Latest, CacheInv, TypeOK, Rows
    <3>3. CASE j # i
      BY <1>8, <2>0, <3>1, <3>3
    <3>4. CASE j = i
      <4>1. PICK s \in Latest(i, Any)' : s.at >= r.at
        BY <1>2, <1>5, <3>1, <3>4, AppendKeeps DEF CacheInv
      <4> QED
        BY <2>0, <2>1, <3>1, <3>2, <3>4, <4>1
    <3> QED
      BY <3>3, <3>4
  <2>3. CASE q = p /\ j = i
    <3>1. PICK s \in Latest(i, Any)' : s.at >= x.at
      BY <1>9
    <3>2. x.at \in Nat /\ s.at \in Nat
      BY <1>2, <2>1, <2>3, <3>1 DEF Rows
    <3> QED
      BY <1>3, <2>0, <2>3, <3>1, <3>2
  <2>4. j \in served[q] \/ (q = p /\ j = i)
    BY <1>2, <1>4, <2>0 DEF CacheInv, TypeOK, Serve
  <2> QED
    BY <2>2, <2>3, <2>4
<1>13. AskInv'
  <2> SUFFICES ASSUME NEW q \in Procs PROVE AskFor(q)'
    BY DEF AskInv
  <2>1. CASE q = p
    <3>1. CASE p \in Sweepers /\ UNCHANGED <<pc, got>>
      <4>1. p \notin Refreshers
        BY <3>1, CacheAssumption
      <4> QED
        BY <1>1, <1>2, <1>3, <1>4, <2>1, <3>1, <4>1 DEF AskFor
    <3>2. CASE pc'[p] = IF p \in Sweepers THEN "idle" ELSE "check"
      <4>1. p \in Refreshers => began[p] <= now
        BY <1>1 DEF AskFor
      <4>2. p \notin Sweepers => p \in Refreshers
        BY DEF Procs
      <4> QED
        BY <1>4, <2>1, <3>2, <4>1, <4>2 DEF AskFor
    <3> QED
      BY <1>6, <3>1, <3>2 DEF CacheInv, TypeOK
  <2>2. CASE q # p
    <3>1. AskFor(q) /\ pc'[q] = pc[q] /\ todo'[q] = todo[q] /\ got'[q] = got[q]
          /\ began'[q] = began[q] /\ now' = now
      BY <1>4, <1>6, <2>2 DEF CacheInv, TypeOK, AskInv
    <3>2. Item(q)' = Item(q)
      BY <3>1 DEF Item
    <3>3. CASE pc[q] \notin {"ask", "store"}
      BY <3>1, <3>3 DEF AskFor
    <3>4. CASE pc[q] \in {"ask", "store"}
      <4>1. Item(q) \in Items
        BY <3>4 DEF CacheInv, TypeOK, Item
      <4>2. history[Item(q)] \subseteq history'[Item(q)]
            /\ \A r \in history'[Item(q)] : r.by = q => r \in history[Item(q)]
        BY <1>2, <1>3, <1>5, <2>2, <4>1
      <4>3. \A t : Expired(q, t) => \A r \in history'[Item(q)] : r.by = q =>
                     \E y \in history'[Item(q)] : r.at <= y.at /\ y.at + y.ttl < t
        BY <4>2 DEF Expired
      <4>4. Expired(q, now) => Expired(q, now)'
        BY <3>1, <3>2, <4>3 DEF Expired
      <4>5. Expired(q, got[q].at) => Expired(q, got[q].at)'
        BY <3>1, <3>2, <4>3 DEF Expired
      <4> QED
        BY <3>1, <3>2, <4>2, <4>4, <4>5 DEF AskFor
    <3> QED
      BY <3>3, <3>4
  <2> QED
    BY <2>1, <2>2
<1> QED
  BY <1>7, <1>10, <1>11, <1>12, <1>13 DEF CacheInv

-----------------------------------------------------------------------------
(* The theorems.                                                           *)

LEMMA CacheInvHolds == Spec => []CacheInv
<1>1. Init => CacheInv
  BY InitCache
<1>2. CacheInv /\ [Next]_vars => CacheInv'
  <2> SUFFICES ASSUME CacheInv, [Next]_vars PROVE CacheInv'
    OBVIOUS
  <2>1. CASE Tick
    BY <2>1, TickStep
  <2>2. ASSUME NEW p \in Procs, Begin(p) PROVE CacheInv'
    BY <2>2, BeginStep
  <2>3. ASSUME NEW p \in Procs, SkipCached(p) PROVE CacheInv'
    BY <2>3, SkipStep
  <2>4. ASSUME NEW p \in Procs, Ask(p) PROVE CacheInv'
    BY <2>4, AskStep
  <2>5. ASSUME NEW p \in Procs, Unavailable(p) PROVE CacheInv'
    BY <2>5, UnavailableStep
  <2>6. ASSUME NEW p \in Procs, RateLimited(p) \/ Finish(p) \/ Crash(p) PROVE CacheInv'
    BY <2>6, StopStep DEF RateLimited, Finish, Crash
  <2>7. ASSUME NEW p \in Procs, Priced(p) PROVE CacheInv'
    BY <2>7, PricedStep
  <2>8. ASSUME NEW p \in Procs, AddSnapshot(p) PROVE CacheInv'
    BY <2>8, AddStep
  <2>9. ASSUME NEW p \in Procs, SweepPage(p) PROVE CacheInv'
    BY <2>9, SweepStep
  <2>10. CASE UNCHANGED vars
    <3>1. TypeOK' /\ now' >= now /\ now' \in Nat
      BY <2>10 DEF vars, CacheInv, TypeOK
    <3>2. AskInv'
      BY <2>10, <3>1, AskStays DEF vars, AskInv
    <3> QED
      BY <2>10, <3>1, <3>2, QuietInv DEF vars
  <2> QED
    BY <2>1, <2>2, <2>3, <2>4, <2>5, <2>6, <2>7, <2>8, <2>9, <2>10 DEF Next
<1> QED
  BY <1>1, <1>2, PTL DEF Spec

\* The locals and rows of every command are well formed, and a command at the
\* network or about to store has an item to do it for.
THEOREM CacheTyping == Spec => []TypeOK
  BY CacheInvHolds, PTL DEF CacheInv

\* refresh_prices without force fetches an item again only if, after its own
\* last observation of it, the newest one had outlived its lifetime; whatever
\* sweeps and other refreshes store between its check and its write
\* (steam_market.py:151-156).
THEOREM RefetchOnlyExpired == Spec => []CacheSpares
  BY CacheInvHolds, PTL DEF CacheInv

\* Every item that a refresh counts as fetched or cached has an observation
\* that was within its lifetime when the refresh began, and keeps one while
\* other commands append (steam_market.py:151-162).
THEOREM ServedAreFresh == Spec => []ServedIsFresh
  BY CacheInvHolds, PTL DEF CacheInv

\* latest_price never goes back in time, in any currency: commands append in
\* any order, and an older or ask-less row stored late masks nothing
\* (store.py:432-448).
THEOREM NewestIsKept == Spec => NewestStands
<1> DEFINE Kept == \A i \in Items, c \in Currencies \cup {Any} :
                      \A r \in Latest(i, c) : \E s \in Latest(i, c)' : s.at >= r.at
<1>1. ASSUME TypeOK, UNCHANGED history PROVE Kept
  <2> SUFFICES ASSUME NEW i \in Items, NEW c \in Currencies \cup {Any}, NEW r \in Latest(i, c)
               PROVE  \E s \in Latest(i, c)' : s.at >= r.at
    OBVIOUS
  <2>1. r \in Latest(i, c)'
    BY <1>1, SameLatest
  <2>2. r.at >= r.at
    BY <1>1 DEF Latest, TypeOK, Rows
  <2> QED
    BY <2>1, <2>2
<1>2. ASSUME TypeOK, NEW p \in Procs, AddSnapshot(p) PROVE Kept
  <2> SUFFICES ASSUME NEW i \in Items, NEW c \in Currencies \cup {Any}, NEW r \in Latest(i, c)
               PROVE  \E s \in Latest(i, c)' : s.at >= r.at
    OBVIOUS
  <2>1. got[p] \in Rows
    BY <1>2 DEF TypeOK
  <2>2. CASE i = Item(p)
    <3>1. history'[i] = history[i] \cup {got[p]}
      BY <1>2, <2>2 DEF AddSnapshot, TypeOK
    <3> QED
      BY <1>2, <2>1, <3>1, AppendKeeps
  <2>3. CASE i # Item(p)
    <3>1. history'[i] = history[i]
      BY <1>2, <2>3 DEF AddSnapshot, TypeOK
    <3>2. r \in Latest(i, c)' /\ r.at >= r.at
      BY <1>2, <3>1 DEF Latest, TypeOK, Rows
    <3> QED
      BY <3>2
  <2> QED
    BY <2>2, <2>3
<1>3. TypeOK /\ [Next]_vars => [Kept]_vars
  <2> SUFFICES ASSUME TypeOK, Next PROVE Kept
    OBVIOUS
  <2>1. UNCHANGED history \/ \E p \in Procs : AddSnapshot(p)
    BY DEF Next, Tick, Begin, SkipCached, Ask, Unavailable, RateLimited, Priced, Stamp,
           Finish, SweepPage, Crash
  <2> QED
    BY <1>1, <1>2, <2>1
<1>4. Spec => []TypeOK
  BY CacheTyping
<1> QED
  BY <1>3, <1>4, PTL DEF Spec, NewestStands

=============================================================================
