------------------------- MODULE MarketSweepProofs -------------------------
(***************************************************************************)
(* Theorems about MarketSweep, for any number of sweeps, any market, page  *)
(* size and page cap.                                                      *)
(***************************************************************************)
EXTENDS MarketSweep, SequenceTheorems, TLAPS

\* What makes TypeOK inductive: a card being priced is on the page, and a run
\* that may still fetch or store has not used up its pages.
LoopBounds ==
    \A p \in Sweepers :
        /\ pc[p] = "price" => at[p] < Len(page[p])
        /\ pc[p] \in {"fetch", "store", "price"} => pages[p] < MaxPages

TypeInv == TypeOK /\ LoopBounds

\* A page is a contiguous piece of the market behind the offset asked for;
\* where the server never sends an empty page early, an empty one means that
\* nothing is left (market_sweep.py:194-202).
LEMMA PageIsContiguous ==
    ASSUME market \in Seq(Listings),
           NEW o \in Nat, NEW r \in Replies(o)
    PROVE  /\ r.listings \in Seq(Listings)
           /\ r.total_count \in {0, Len(market)}
           /\ \A j \in 1..Len(r.listings) :
                 o + j <= Len(market) /\ r.listings[j] = market[o + j]
           /\ "emptyPage" \notin Faults /\ r.listings = <<>> => o >= Len(market)
<1> DEFINE left  == Len(market) - o
           most  == IF left > 0 THEN Smaller(left, PageSize) ELSE 0
           least == IF left > 0 /\ "emptyPage" \notin Faults THEN 1 ELSE 0
<1>1. Len(market) \in Nat /\ PageSize \in Nat /\ left \in Int
  BY LenProperties, SweepAssumption
<1>2. most \in Nat /\ (left > 0 => most <= left) /\ (left <= 0 => most = 0)
  BY <1>1 DEF Smaller
<1>3. least \in Nat
  OBVIOUS
<1>4. PICK n \in least..most : r.listings = SubSeq(market, o + 1, o + n)
  BY DEF Replies
<1>5. n \in Nat /\ (o + n <= Len(market) \/ n = 0)
  BY <1>1, <1>2, <1>3, <1>4
<1> HIDE DEF left, most, least
<1>6. n \in Nat
  BY <1>2, <1>3, <1>4
<1>7. \A i \in (o + 1)..(o + n) : i \in 1..Len(market) /\ market[i] \in Listings
  BY <1>1, <1>5, <1>6, LenProperties
<1>8. /\ r.listings \in Seq(Listings)
      /\ Len(r.listings) = n
      /\ \A j \in 1..n : r.listings[j] = market[o + j]
  <2>1. o + 1 \in Int /\ o + n \in Int
    BY <1>6
  <2>2. \A i \in (o + 1)..(o + n) : market[i] \in Listings
    BY <1>7
  <2>3. /\ SubSeq(market, o + 1, o + n) \in Seq(Listings)
        /\ Len(SubSeq(market, o + 1, o + n)) =
             IF o + 1 <= o + n THEN (o + n) - (o + 1) + 1 ELSE 0
        /\ \A i \in 1..((o + n) - (o + 1) + 1) :
             SubSeq(market, o + 1, o + n)[i] = market[(o + 1) + i - 1]
    BY <2>1, <2>2, SubSeqProperties
  <2>4. \A j \in 1..n : j \in 1..((o + n) - (o + 1) + 1) /\ (o + 1) + j - 1 = o + j
    BY <1>6
  <2>5. Len(r.listings) = n
    BY <1>4, <1>6, <2>3
  <2>6. \A j \in 1..n : r.listings[j] = market[o + j]
    BY <1>4, <2>3, <2>4
  <2> QED
    BY <1>4, <2>3, <2>5, <2>6
<1>9. r.total_count \in {0, Len(market)}
  BY DEF Replies
<1>10. ASSUME "emptyPage" \notin Faults, r.listings = <<>>
       PROVE  o >= Len(market)
  <2>1. n = 0
    BY <1>8, <1>10, EmptySeq
  <2>2. ~(left > 0)
    BY <1>4, <1>10, <2>1 DEF least
  <2> QED
    BY <1>1, <2>2 DEF left
<1> QED
  BY <1>1, <1>5, <1>6, <1>7, <1>8, <1>9, <1>10

\* TypeOK strengthened with the bounds of the two loops is inductive.
LEMMA TypeInvHolds == Spec => []TypeInv
<1>1. Init => TypeInv
  BY EmptySeq, SweepAssumption DEF Init, TypeInv, TypeOK, LoopBounds, NoResult,
                  NoCursor, Reasons, Places
<1>2. ASSUME TypeInv, [Next]_vars
      PROVE  TypeInv'
  <2> USE <1>2 DEF TypeInv, TypeOK, LoopBounds, Places, Reasons, NoCursor
  <2>1. ASSUME NEW p \in Sweepers, Begin(p)
        PROVE  TypeInv'
    BY <2>1, EmptySeq, SweepAssumption DEF Begin, Goto, LoadCursor, NoResult, store
  <2>2. ASSUME NEW p \in Sweepers, FetchPage(p)
        PROVE  TypeInv'
    <3>1. PICK reply \in Replies(start[p]) :
            /\ page' = [page EXCEPT ![p] = reply.listings]
            /\ total' = [total EXCEPT ![p] = IF reply.total_count # 0
                                             THEN reply.total_count ELSE @]
      BY <2>2 DEF FetchPage
    <3>2. reply.listings \in Seq(Listings) /\ reply.total_count \in {0, Len(market)}
      BY <3>1, PageIsContiguous
    <3>3. Len(reply.listings) \in Nat /\ Len(market) \in Nat
      BY <3>2, LenProperties
    <3> QED
      BY <2>2, <3>1, <3>2, <3>3 DEF FetchPage, Goto, store
  <2>3. ASSUME NEW p \in Sweepers, Blocked(p)
        PROVE  TypeInv'
    BY <2>3 DEF Blocked, Return, Goto, store, local
  <2>4. ASSUME NEW p \in Sweepers, Unparsable(p)
        PROVE  TypeInv'
    BY <2>4 DEF Unparsable, Goto, store, local
  <2>5. ASSUME NEW p \in Sweepers, SkipListing(p)
        PROVE  TypeInv'
    <3>1. /\ at[p] < Len(page[p]) /\ pc[p] = "store"
          /\ at' = [at EXCEPT ![p] = @ + 1]
          /\ UNCHANGED <<market, cards, priced, cursorFile, pc, start, pages,
                         total, page, result, crashes>>
      BY <2>5 DEF SkipListing, store
    <3>2. at' \in [Sweepers -> Nat] /\ \A q \in Sweepers : at'[q] <= Len(page[q])
      <4>1. Len(page[p]) \in Nat /\ at[p] \in Nat
        BY LenProperties
      <4>2. at[p] + 1 <= Len(page[p]) /\ at[p] + 1 \in Nat
        BY <3>1, <4>1
      <4> QED
        BY <3>1, <4>2
    <3> QED
      BY <3>1, <3>2
  <2>6. ASSUME NEW p \in Sweepers, UpsertCard(p) \/ AddSnapshot(p)
        PROVE  TypeInv'
    <3>1. Len(page[p]) \in Nat /\ at[p] \in Nat /\ at[p] < Len(page[p])
      BY <2>6, LenProperties DEF UpsertCard, AddSnapshot
    <3>2. at[p] + 1 \in 1..Len(page[p]) /\ at[p] + 1 <= Len(page[p])
      BY <3>1
    <3>3. InHand(p) \in Listings
      BY <3>2, LenProperties DEF InHand
    <3>4. CASE UpsertCard(p)
      BY <3>1, <3>3, <3>4 DEF UpsertCard, Goto, local
    <3>5. CASE AddSnapshot(p)
      <4>1. /\ at' = [at EXCEPT ![p] = @ + 1]
            /\ pc' = [pc EXCEPT ![p] = "store"]
            /\ priced' = priced \cup {InHand(p)}
            /\ pc[p] = "price"
            /\ UNCHANGED <<market, cards, cursorFile, start, pages, total,
                           page, result, crashes>>
        BY <3>5 DEF AddSnapshot, Goto
      <4>2. at' \in [Sweepers -> Nat] /\ \A q \in Sweepers : at'[q] <= Len(page[q])
        BY <3>1, <3>2, <4>1
      <4>3. priced' \subseteq Listings
        BY <3>3, <4>1
      <4> QED
        BY <4>1, <4>2, <4>3
    <3> QED
      BY <2>6, <3>4, <3>5
  <2>7. ASSUME NEW p \in Sweepers, TruncateCursor(p)
        PROVE  TypeInv'
    <3>1. Len(page[p]) \in Nat
      BY <2>7, LenProperties
    <3>2. Advanced(p) \in Nat
      BY <3>1, SweepAssumption DEF Advanced, Smaller
    <3>3. /\ start' = [start EXCEPT ![p] = Advanced(p)]
          /\ pages' = [pages EXCEPT ![p] = @ + 1]
          /\ pc' = [pc EXCEPT ![p] = "save"]
          /\ cursorFile' = NoCursor
          /\ UNCHANGED <<market, cards, priced, total, page, at, result, crashes>>
      BY <2>7 DEF TruncateCursor, Goto, store
    <3>4. pages[p] + 1 \in 0..MaxPages
      BY <2>7, SweepAssumption DEF TruncateCursor
    <3>5. start' \in [Sweepers -> Nat] /\ pages' \in [Sweepers -> 0..MaxPages]
      BY <3>2, <3>3, <3>4
    <3> QED
      BY <3>3, <3>5
  <2>8. ASSUME NEW p \in Sweepers, SaveCursor(p)
        PROVE  TypeInv'
    BY <2>8 DEF SaveCursor, Goto, store, local
  <2>9. ASSUME NEW p \in Sweepers, ReachEnd(p) \/ ExitEarly(p) \/ StopAtCap(p)
        PROVE  TypeInv'
    <3>1. \E reason \in Reasons, next \in Nat \cup {NoCursor} :
            result' = [result EXCEPT ![p] = [reason |-> reason, next |-> next]]
      BY <2>9 DEF ReachEnd, ExitEarly, StopAtCap, Return
    <3>2. result' \in [Sweepers -> [reason : Reasons, next : Nat \cup {NoCursor}]]
      BY <3>1
    <3>3. /\ cursorFile' \in {cursorFile, NoCursor}
          /\ pc' = [pc EXCEPT ![p] = "idle"]
          /\ UNCHANGED <<market, cards, priced, start, pages, total, page, at, crashes>>
      BY <2>9 DEF ReachEnd, ExitEarly, StopAtCap, Return, Goto, store, local
    <3> QED
      BY <3>2, <3>3
  <2>10. ASSUME NEW p \in Sweepers, NextPage(p)
         PROVE  TypeInv'
    BY <2>10 DEF NextPage, Goto, store, local
  <2>11. ASSUME NEW p \in Sweepers, Crash(p)
         PROVE  TypeInv'
    BY <2>11, SweepAssumption DEF Crash, Goto, store, local
  <2>12. CASE Delist
    <3>1. PICK i \in 1..Len(market) : market' =
            SubSeq(market, 1, i - 1) \o SubSeq(market, i + 1, Len(market))
      BY <2>12 DEF Delist
    <3>2. Len(market) \in Nat /\ \A j \in 1..Len(market) : market[j] \in Listings
      BY LenProperties
    <3>3. SubSeq(market, 1, i - 1) \in Seq(Listings)
      BY <3>1, <3>2, SubSeqProperties
    <3>4. SubSeq(market, i + 1, Len(market)) \in Seq(Listings)
      BY <3>1, <3>2, SubSeqProperties
    <3>5. market' \in Seq(Listings)
      BY <3>1, <3>3, <3>4, ConcatProperties
    <3> QED
      BY <2>12, <3>5 DEF Delist, store, local
  <2>13. CASE DeleteAll
    BY <2>13 DEF DeleteAll, local
  <2>14. CASE UNCHANGED vars
    BY <2>14 DEF vars, store, local
  <2> QED
    BY <2>1, <2>2, <2>3, <2>4, <2>5, <2>6, <2>7, <2>8, <2>9, <2>10, <2>11,
       <2>12, <2>13, <2>14 DEF Next, Work
<1> QED
  BY <1>1, <1>2, PTL DEF Spec

\* Every value has its type and no run fetches more than MaxPages pages
\* ("max_pages is a hard cap", market_sweep.py:11).
THEOREM Typing == Spec => []TypeOK
<1>1. TypeInv => TypeOK
  BY DEF TypeInv
<1> QED
  BY <1>1, TypeInvHolds, PTL

-----------------------------------------------------------------------------
(* Resuming skips nothing.  The inductive invariant says what a run in     *)
(* progress knows: everything in front of its own offset is priced, the    *)
(* page in hand continues the market right behind that offset, the part of *)
(* it the loop has gone through is priced, and an empty page or a reported *)
(* total is the truth about the length of the market.                      *)

PageInHand(p) ==
    /\ \A j \in 1..Len(page[p]) :
          start[p] + j <= Len(market) /\ page[p][j] = market[start[p] + j]
    /\ \A j \in 1..at[p] : page[p][j] \in Skipped \cup priced
    /\ page[p] = <<>> => start[p] >= Len(market)

RunInv(p) ==
    /\ pc[p] # "idle" => Covered(start[p])
    /\ pc[p] \in {"store", "price"} => PageInHand(p)
    /\ pc[p] \in {"save", "decide"} /\ page[p] = <<>> => start[p] >= Len(market)
    /\ total[p] \in {0, Len(market)}
    /\ result[p].reason = "end_of_market" => Covered(Len(market))

SweepInv ==
    /\ market = FirstMarket
    /\ CursorCovered
    /\ \A p \in Sweepers : RunInv(p)

\* What a run knows stays true when the store grows and its own variables do
\* not change: other sweeps cannot disturb it.
LEMMA RunInvStable ==
    ASSUME TypeInv, NEW p \in Sweepers, RunInv(p),
           UNCHANGED market, priced \subseteq priced',
           pc'[p] = pc[p], start'[p] = start[p], page'[p] = page[p],
           at'[p] = at[p], total'[p] = total[p], result'[p] = result[p]
    PROVE  RunInv(p)'
  BY DEF RunInv, PageInHand, Covered

\* Covering an offset past the end covers the whole market.
LEMMA CoveredPastEnd ==
    ASSUME market \in Seq(Listings), NEW n \in Nat, n >= Len(market), Covered(n)
    PROVE  Covered(Len(market))
  BY LenProperties DEF Covered

\* Storing the page in hand extends what is covered to the next offset.
LEMMA AdvancedCovered ==
    ASSUME TypeInv, market = FirstMarket,
           NEW p \in Sweepers, PageInHand(p), Covered(start[p]),
           at[p] = Len(page[p])
    PROVE  /\ Covered(Advanced(p))
           /\ page[p] = <<>> => Advanced(p) >= Len(market)
<1>1. /\ Len(page[p]) \in Nat /\ Len(market) \in Nat /\ start[p] \in Nat
      /\ PageSize \in Nat /\ MaxOffset \in Nat /\ MaxOffset >= Len(market)
  BY LenProperties, SweepAssumption DEF TypeInv, TypeOK
<1>2. CASE page[p] = <<>>
  <2>1. start[p] >= Len(market)
    BY <1>2 DEF PageInHand
  <2>2. Advanced(p) >= Len(market)
    BY <1>1, <1>2, <2>1 DEF Advanced, Smaller
  <2>3. \A i \in 1..Len(market) : i <= start[p]
    BY <1>1, <2>1
  <2> QED
    BY <2>2, <2>3 DEF Covered
<1>3. CASE page[p] # <<>>
  <2>1. Advanced(p) = start[p] + Len(page[p])
    BY <1>3 DEF Advanced
  <2>2. ASSUME NEW i \in 1..Len(market), i <= start[p] + Len(page[p]), ~(i <= start[p])
        PROVE  market[i] \in Skipped \cup priced
    <3>1. i - start[p] \in 1..Len(page[p]) /\ start[p] + (i - start[p]) = i
      BY <1>1, <2>2
    <3>2. page[p][i - start[p]] = market[i]
      BY <3>1 DEF PageInHand
    <3> QED
      BY <3>1, <3>2 DEF PageInHand
  <2> QED
    BY <1>3, <2>1, <2>2 DEF Covered
<1> QED
  BY <1>2, <1>3

\* A step of p takes nothing from the store and touches no other sweep.
Alone(p) ==
    /\ UNCHANGED market /\ priced \subseteq priced'
    /\ \A q \in Sweepers \ {p} :
          /\ pc'[q] = pc[q] /\ start'[q] = start[q] /\ page'[q] = page[q]
          /\ at'[q] = at[q] /\ total'[q] = total[q] /\ result'[q] = result[q]

LEMMA StepIsAlone ==
    ASSUME TypeInv, NEW p \in Sweepers,
           \/ Begin(p) \/ FetchPage(p) \/ Blocked(p) \/ Unparsable(p)
           \/ Work(p) \/ Crash(p)
    PROVE  Alone(p)
<1> USE DEF TypeInv, TypeOK, Alone, Goto, Return, store, local
<1>1. CASE Begin(p)
  BY <1>1 DEF Begin
<1>2. CASE FetchPage(p)
  BY <1>2 DEF FetchPage
<1>3. CASE Blocked(p) \/ Unparsable(p) \/ Crash(p)
  BY <1>3 DEF Blocked, Unparsable, Crash
<1>4. CASE SkipListing(p) \/ UpsertCard(p) \/ AddSnapshot(p)
  BY <1>4 DEF SkipListing, UpsertCard, AddSnapshot
<1>5. CASE TruncateCursor(p) \/ SaveCursor(p) \/ ReachEnd(p)
  BY <1>5 DEF TruncateCursor, SaveCursor, ReachEnd
<1>6. CASE ExitEarly(p) \/ NextPage(p) \/ StopAtCap(p)
  BY <1>6 DEF ExitEarly, NextPage, StopAtCap
<1> QED
  BY <1>1, <1>2, <1>3, <1>4, <1>5, <1>6 DEF Work

\* Every step of a sweep keeps what it knows and the cursor covered.
LEMMA SweepStep ==
    ASSUME Faults = {}, TypeInv, TypeInv', SweepInv, NEW p \in Sweepers,
           \/ Begin(p) \/ FetchPage(p) \/ Blocked(p) \/ Unparsable(p)
           \/ Work(p) \/ Crash(p)
    PROVE  RunInv(p)' /\ CursorCovered'
<1> USE DEF SweepInv, Goto, Return, store, local, NoResult
<1>1. /\ market \in Seq(Listings) /\ Len(market) \in Nat
      /\ start[p] \in Nat /\ at[p] \in Nat /\ total[p] \in Nat
      /\ page[p] \in Seq(Listings) /\ Len(page[p]) \in Nat
      /\ cursorFile \in Nat \cup {NoCursor} /\ p \in DOMAIN pc
      /\ p \in DOMAIN start /\ p \in DOMAIN page /\ p \in DOMAIN at
      /\ p \in DOMAIN total /\ p \in DOMAIN result
  BY LenProperties DEF TypeInv, TypeOK
<1>2. RunInv(p) /\ UNCHANGED market /\ priced \subseteq priced'
  BY StepIsAlone DEF Alone
<1>3. \A n : Covered(n) => Covered(n)'
  BY <1>2 DEF Covered
<1>4. CASE Begin(p)
  BY <1>1, <1>2, <1>4 DEF Begin, RunInv, CursorCovered, Covered, LoadCursor
<1>5. CASE FetchPage(p)
  <2>1. PICK reply \in Replies(start[p]) :
          /\ page' = [page EXCEPT ![p] = reply.listings]
          /\ total' = [total EXCEPT ![p] = IF reply.total_count # 0
                                           THEN reply.total_count ELSE @]
    BY <1>5 DEF FetchPage
  <2>2. /\ reply.total_count \in {0, Len(market)}
        /\ \A j \in 1..Len(reply.listings) :
              start[p] + j <= Len(market) /\ reply.listings[j] = market[start[p] + j]
        /\ reply.listings = <<>> => start[p] >= Len(market)
    BY <1>1, <2>1, PageIsContiguous
  <2>3. /\ page'[p] = reply.listings /\ at'[p] = 0 /\ start'[p] = start[p]
        /\ pc'[p] = "store" /\ result' = result /\ pc[p] = "fetch"
        /\ total'[p] \in {0, Len(market)} /\ UNCHANGED <<priced, cursorFile>>
    BY <1>1, <1>2, <1>5, <2>1, <2>2 DEF FetchPage, RunInv
  <2>4. PageInHand(p)'
    BY <1>1, <1>2, <2>2, <2>3 DEF PageInHand
  <2> QED
    BY <1>2, <2>3, <2>4 DEF RunInv, CursorCovered, Covered, LoadCursor
<1>6. CASE Blocked(p) \/ Unparsable(p) \/ Crash(p)
  BY <1>1, <1>2, <1>6 DEF Blocked, Unparsable, Crash, RunInv, CursorCovered,
                           Covered, LoadCursor
<1>7. CASE SkipListing(p)
  <2>1. PageInHand(p) /\ at'[p] = at[p] + 1 /\ page[p][at[p] + 1] \in Skipped
    BY <1>1, <1>2, <1>7 DEF SkipListing, RunInv, InHand
  <2>2. \A j \in 1..(at[p] + 1) : j \in 1..at[p] \/ j = at[p] + 1
    BY <1>1
  <2>3. UNCHANGED <<market, cards, priced, cursorFile, pc, start, total, page, result>>
    BY <1>7 DEF SkipListing
  <2>4. PageInHand(p)'
    BY <2>1, <2>2, <2>3 DEF PageInHand
  <2> QED
    BY <1>2, <1>7, <2>3, <2>4 DEF SkipListing, RunInv, CursorCovered, Covered,
                                   LoadCursor
<1>8. CASE UpsertCard(p)
  BY <1>1, <1>2, <1>8 DEF UpsertCard, RunInv, PageInHand, CursorCovered, Covered,
                           LoadCursor
<1>9. CASE AddSnapshot(p)
  <2>1. /\ PageInHand(p) /\ at'[p] = at[p] + 1 /\ pc'[p] = "store"
        /\ priced' = priced \cup {page[p][at[p] + 1]}
    BY <1>1, <1>2, <1>9 DEF AddSnapshot, RunInv, InHand
  <2>2. \A j \in 1..(at[p] + 1) : j \in 1..at[p] \/ j = at[p] + 1
    BY <1>1
  <2>3. UNCHANGED <<market, cursorFile, start, total, page, result>>
    BY <1>9 DEF AddSnapshot
  <2>4. PageInHand(p)'
    BY <2>1, <2>2, <2>3 DEF PageInHand
  <2>5. pc[p] = "price"
    BY <1>9 DEF AddSnapshot
  <2> QED
    BY <1>2, <2>1, <2>3, <2>4, <2>5 DEF RunInv, CursorCovered, Covered, LoadCursor
<1>10. CASE TruncateCursor(p)
  <2>1. /\ pc'[p] = "save" /\ start'[p] = Advanced(p) /\ cursorFile' = NoCursor
        /\ UNCHANGED <<market, cards, priced, total, page, result>>
        /\ pc[p] = "store" /\ at[p] = Len(page[p])
    BY <1>1, <1>10 DEF TruncateCursor
  <2>2. Covered(Advanced(p)) /\ (page[p] = <<>> => Advanced(p) >= Len(market))
    BY <1>2, <2>1, AdvancedCovered DEF RunInv
  <2>3. LoadCursor' = 0
    BY <2>1 DEF LoadCursor
  <2> QED
    BY <1>1, <1>2, <2>1, <2>2, <2>3 DEF RunInv, CursorCovered, Covered
<1>11. CASE SaveCursor(p)
  <2>1. /\ pc'[p] = "decide" /\ pc[p] = "save" /\ cursorFile' = start[p]
        /\ UNCHANGED <<market, cards, priced, start, total, page, result>>
    BY <1>1, <1>11 DEF SaveCursor
  <2>2. LoadCursor' = start[p]
    BY <1>1, <2>1 DEF LoadCursor, NoCursor
  <2> QED
    BY <1>2, <2>1, <2>2 DEF RunInv, CursorCovered, Covered
<1>12. CASE ReachEnd(p)
  <2>1. /\ pc'[p] = "idle" /\ pc[p] = "decide" /\ cursorFile' = NoCursor
        /\ UNCHANGED <<market, cards, priced, start, total, page>>
    BY <1>1, <1>12 DEF ReachEnd
  <2>2. start[p] >= Len(market)
    BY <1>1, <1>2, <1>12, <2>1 DEF ReachEnd, AtEnd, RunInv
  <2>3. Covered(Len(market))
    BY <1>1, <1>2, <2>1, <2>2, CoveredPastEnd DEF RunInv
  <2>4. LoadCursor' = 0
    BY <2>1 DEF LoadCursor
  <2> QED
    BY <1>1, <1>2, <2>1, <2>3, <2>4 DEF RunInv, CursorCovered, Covered
<1>13. CASE ExitEarly(p) \/ NextPage(p) \/ StopAtCap(p)
  BY <1>1, <1>2, <1>13 DEF ExitEarly, NextPage, StopAtCap, RunInv, CursorCovered,
                            Covered, LoadCursor
<1> QED
  BY <1>4, <1>5, <1>6, <1>7, <1>8, <1>9, <1>10, <1>11, <1>12, <1>13 DEF Work

\* The strengthened invariant holds in every behavior without faults.
LEMMA SweepInvHolds ==
    ASSUME Faults = {}
    PROVE  Spec => []SweepInv
<1>1. Init => SweepInv
  BY SweepAssumption, LenProperties DEF Init, SweepInv, RunInv, CursorCovered,
     Covered, LoadCursor, NoResult
<1>2. ASSUME TypeInv, TypeInv', SweepInv, [Next]_vars
      PROVE  SweepInv'
  <2>1. ASSUME NEW p \in Sweepers,
               \/ Begin(p) \/ FetchPage(p) \/ Blocked(p) \/ Unparsable(p)
               \/ Work(p) \/ Crash(p)
        PROVE  SweepInv'
    <3>1. Alone(p)
      BY <1>2, <2>1, StepIsAlone
    <3>2. RunInv(p)' /\ CursorCovered'
      BY <1>2, <2>1, SweepStep
    <3>3. ASSUME NEW q \in Sweepers \ {p}
          PROVE  RunInv(q)'
      BY <1>2, <3>1, RunInvStable DEF Alone, SweepInv
    <3> QED
      BY <1>2, <3>1, <3>2, <3>3 DEF SweepInv, Alone
  <2>2. CASE Delist \/ DeleteAll
    BY <2>2 DEF Delist, DeleteAll
  <2>3. CASE UNCHANGED vars
    BY <1>2, <2>3 DEF vars, store, local, SweepInv, RunInv, PageInHand,
                      CursorCovered, Covered, LoadCursor
  <2> QED
    BY <1>2, <2>1, <2>2, <2>3 DEF Next
<1> QED
  BY <1>1, <1>2, TypeInvHolds, PTL DEF Spec

\* Resuming never skips a listing: whatever is killed, and however several
\* sweeps overwrite each other's cursor, the file never points behind a
\* listing that has no price ("resumable", market_sweep.py:18-19).
THEOREM ResumeSkipsNothing ==
    ASSUME Faults = {}
    PROVE  Spec => []CursorCovered
<1>1. SweepInv => CursorCovered
  BY DEF SweepInv
<1> QED
  BY <1>1, SweepInvHolds, PTL

\* A run that reports the end of the market leaves nothing unpriced ("sweep
\* is complete", market_sweep.py:59).
THEOREM EndIsComplete ==
    ASSUME Faults = {}
    PROVE  Spec => []EndMeansAllPriced
<1>1. SweepInv => EndMeansAllPriced
  BY DEF SweepInv, RunInv, EndMeansAllPriced
<1> QED
  BY <1>1, SweepInvHolds, PTL

-----------------------------------------------------------------------------
(* The sweeps implement the abstract scan.                                 *)

\* The abstract prefix is the concrete cover.
LEMMA PrefixIsCovered ==
    ASSUME market = FirstMarket, NEW n, Covered(n)
    PROVE  Scan!Prefix(n)
  BY DEF Covered, Scan!Prefix

LEMMA ScanStep ==
    ASSUME Faults = {}, TypeInv, SweepInv, SweepInv', [Next]_vars
    PROVE  [Scan!Next]_(Scan!vars)
<1> DEFINE done == {i \in 1..Len(FirstMarket) : FirstMarket[i] \in priced}
           finished == {p \in Sweepers : result[p].reason = "end_of_market"}
<1> USE DEF Return, Goto, store, local, NoResult
<1>1. /\ result \in [Sweepers -> [reason : Reasons, next : Nat \cup {NoCursor}]]
      /\ cursorFile \in Nat \cup {NoCursor} /\ start \in [Sweepers -> Nat]
      /\ market = FirstMarket /\ market \in Seq(Listings) /\ Len(market) \in Nat
  BY LenProperties DEF TypeInv, TypeOK, SweepInv
<1>2. ASSUME UNCHANGED <<priced, cursorFile>>, NEW p \in Sweepers, NEW r,
             r.reason # "end_of_market", result' = [result EXCEPT ![p] = r]
      PROVE  Scan!Next
  <2>1. finished' = finished \ {p} /\ done' = done /\ LoadCursor' = LoadCursor
    BY <1>1, <1>2 DEF LoadCursor
  <2> QED
    BY <1>2, <2>1 DEF Scan!Next, Scan!ScanAgain
<1>3. ASSUME UNCHANGED <<priced, cursorFile, result>>
      PROVE  UNCHANGED Scan!vars
  BY <1>3 DEF Scan!vars, LoadCursor
<1>4. ASSUME NEW p \in Sweepers, Begin(p)
      PROVE  Scan!Next
  BY <1>2, <1>4 DEF Begin
<1>5. ASSUME NEW p \in Sweepers, Blocked(p) \/ ExitEarly(p) \/ StopAtCap(p)
      PROVE  Scan!Next
  <2>1. PICK why \in {"rate_limited", "early_exit", "max_pages"} :
          result' = [result EXCEPT ![p] = [reason |-> why, next |-> start[p]]]
    BY <1>5 DEF Blocked, ExitEarly, StopAtCap
  <2>2. UNCHANGED <<priced, cursorFile>>
    BY <1>5 DEF Blocked, ExitEarly, StopAtCap
  <2>3. [reason |-> why, next |-> start[p]].reason # "end_of_market"
    BY <2>1
  <2> QED
    BY <1>2, <2>1, <2>2, <2>3
<1>6. ASSUME NEW p \in Sweepers,
             \/ FetchPage(p) \/ Unparsable(p) \/ SkipListing(p) \/ UpsertCard(p)
             \/ NextPage(p) \/ Crash(p)
      PROVE  UNCHANGED Scan!vars
  <2>1. UNCHANGED <<priced, cursorFile, result>>
    BY <1>6 DEF FetchPage, Unparsable, SkipListing, UpsertCard, NextPage, Crash
  <2> QED
    BY <1>3, <2>1
<1>7. ASSUME NEW p \in Sweepers, AddSnapshot(p)
      PROVE  Scan!Next
  <2>1. priced \subseteq priced' /\ UNCHANGED <<cursorFile, result>>
    BY <1>7 DEF AddSnapshot
  <2>2. done \subseteq done' /\ done' \subseteq 1..Len(FirstMarket)
    BY <2>1
  <2>3. LoadCursor' = LoadCursor /\ finished' = finished
    BY <2>1 DEF LoadCursor
  <2> QED
    BY <2>2, <2>3 DEF Scan!Next, Scan!Record
<1>8. ASSUME NEW p \in Sweepers, TruncateCursor(p) \/ SaveCursor(p)
      PROVE  Scan!Next
  <2>1. cursorFile' \in {start[p], NoCursor} /\ UNCHANGED <<market, priced, result>>
    BY <1>8 DEF TruncateCursor, SaveCursor
  <2>2. LoadCursor' \in Nat
    BY <1>1, <2>1 DEF LoadCursor, NoCursor
  <2>3. Covered(LoadCursor')
    BY <2>1 DEF SweepInv, CursorCovered, Covered
  <2>4. Scan!Prefix(LoadCursor')
    BY <1>1, <2>3, PrefixIsCovered
  <2>5. done' = done /\ finished' = finished
    BY <2>1
  <2> QED
    BY <2>2, <2>4, <2>5 DEF Scan!Next, Scan!Rest
<1>9. ASSUME NEW p \in Sweepers, ReachEnd(p)
      PROVE  Scan!Next
  <2>1. /\ cursorFile' = NoCursor /\ UNCHANGED <<market, priced>>
        /\ result' = [result EXCEPT ![p] = [reason |-> "end_of_market",
                                            next |-> NoCursor]]
    BY <1>9 DEF ReachEnd
  <2>2. LoadCursor' = 0 /\ done' = done
    BY <2>1 DEF LoadCursor
  <2>3. finished' = finished \cup {p}
    BY <1>1, <2>1
  <2>4. Covered(Len(FirstMarket))
    BY <1>1, <2>1, <2>3 DEF SweepInv, RunInv, Covered
  <2>5. Scan!Prefix(Len(FirstMarket))
    BY <1>1, <2>4, PrefixIsCovered
  <2> QED
    BY <2>2, <2>3, <2>5 DEF Scan!Next, Scan!Announce
<1>10. CASE Delist \/ DeleteAll
  BY <1>10 DEF Delist, DeleteAll
<1>11. CASE UNCHANGED vars
  BY <1>3, <1>11 DEF vars
<1> QED
  BY <1>4, <1>5, <1>6, <1>7, <1>8, <1>9, <1>10, <1>11 DEF Next, Work

\* Any number of capped, blocked and killed sweeps over one data directory
\* behave as one resumable scan of the market.
THEOREM SweepsImplementScan ==
    ASSUME Faults = {}
    PROVE  Spec => ImplementsScan
<1>1. Init => Scan!Init
  BY DEF Init, Scan!Init, LoadCursor, NoResult
<1>2. ASSUME TypeInv, SweepInv, SweepInv', [Next]_vars
      PROVE  [Scan!Next]_(Scan!vars)
  BY <1>2, ScanStep
<1> QED
  BY <1>1, <1>2, TypeInvHolds, SweepInvHolds, PTL DEF Spec, Scan!Spec, ImplementsScan

-----------------------------------------------------------------------------
(* What holds under every fault of the environment.                        *)

KnownInv ==
    /\ PricedCardsKnown
    /\ \A p \in Sweepers : pc[p] = "price" => InHand(p) \in cards

\* No snapshot without its card, even when a sweep is killed between the two
\* statements or the data is deleted between two runs
\* (market_sweep.py:181-191, cli.py:98-134).
THEOREM PricedCardsStayKnown == Spec => []PricedCardsKnown
<1>1. Init => KnownInv
  BY DEF Init, KnownInv, PricedCardsKnown
<1>2. ASSUME TypeInv, KnownInv, [Next]_vars
      PROVE  KnownInv'
  <2> USE <1>2 DEF KnownInv, PricedCardsKnown, TypeInv, TypeOK, Goto, Return, InHand,
                   store, local
  <2>1. ASSUME NEW p \in Sweepers,
               \/ Begin(p) \/ FetchPage(p) \/ Blocked(p) \/ Unparsable(p) \/ Crash(p)
        PROVE  KnownInv'
    BY <2>1 DEF Begin, FetchPage, Blocked, Unparsable, Crash
  <2>2. ASSUME NEW p \in Sweepers, SkipListing(p) \/ UpsertCard(p)
        PROVE  KnownInv'
    BY <2>2 DEF SkipListing, UpsertCard
  <2>3. ASSUME NEW p \in Sweepers, AddSnapshot(p)
        PROVE  KnownInv'
    BY <2>3 DEF AddSnapshot
  <2>4. ASSUME NEW p \in Sweepers,
               \/ TruncateCursor(p) \/ SaveCursor(p) \/ ReachEnd(p)
               \/ ExitEarly(p) \/ NextPage(p) \/ StopAtCap(p)
        PROVE  KnownInv'
    BY <2>4 DEF TruncateCursor, SaveCursor, ReachEnd, ExitEarly, NextPage, StopAtCap
  <2>5. CASE Delist \/ DeleteAll
    BY <2>5 DEF Delist, DeleteAll
  <2>6. CASE UNCHANGED vars
    BY <2>6 DEF vars
  <2> QED
    BY <2>1, <2>2, <2>3, <2>4, <2>5, <2>6 DEF Next, Work
<1>3. KnownInv => PricedCardsKnown
  BY DEF KnownInv
<1> QED
  BY <1>1, <1>2, <1>3, TypeInvHolds, PTL DEF Spec

\* While it is not writing the file, a lone run's offset is the one on disk.
ResumeInv ==
    /\ ResultResumable
    /\ \A p \in Sweepers :
          /\ pc[p] # "idle" => result[p] = NoResult
          /\ pc[p] \in {"fetch", "store", "price", "decide"} => LoadCursor = start[p]

\* A lone run that returns its offset finds it in the file.
LEMMA ReturnIsResumable ==
    ASSUME \A p, q \in Sweepers : p = q,
           TypeInv, ResumeInv, NEW p \in Sweepers, NEW r,
           pc[p] \in {"fetch", "decide"}, Return(p, r, start[p]), cursorFile' = cursorFile
    PROVE  ResumeInv'
<1>1. pc[p] # "idle" /\ LoadCursor = start[p] /\ start[p] \in Nat
  BY DEF ResumeInv, TypeInv, TypeOK
<1>2. pc'[p] = "idle" /\ result'[p] = [reason |-> r, next |-> start[p]]
  BY DEF Return, Goto, TypeInv, TypeOK
<1>3. LoadCursor' = start[p] /\ result'[p].next = start[p] /\ start[p] # NoCursor
  BY <1>1, <1>2 DEF LoadCursor, NoCursor
<1>4. ResultResumable'
  BY <1>2, <1>3 DEF ResultResumable
<1>5. \A q \in Sweepers : pc'[q] = "idle"
  BY <1>2
<1> QED
  BY <1>4, <1>5 DEF ResumeInv

\* When a lone sweep has returned, the next run starts where its result says
\* ("progress is saved ... re-run to resume", cli.py:1036-1040), under every
\* fault of the market and after any kill.
THEOREM LoneSweepResumes ==
    ASSUME \A p, q \in Sweepers : p = q
    PROVE  Spec => []ResultResumable
<1>1. Init => ResumeInv
  BY DEF Init, ResumeInv, ResultResumable
<1>2. ASSUME TypeInv, TypeInv', ResumeInv, [Next]_vars
      PROVE  ResumeInv'
  <2> USE <1>2 DEF ResumeInv, ResultResumable, TypeInv, TypeOK, Goto, Return, store,
                   local, LoadCursor, NoResult
  <2>1. ASSUME NEW p \in Sweepers, Begin(p)
        PROVE  ResumeInv'
    BY <2>1 DEF Begin
  <2>2. ASSUME NEW p \in Sweepers,
               \/ FetchPage(p) \/ SkipListing(p) \/ UpsertCard(p) \/ AddSnapshot(p)
        PROVE  ResumeInv'
    BY <2>2 DEF FetchPage, SkipListing, UpsertCard, AddSnapshot
  <2>3. ASSUME NEW p \in Sweepers, Unparsable(p) \/ Crash(p) \/ NextPage(p)
        PROVE  ResumeInv'
    BY <2>3 DEF Unparsable, Crash, NextPage
  <2>4. ASSUME NEW p \in Sweepers, TruncateCursor(p)
        PROVE  ResumeInv'
    BY <2>4 DEF TruncateCursor
  <2>5. ASSUME NEW p \in Sweepers, SaveCursor(p)
        PROVE  ResumeInv'
    BY <2>5 DEF SaveCursor, NoCursor
  <2>6. ASSUME NEW p \in Sweepers, Blocked(p) \/ ExitEarly(p) \/ StopAtCap(p)
        PROVE  ResumeInv'
    <3>1. CASE Blocked(p)
      BY <1>2, <3>1, ReturnIsResumable DEF Blocked
    <3>2. CASE ExitEarly(p)
      BY <1>2, <3>2, ReturnIsResumable DEF ExitEarly
    <3>3. CASE StopAtCap(p)
      BY <1>2, <3>3, ReturnIsResumable DEF StopAtCap
    <3> QED
      BY <2>6, <3>1, <3>2, <3>3
  <2>7. ASSUME NEW p \in Sweepers, ReachEnd(p)
        PROVE  ResumeInv'
    BY <2>7 DEF ReachEnd
  <2>8. CASE Delist \/ DeleteAll
    BY <2>8 DEF Delist, DeleteAll
  <2>9. CASE UNCHANGED vars
    BY <2>9 DEF vars
  <2> QED
    BY <2>1, <2>2, <2>3, <2>4, <2>5, <2>6, <2>7, <2>8, <2>9 DEF Next, Work
<1>3. ResumeInv => ResultResumable
  BY DEF ResumeInv
<1> QED
  BY <1>1, <1>2, <1>3, TypeInvHolds, PTL DEF Spec

=============================================================================
