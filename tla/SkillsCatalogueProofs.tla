------------------------- MODULE SkillsCatalogueProofs -------------------------
(***************************************************************************)
(* What holds of the parts of ui-ux-pro-max for data files of any length,  *)
(* saved and searched any number of times, and for any catalogue.  Each    *)
(* part has an inductive invariant of its own; it is one of CatalogueSpec  *)
(* wherever Init chose that part.                                          *)
(***************************************************************************)
EXTENDS MCSkillsCatalogue, DesignPersistProofs, WellFoundedInduction

LEMMA PartStays == ASSUME [CatalogueNext]_allVars PROVE part' = part
BY DEF CatalogueNext, allVars

-----------------------------------------------------------------------------
(***************************************************************************)
(* DesignPersist.  The parts beside it do not touch its files, so that     *)
(* what was proved of it alone holds here.                                 *)
(***************************************************************************)
LEMMA PersistAlone == CatalogueSpec => Spec
<1>1. CatalogueInit => Init
    BY DEF CatalogueInit
<1>2. [CatalogueNext]_allVars => [Next]_vars
    BY DEF CatalogueNext, allVars
<1>3. QED
    BY <1>1, <1>2, PTL DEF CatalogueSpec, Spec

-----------------------------------------------------------------------------
(***************************************************************************)
(* SearchCache.  A signature stands for what the file held when it had it, *)
(* so that each of the caches, and the loop that fills the first, can be   *)
(* judged by the signature alone.                                          *)
(***************************************************************************)
Signature == Len(past)

\* The rows that are cached, for all of them and for each generation.
CacheHoldsTheFile ==
    /\ csvCache # NoEntry =>
          csvCache.sig <= Signature /\ csvCache.rows = past[csvCache.sig]
    /\ \A v \in Cache!Variants :
          bm25Cache[v] # NoEntry =>
              /\ bm25Cache[v].sig <= Signature
              /\ bm25Cache[v].rows = Cache!Filtered(past[bm25Cache[v].sig], v)

\* The keywords may come from a file newer than their signature, never from an
\* older one, and only a file that changed meanwhile, or could not be read,
\* leaves the seed.
KeywordsAreNoOlder ==
    /\ keywords.sig # NoEntry =>
          /\ keywords.sig <= Signature
          /\ keywords.from = NoEntry =>
                keywords.sig < Signature \/ keywords.sig \in unread
    /\ keywords.from # NoEntry =>
          /\ keywords.sig <= keywords.from.sig
          /\ keywords.from.sig <= Signature
          /\ keywords.from.rows = past[keywords.from.sig]

\* What _load_csv_snapshot has read is a part of the file for as long as its
\* signature is the one from before.
LoopReadsTheFile ==
    /\ call.since <= Signature /\ before <= Signature
    /\ cachePc = "before" => tries < Attempts
    /\ cachePc \in {"read", "after"} =>
          /\ call.since <= before
          /\ cacheRows \in Seq(Cache!Statuses)
          /\ cachePc = "read" => Len(cacheRows) < NumRows
          /\ cachePc = "after" => Len(cacheRows) = NumRows
          /\ before = Signature =>
                \A i \in DOMAIN cacheRows : cacheRows[i] = past[Signature][i]

\* What it returns is the whole file, or nothing because the file changed or
\* the read raised.
LoadedIsTheFile ==
    /\ cachePc = "loaded" =>
          \/ cacheRows = past[before] /\ call.since <= before
          \/ /\ cacheRows = <<>> /\ phase # "search"
             /\ phase = "keywords" => call.since < Signature \/ call.since \in unread
    /\ cachePc = "index" =>
          /\ phase = "search" /\ call.since <= before
          /\ cacheRows = Cache!Filtered(past[before], variant)

\* The filter keeps one generation, the one asked for.
FilterIsAsAsked ==
    phase = "search" =>
        (call.legacy <=> variant \in {"legacy-only", "legacy-unavailable"})

AnswerIsFromTheFile ==
    answer.why \in {"ranked", "exact"} =>
        /\ answer.sig \in Cache!Signatures
        /\ call.since <= answer.sig /\ answer.sig <= Signature
        /\ \A i \in DOMAIN answer.given :
              /\ i \in Cache!RowNumbers
              /\ answer.given[i] = past[answer.sig][i]
              /\ (answer.given[i] = "deprecated") = call.legacy

CacheInv ==
    /\ Cache!TypeOK
    /\ CacheHoldsTheFile
    /\ KeywordsAreNoOlder
    /\ LoopReadsTheFile
    /\ LoadedIsTheFile
    /\ FilterIsAsAsked
    /\ AnswerIsFromTheFile
    /\ Cache!IndexFitsRows

(***************************************************************************)
(* Types, and the two operators that choose rows.                          *)
(***************************************************************************)
LEMMA ReadingTypes ==
    /\ Cache!Files \subseteq Cache!Readings
    /\ <<>> \in Cache!Readings
    /\ \A f \in Cache!Files : f # <<>> /\ f \in Seq(Cache!Statuses) /\ Len(f) = NumRows
    /\ \A s \in Seq(Cache!Statuses) : Len(s) <= NumRows => s \in Cache!Readings
<1>1. Cache!Files \subseteq Cache!Readings
    BY DEF Cache!Files, Cache!Readings
<1>2. ASSUME NEW s \in Seq(Cache!Statuses), Len(s) <= NumRows
      PROVE  s \in Cache!Readings
    <2>1. s \in [1 .. Len(s) -> Cache!Statuses] /\ Len(s) \in Nat
        OBVIOUS
    <2>2. 1 .. Len(s) \in SUBSET Cache!RowNumbers
        BY <1>2, <2>1, CacheAssumption DEF Cache!RowNumbers
    <2>3. QED
        BY <2>1, <2>2 DEF Cache!Readings
<1>3. <<>> \in Cache!Readings
    <2>1. PICK none : none = <<>>
        OBVIOUS
    <2>2. none \in Seq(Cache!Statuses) /\ Len(none) <= NumRows
        BY <2>1, CacheAssumption
    <2>3. QED
        BY <1>2, <2>1, <2>2
<1>4. ASSUME NEW f \in Cache!Files
      PROVE  f # <<>> /\ f \in Seq(Cache!Statuses) /\ Len(f) = NumRows
    BY <1>4, CacheAssumption DEF Cache!Files, Cache!RowNumbers
<1>5. QED
    BY <1>1, <1>2, <1>3, <1>4

LEMMA SignatureType ==
    ASSUME Cache!TypeOK
    PROVE  /\ Signature \in Cache!Signatures /\ Signature \in Nat \ {0}
           /\ past \in Seq(Cache!Files)
           /\ \A s \in Cache!Signatures : s \in Nat \ {0}
           /\ \A s \in Cache!Signatures : s <= Signature => past[s] \in Cache!Files
<1>1. past \in Seq(Cache!Files) /\ Len(past) \in Cache!Signatures
    BY DEF Cache!TypeOK
<1>2. \A s \in Cache!Signatures : s \in Nat \ {0}
    BY CacheAssumption DEF Cache!Signatures
<1>3. QED
    BY <1>1, <1>2 DEF Signature

LEMMA FilteredRows ==
    ASSUME NEW seen \in Cache!Readings, NEW v
    PROVE  /\ Cache!Filtered(seen, v) \in Cache!Readings
           /\ \A i \in DOMAIN Cache!Filtered(seen, v) :
                 /\ i \in DOMAIN seen /\ i \in Cache!RowNumbers
                 /\ Cache!Filtered(seen, v)[i] = seen[i]
                 /\ seen[i] \in Cache!Statuses
                 /\ Cache!Passes(seen[i], v)
<1>1. PICK numbers \in SUBSET Cache!RowNumbers : seen \in [numbers -> Cache!Statuses]
    BY DEF Cache!Readings
<1> DEFINE passing == {j \in DOMAIN seen : Cache!Passes(seen[j], v)}
<1>2. passing \in SUBSET Cache!RowNumbers /\ \A i \in passing : seen[i] \in Cache!Statuses
    BY <1>1
<1>3. Cache!Filtered(seen, v) = [i \in passing |-> seen[i]]
    BY DEF Cache!Filtered
<1>4. Cache!Filtered(seen, v) \in [passing -> Cache!Statuses]
    BY <1>2, <1>3
<1>5. QED
    BY <1>1, <1>2, <1>3, <1>4 DEF Cache!Readings

LEMMA PassesOneGeneration ==
    ASSUME NEW v \in Cache!Variants, NEW value, Cache!Passes(value, v)
    PROVE  value = "deprecated" <=> v \in {"legacy-only", "legacy-unavailable"}
BY DEF Cache!Passes, Cache!Variants

LEMMA VariantForGeneration ==
    ASSUME NEW seen, NEW legacy \in BOOLEAN
    PROVE  /\ Cache!VariantFor(seen, legacy) \in Cache!Variants
           /\ legacy <=> Cache!VariantFor(seen, legacy)
                            \in {"legacy-only", "legacy-unavailable"}
BY DEF Cache!VariantFor, Cache!Variants

(***************************************************************************)
(* The file is saved.                                                      *)
(***************************************************************************)
LEMMA RewriteKeeps == ASSUME CacheInv, Cache!Rewrite PROVE CacheInv'
<1> USE DEF CacheInv
<1>1. UNCHANGED <<unread, csvCache, bm25Cache, keywords, cachePc, phase, call, tries,
                  before, cacheRows, variant, answer, calls>>
    BY DEF Cache!Rewrite, Cache!caches
<1>2. /\ Signature \in Nat \ {0} /\ past \in Seq(Cache!Files)
      /\ past[Signature] \in Cache!Files
      /\ \A s \in Cache!Signatures : s \in Nat \ {0}
    BY SignatureType
<1>3. PICK f \in Cache!Files : past' = Append(past, f)
    <2>1. PICK i \in 1 .. NumRows, value \in Cache!Statuses :
              past' = Append(past, [past[Signature] EXCEPT ![i] = value])
        BY DEF Cache!Rewrite, Cache!File, Cache!Signature, Signature
    <2>2. [past[Signature] EXCEPT ![i] = value] \in Cache!Files
        BY <1>2 DEF Cache!Files
    <2>3. QED
        BY <2>1, <2>2
<1>4. /\ Signature' = Signature + 1
      /\ \A s \in Nat \ {0} : s <= Signature => past'[s] = past[s]
    BY <1>2, <1>3 DEF Signature
<1>5. Cache!TypeOK'
    <2>1. Signature <= MaxWrites
        BY DEF Cache!Rewrite, Cache!Signature, Signature
    <2>2. Len(past') \in Cache!Signatures
        BY <1>2, <1>4, <2>1, CacheAssumption DEF Signature, Cache!Signatures
    <2>3. past' \in Seq(Cache!Files)
        BY <1>2, <1>3
    <2>4. QED
        BY <1>1, <2>2, <2>3 DEF Cache!TypeOK
<1>6. CacheHoldsTheFile'
    <2>1. csvCache # NoEntry => csvCache.sig \in Nat \ {0}
        BY <1>2 DEF Cache!TypeOK, Cache!Snapshots
    <2>2. \A v \in Cache!Variants : bm25Cache[v] # NoEntry => bm25Cache[v].sig \in Nat \ {0}
        BY <1>2 DEF Cache!TypeOK, Cache!Snapshots
    <2>3. QED
        BY <1>1, <1>2, <1>4, <2>1, <2>2 DEF CacheHoldsTheFile
<1>7. KeywordsAreNoOlder'
    <2>1. /\ keywords.sig # NoEntry => keywords.sig \in Nat \ {0}
          /\ keywords.from # NoEntry => keywords.from.sig \in Nat \ {0}
        BY <1>2 DEF Cache!TypeOK, Cache!Snapshots
    <2>2. QED
        BY <1>1, <1>2, <1>4, <2>1 DEF KeywordsAreNoOlder
<1>8. before \in Nat \ {0} /\ call.since \in Nat \ {0}
    BY <1>2 DEF Cache!TypeOK, Cache!Calls
<1>9. LoopReadsTheFile'
    BY <1>1, <1>2, <1>4, <1>8 DEF LoopReadsTheFile
<1>10. LoadedIsTheFile'
    BY <1>1, <1>2, <1>4, <1>8 DEF LoadedIsTheFile, LoopReadsTheFile
<1>11. FilterIsAsAsked' /\ Cache!IndexFitsRows'
    BY <1>1 DEF FilterIsAsAsked, Cache!IndexFitsRows
<1>12. AnswerIsFromTheFile'
    BY <1>1, <1>2, <1>4 DEF AnswerIsFromTheFile
<1>13. QED
    BY <1>5, <1>6, <1>7, <1>9, <1>10, <1>11, <1>12

(***************************************************************************)
(* The loop of _load_csv_snapshot.                                         *)
(***************************************************************************)

\* What a step leaves alone that touches neither the file nor a cache.
LEMMA CachesStay ==
    ASSUME CacheHoldsTheFile, KeywordsAreNoOlder, UNCHANGED <<past, unread, csvCache, bm25Cache, keywords>>
    PROVE  CacheHoldsTheFile' /\ KeywordsAreNoOlder' /\ Signature' = Signature
BY DEF CacheHoldsTheFile, KeywordsAreNoOlder, Signature

\* A step within a call: the answer is not touched.
LEMMA AnswerStays ==
    ASSUME AnswerIsFromTheFile, Cache!IndexFitsRows, UNCHANGED <<past, call, answer>>
    PROVE  AnswerIsFromTheFile' /\ Cache!IndexFitsRows'
BY DEF AnswerIsFromTheFile, Cache!IndexFitsRows, Signature

LEMMA StatKeeps == ASSUME CacheInv, Cache!Stat PROVE CacheInv'
<1> USE DEF CacheInv
<1>1. /\ UNCHANGED <<past, unread, csvCache, bm25Cache, keywords, phase, call, variant, answer, calls>>
      /\ cachePc = "stat"
    BY DEF Cache!Stat, Cache!caches
<1>2. CacheHoldsTheFile' /\ KeywordsAreNoOlder' /\ Signature' = Signature
    BY <1>1, CachesStay
<1>3. AnswerIsFromTheFile' /\ Cache!IndexFitsRows' /\ FilterIsAsAsked'
    BY <1>1, AnswerStays DEF FilterIsAsAsked
<1>4. call.since <= Signature /\ before <= Signature /\ Signature \in Cache!Signatures
    BY SignatureType DEF LoopReadsTheFile
<1>5. CASE Cache!CachedUnder(csvCache)
    <2>1. csvCache # NoEntry /\ csvCache.sig = Signature
        BY <1>5 DEF Cache!CachedUnder, Cache!Signature, Signature
    <2>2. cachePc' = "loaded" /\ cacheRows' = csvCache.rows /\ before' = Signature /\ tries' = tries
        BY <1>5, <2>1 DEF Cache!Stat
    <2>3. csvCache.rows \in Cache!Readings /\ csvCache.rows = past[Signature]
        BY <2>1 DEF Cache!TypeOK, Cache!Snapshots, CacheHoldsTheFile
    <2>4. Cache!TypeOK'
        BY <1>1, <1>4, <2>2, <2>3 DEF Cache!TypeOK
    <2>5. LoopReadsTheFile' /\ LoadedIsTheFile'
        BY <1>1, <1>2, <1>4, <2>2, <2>3, SignatureType
           DEF LoopReadsTheFile, LoadedIsTheFile
    <2>6. QED
        BY <1>2, <1>3, <2>4, <2>5
<1>6. CASE ~Cache!CachedUnder(csvCache)
    <2>1. cachePc' = "before" /\ tries' = 0 /\ UNCHANGED <<cacheRows, before>>
        BY <1>6 DEF Cache!Stat
    <2>2. 0 \in 0 .. Attempts /\ 0 < Attempts
        BY CacheAssumption
    <2>3. Cache!TypeOK'
        BY <1>1, <2>1, <2>2 DEF Cache!TypeOK
    <2>4. LoopReadsTheFile' /\ LoadedIsTheFile'
        BY <1>1, <1>2, <1>4, <2>1, <2>2 DEF LoopReadsTheFile, LoadedIsTheFile
    <2>5. QED
        BY <1>2, <1>3, <2>3, <2>4
<1>7. QED
    BY <1>5, <1>6

LEMMA StatBeforeKeeps == ASSUME CacheInv, Cache!StatBefore PROVE CacheInv'
<1> USE DEF CacheInv
<1>1. /\ UNCHANGED <<past, unread, csvCache, bm25Cache, keywords, phase, call, variant, answer, calls>>
      /\ cachePc = "before" /\ cachePc' = "read"
      /\ tries' = tries + 1 /\ before' = Signature /\ cacheRows' = <<>>
    BY DEF Cache!StatBefore, Cache!caches, Cache!Signature, Signature
<1>2. CacheHoldsTheFile' /\ KeywordsAreNoOlder' /\ Signature' = Signature
    BY <1>1, CachesStay
<1>3. AnswerIsFromTheFile' /\ Cache!IndexFitsRows' /\ FilterIsAsAsked'
    BY <1>1, AnswerStays DEF FilterIsAsAsked
<1>4. call.since <= Signature /\ Signature \in Cache!Signatures /\ Signature \in Nat
    BY SignatureType DEF LoopReadsTheFile
<1>5. tries' \in 0 .. Attempts
    <2>1. tries \in 0 .. Attempts /\ tries < Attempts
        BY <1>1 DEF Cache!TypeOK, LoopReadsTheFile
    <2>2. QED
        BY <1>1, <2>1, CacheAssumption
<1>6. /\ cacheRows' \in Cache!Readings
      /\ cacheRows' \in Seq(Cache!Statuses) /\ Len(cacheRows') < NumRows
      /\ DOMAIN cacheRows' = {}
    BY <1>1, ReadingTypes, CacheAssumption
<1>7. Cache!TypeOK'
    BY <1>1, <1>4, <1>5, <1>6 DEF Cache!TypeOK
<1>8. LoopReadsTheFile' /\ LoadedIsTheFile'
    BY <1>1, <1>2, <1>4, <1>6 DEF LoopReadsTheFile, LoadedIsTheFile
<1>9. QED
    BY <1>2, <1>3, <1>7, <1>8

LEMMA ReadRowKeeps == ASSUME CacheInv, Cache!ReadRow PROVE CacheInv'
<1> USE DEF CacheInv
<1>1. /\ UNCHANGED <<past, unread, csvCache, bm25Cache, keywords, phase, call, tries, before,
                     variant, answer, calls>>
      /\ cachePc = "read"
      /\ cacheRows' = Append(cacheRows, past[Signature][Len(cacheRows) + 1])
      /\ cachePc' = IF Len(cacheRows) + 1 = NumRows THEN "after" ELSE "read"
    BY DEF Cache!ReadRow, Cache!caches, Cache!File, Cache!Signature, Signature
<1>2. CacheHoldsTheFile' /\ KeywordsAreNoOlder' /\ Signature' = Signature
    BY <1>1, CachesStay
<1>3. AnswerIsFromTheFile' /\ Cache!IndexFitsRows' /\ FilterIsAsAsked'
    BY <1>1, AnswerStays DEF FilterIsAsAsked
<1>4. /\ cacheRows \in Seq(Cache!Statuses) /\ Len(cacheRows) < NumRows
      /\ before = Signature => \A i \in DOMAIN cacheRows : cacheRows[i] = past[Signature][i]
      /\ call.since <= before /\ call.since <= Signature /\ before <= Signature
    BY <1>1 DEF LoopReadsTheFile
<1>5. PICK k \in 1 .. NumRows : k = Len(cacheRows) + 1
    BY <1>4, CacheAssumption
<1>6. PICK value \in Cache!Statuses : value = past[Signature][k]
    <2>1. past[Signature] \in [1 .. NumRows -> Cache!Statuses]
        BY SignatureType DEF Cache!Files, Cache!RowNumbers
    <2>2. QED
        BY <2>1
<1>7. /\ cacheRows' \in Seq(Cache!Statuses) /\ Len(cacheRows') = k
      /\ DOMAIN cacheRows' = 1 .. k
      /\ cacheRows'[k] = value
      /\ \A i \in 1 .. k : i # k => i \in DOMAIN cacheRows /\ cacheRows'[i] = cacheRows[i]
    BY <1>1, <1>4, <1>5, <1>6
<1>8. Cache!TypeOK'
    <2>1. cacheRows' \in Cache!Readings
        BY <1>5, <1>7, ReadingTypes, CacheAssumption
    <2>2. QED
        BY <1>1, <2>1 DEF Cache!TypeOK
<1>9. LoopReadsTheFile'
    <2>1. before = Signature => \A i \in DOMAIN cacheRows' : cacheRows'[i] = past[Signature][i]
        BY <1>4, <1>6, <1>7
    <2>2. IF k = NumRows THEN cachePc' = "after" ELSE cachePc' = "read" /\ k < NumRows
        BY <1>1, <1>5, CacheAssumption
    <2>3. QED
        BY <1>1, <1>2, <1>4, <1>7, <2>1, <2>2 DEF LoopReadsTheFile
<1>10. LoadedIsTheFile'
    BY <1>1 DEF LoadedIsTheFile
<1>11. QED
    BY <1>2, <1>3, <1>8, <1>9, <1>10

\* A load that raises leaves no rows, in a call for labels only of a file that
\* has changed or that could not be read.
LEMMA FailKeeps ==
    ASSUME CacheInv, Cache!Fail, unread \subseteq unread', unread' \subseteq Cache!Signatures,
           UNCHANGED <<past, csvCache, bm25Cache, keywords, phase, call, tries, before,
                       variant, calls>>,
           phase = "keywords" => call.since < Signature \/ call.since \in unread'
    PROVE  CacheInv'
<1> USE DEF CacheInv
<1>1. Signature' = Signature
    BY DEF Signature
<1>2. CacheHoldsTheFile' /\ KeywordsAreNoOlder' /\ FilterIsAsAsked'
    BY <1>1 DEF CacheHoldsTheFile, KeywordsAreNoOlder, FilterIsAsAsked
<1>3. /\ cacheRows' = <<>>
      /\ \/ phase = "search" /\ cachePc' = "idle" /\ answer'.why = "read-error"
            /\ answer' \in Cache!Answers
         \/ phase # "search" /\ cachePc' = "loaded" /\ answer' = answer
    BY ReadingTypes DEF Cache!Fail, Cache!Finish, Cache!NoAnswer, Cache!Answers
<1>4. Cache!TypeOK'
    BY <1>3, ReadingTypes DEF Cache!TypeOK
<1>5. LoopReadsTheFile'
    BY <1>1, <1>3 DEF LoopReadsTheFile
<1>6. LoadedIsTheFile'
    BY <1>1, <1>3 DEF LoadedIsTheFile
<1>7. AnswerIsFromTheFile' /\ Cache!IndexFitsRows'
    <2>1. CASE answer' = answer
        BY <2>1, AnswerStays
    <2>2. CASE answer'.why = "read-error"
        BY <2>2 DEF AnswerIsFromTheFile, Cache!IndexFitsRows
    <2>3. QED
        BY <1>3, <2>1, <2>2
<1>8. QED
    BY <1>2, <1>4, <1>5, <1>6, <1>7

LEMMA ReadRaisesKeeps == ASSUME CacheInv, Cache!ReadRaises PROVE CacheInv'
<1>1. /\ UNCHANGED <<past, csvCache, bm25Cache, keywords, phase, call, tries, before,
                     variant, calls>>
      /\ cachePc = "read" /\ Cache!Fail
      /\ unread' = IF phase = "keywords" THEN unread \cup {Signature} ELSE unread
    BY DEF Cache!ReadRaises, Cache!caches, Cache!Signature, Signature
<1>2. unread \subseteq unread' /\ unread' \subseteq Cache!Signatures
    BY <1>1, SignatureType DEF CacheInv, Cache!TypeOK
<1>3. phase = "keywords" => call.since < Signature \/ call.since \in unread'
    <2>1. call.since \in Nat /\ Signature \in Nat /\ call.since <= Signature
        BY SignatureType DEF CacheInv, Cache!TypeOK, Cache!Calls, LoopReadsTheFile
    <2>2. QED
        BY <1>1, <2>1
<1>4. QED
    BY <1>1, <1>2, <1>3, FailKeeps

LEMMA StatAfterKeeps == ASSUME CacheInv, Cache!StatAfter PROVE CacheInv'
<1> USE DEF CacheInv
<1>1. /\ UNCHANGED <<past, unread, bm25Cache, keywords, phase, call, tries, before, variant, calls>>
      /\ cachePc = "after"
    BY DEF Cache!StatAfter
<1>2. FilterIsAsAsked'
    BY <1>1 DEF FilterIsAsAsked
<1>3. /\ cacheRows \in Seq(Cache!Statuses) /\ Len(cacheRows) = NumRows
      /\ before = Signature => \A i \in DOMAIN cacheRows : cacheRows[i] = past[Signature][i]
      /\ call.since <= before /\ call.since <= Signature /\ before <= Signature
    BY <1>1 DEF LoopReadsTheFile
<1>4. Signature' = Signature /\ Signature \in Nat /\ before \in Nat /\ call.since \in Nat
    <2>1. before \in Cache!Signatures /\ call.since \in Cache!Signatures
        BY DEF Cache!TypeOK, Cache!Calls
    <2>2. QED
        BY <1>1, <2>1, SignatureType DEF Signature
<1>5. CASE before = Signature
    <2>1. /\ csvCache' = [sig |-> before, rows |-> cacheRows]
          /\ cachePc' = "loaded" /\ UNCHANGED <<cacheRows, answer>>
        BY <1>5 DEF Cache!StatAfter, Cache!UnchangedSinceStat, Cache!Signature, Signature
    <2>2. cacheRows = past[before]
        <3>1. past[Signature] \in [1 .. NumRows -> Cache!Statuses]
            BY SignatureType DEF Cache!Files, Cache!RowNumbers
        <3>2. cacheRows \in [1 .. NumRows -> Cache!Statuses]
            BY <1>3
        <3>3. QED
            BY <1>3, <1>5, <3>1, <3>2
    <2>3. Cache!TypeOK'
        <3>1. csvCache' \in Cache!Snapshots
            BY <2>1 DEF Cache!TypeOK, Cache!Snapshots
        <3>2. QED
            BY <1>1, <2>1, <3>1 DEF Cache!TypeOK
    <2>4. CacheHoldsTheFile'
        BY <1>1, <1>3, <1>4, <2>1, <2>2 DEF CacheHoldsTheFile
    <2>5. KeywordsAreNoOlder'
        BY <1>1, <1>4 DEF KeywordsAreNoOlder
    <2>6. LoopReadsTheFile' /\ LoadedIsTheFile'
        BY <1>1, <1>3, <1>4, <2>1, <2>2 DEF LoopReadsTheFile, LoadedIsTheFile
    <2>7. AnswerIsFromTheFile' /\ Cache!IndexFitsRows'
        BY <1>1, <2>1, AnswerStays
    <2>8. QED
        BY <1>2, <2>3, <2>4, <2>5, <2>6, <2>7
<1>6. CASE before # Signature
    <2>1. /\ UNCHANGED csvCache
          /\ \/ cachePc' = "before" /\ tries < Attempts /\ UNCHANGED <<cacheRows, answer>>
             \/ Cache!Fail
        BY <1>6 DEF Cache!StatAfter, Cache!UnchangedSinceStat, Cache!MayRetry,
                    Cache!Signature, Signature
    <2>2. CacheHoldsTheFile' /\ KeywordsAreNoOlder'
        BY <1>1, <2>1, CachesStay
    <2>3. call.since < Signature
        BY <1>3, <1>4, <1>6
    <2>4. CASE cachePc' = "before" /\ tries < Attempts /\ UNCHANGED <<cacheRows, answer>>
        <3>1. Cache!TypeOK'
            BY <1>1, <2>1, <2>4 DEF Cache!TypeOK
        <3>2. LoopReadsTheFile' /\ LoadedIsTheFile'
            BY <1>1, <1>3, <1>4, <2>4 DEF LoopReadsTheFile, LoadedIsTheFile
        <3>3. AnswerIsFromTheFile' /\ Cache!IndexFitsRows'
            BY <1>1, <2>4, AnswerStays
        <3>4. QED
            BY <1>2, <2>2, <3>1, <3>2, <3>3
    <2>5. CASE Cache!Fail
        <3>1. unread \subseteq unread' /\ unread' \subseteq Cache!Signatures
            BY <1>1 DEF Cache!TypeOK
        <3>2. QED
            BY <1>1, <2>1, <2>3, <2>5, <3>1, FailKeeps
    <2>6. QED
        BY <2>1, <2>4, <2>5
<1>7. QED
    BY <1>5, <1>6

(***************************************************************************)
(* search_stack and detect_domain.                                         *)
(***************************************************************************)
LEMMA BeginKeeps ==
    ASSUME CacheInv, NEW what \in {"search", "detect"}, NEW asker \in {"filter", "keywords"},
           Cache!Begin(what, asker), cachePc' \in {"idle", "stat"}
    PROVE  CacheInv'
<1> USE DEF CacheInv
<1>1. /\ UNCHANGED <<past, unread, csvCache, bm25Cache, keywords, tries, before, cacheRows, variant>>
      /\ phase' = asker /\ answer' = Cache!NoAnswer
      /\ calls' = calls + 1 /\ calls < MaxCalls
    BY DEF Cache!Begin, Cache!caches
<1>2. PICK legacy \in BOOLEAN : call' = [does |-> what, legacy |-> legacy, since |-> Signature]
    BY DEF Cache!Begin, Cache!Signature, Signature
<1>3. CacheHoldsTheFile' /\ KeywordsAreNoOlder' /\ Signature' = Signature
    BY <1>1, CachesStay
<1>4. Signature \in Cache!Signatures /\ Signature \in Nat
    BY SignatureType
<1>5. call' \in Cache!Calls /\ call'.since = Signature
    BY <1>2, <1>4 DEF Cache!Calls
<1>6. Cache!NoAnswer \in Cache!Answers /\ Cache!NoAnswer.why = "none"
    BY ReadingTypes DEF Cache!NoAnswer, Cache!Answers
<1>7. calls' \in 0 .. MaxCalls
    <2>1. calls \in 0 .. MaxCalls
        BY DEF Cache!TypeOK
    <2>2. QED
        BY <1>1, <2>1, CacheAssumption
<1>8. Cache!TypeOK'
    BY <1>1, <1>5, <1>6, <1>7 DEF Cache!TypeOK
<1>9. LoopReadsTheFile' /\ LoadedIsTheFile' /\ FilterIsAsAsked'
    BY <1>1, <1>3, <1>4, <1>5 DEF LoopReadsTheFile, LoadedIsTheFile, FilterIsAsAsked
<1>10. AnswerIsFromTheFile' /\ Cache!IndexFitsRows'
    BY <1>1, <1>6 DEF AnswerIsFromTheFile, Cache!IndexFitsRows
<1>11. QED
    BY <1>3, <1>8, <1>9, <1>10

\* The rows that pass a filter are rows of the file, of the generation the
\* call asks for.
LEMMA FilteredAreAsAsked ==
    ASSUME NEW f \in Cache!Files, NEW v \in Cache!Variants, NEW legacy \in BOOLEAN,
           legacy <=> v \in {"legacy-only", "legacy-unavailable"}
    PROVE  \A i \in DOMAIN Cache!Filtered(f, v) :
              /\ i \in Cache!RowNumbers
              /\ Cache!Filtered(f, v)[i] = f[i]
              /\ (f[i] = "deprecated") = legacy
<1>1. f \in Cache!Readings
    BY ReadingTypes
<1>2. ASSUME NEW i \in DOMAIN Cache!Filtered(f, v)
      PROVE  (f[i] = "deprecated") <=> legacy
    <2>1. Cache!Passes(f[i], v)
        BY <1>1, FilteredRows
    <2>2. QED
        BY <2>1, PassesOneGeneration
<1>3. QED
    BY <1>1, <1>2, FilteredRows

LEMMA ChooseFilterKeeps == ASSUME CacheInv, Cache!ChooseFilter PROVE CacheInv'
<1> USE DEF CacheInv
<1>1. /\ UNCHANGED <<past, unread, csvCache, bm25Cache, keywords, call, tries, before, cacheRows, calls>>
      /\ cachePc = "loaded" /\ phase = "filter"
      /\ variant' = Cache!VariantFor(cacheRows, call.legacy)
    BY DEF Cache!ChooseFilter, Cache!caches
<1>2. CacheHoldsTheFile' /\ KeywordsAreNoOlder' /\ Signature' = Signature
    BY <1>1, CachesStay
<1>3. call.legacy \in BOOLEAN /\ before \in Cache!Signatures /\ cacheRows \in Cache!Readings
    BY DEF Cache!TypeOK, Cache!Calls
<1>4. /\ variant' \in Cache!Variants
      /\ call.legacy <=> variant' \in {"legacy-only", "legacy-unavailable"}
    BY <1>1, <1>3, VariantForGeneration
<1>5. LoopReadsTheFile' /\ LoadedIsTheFile' /\ FilterIsAsAsked'
      /\ cachePc' \in {"stat", "idle"} /\ phase' \in {"filter", "search"}
    <2>1. cachePc' \in {"stat", "idle"} /\ phase' \in {"filter", "search"}
        BY <1>1 DEF Cache!ChooseFilter, Cache!Finish
    <2>2. QED
        BY <1>1, <1>2, <1>4, <2>1 DEF LoopReadsTheFile, LoadedIsTheFile, FilterIsAsAsked
<1>6. CASE UNCHANGED answer
    <2>1. Cache!TypeOK'
        BY <1>1, <1>4, <1>5, <1>6 DEF Cache!TypeOK
    <2>2. QED
        BY <1>1, <1>2, <1>5, <1>6, <2>1, AnswerStays
<1>7. CASE ~(UNCHANGED answer)
    <2>1. PICK i \in DOMAIN Cache!Filtered(cacheRows, variant') :
              answer' = [Cache!NoAnswer EXCEPT !.why = "exact", !.sig = before,
                                               !.given = [j \in {i} |-> cacheRows[j]]]
        BY <1>7 DEF Cache!ChooseFilter, Cache!Finish
    <2>2. /\ answer'.why = "exact" /\ answer'.sig = before
          /\ answer'.given = [j \in {i} |-> cacheRows[j]] /\ answer'.indexed = <<>>
          /\ answer' = [why |-> "exact", sig |-> before,
                        given |-> [j \in {i} |-> cacheRows[j]], indexed |-> <<>>]
        BY <2>1 DEF Cache!NoAnswer
    <2>3. i \in DOMAIN cacheRows /\ i \in Cache!RowNumbers /\ cacheRows[i] \in Cache!Statuses
        BY <1>3, FilteredRows
    <2>4. cacheRows = past[before] /\ call.since <= before
        BY <1>1, <2>3 DEF LoadedIsTheFile
    <2>5. before <= Signature
        BY DEF LoopReadsTheFile
    <2>6. answer'.given \in Cache!Readings
        <3>1. [j \in {i} |-> cacheRows[j]] \in [{i} -> Cache!Statuses]
            BY <2>3
        <3>2. QED
            BY <2>2, <2>3, <3>1 DEF Cache!Readings
    <2>7. answer' \in Cache!Answers
        BY <1>3, <2>2, <2>6, ReadingTypes DEF Cache!Answers
    <2>8. Cache!TypeOK'
        BY <1>1, <1>4, <1>5, <2>7 DEF Cache!TypeOK
    <2>9. (cacheRows[i] = "deprecated") = call.legacy
        <3>1. past[before] \in Cache!Files
            BY <1>3, <2>5, SignatureType
        <3>2. QED
            BY <1>3, <1>4, <2>1, <2>4, <3>1, FilteredAreAsAsked
    <2>10. \A k \in DOMAIN answer'.given :
              k = i /\ answer'.given[k] = past[before][k]
        BY <2>2, <2>4
    <2>11. AnswerIsFromTheFile'
        BY <1>1, <1>2, <1>3, <2>2, <2>3, <2>4, <2>5, <2>9, <2>10 DEF AnswerIsFromTheFile
    <2>12. Cache!IndexFitsRows'
        BY <2>2 DEF Cache!IndexFitsRows
    <2>13. QED
        BY <1>2, <1>5, <2>8, <2>11, <2>12
<1>8. QED
    BY <1>6, <1>7

LEMMA TakeDataKeeps == ASSUME CacheInv, Cache!TakeData PROVE CacheInv'
<1> USE DEF CacheInv
<1>1. /\ UNCHANGED <<past, unread, csvCache, bm25Cache, keywords, phase, call, tries, before, variant, calls>>
      /\ cachePc = "loaded" /\ phase = "search"
      /\ cacheRows' = Cache!Filtered(cacheRows, variant)
      /\ \/ cachePc' = "index" /\ answer' = answer
         \/ cachePc' = "idle" /\ answer' = [Cache!NoAnswer EXCEPT !.why = "empty-data"]
    BY DEF Cache!TakeData, Cache!caches, Cache!Finish
<1>2. CacheHoldsTheFile' /\ KeywordsAreNoOlder' /\ Signature' = Signature
    BY <1>1, CachesStay
<1>3. cacheRows = past[before] /\ call.since <= before
    BY <1>1 DEF LoadedIsTheFile
<1>4. cacheRows' \in Cache!Readings
    BY <1>1, FilteredRows DEF Cache!TypeOK
<1>5. LoopReadsTheFile' /\ LoadedIsTheFile' /\ FilterIsAsAsked'
    BY <1>1, <1>2, <1>3 DEF LoopReadsTheFile, LoadedIsTheFile, FilterIsAsAsked
<1>6. CASE answer' = answer
    <2>1. Cache!TypeOK'
        BY <1>1, <1>4, <1>6 DEF Cache!TypeOK
    <2>2. QED
        BY <1>1, <1>2, <1>5, <1>6, <2>1, AnswerStays
<1>7. CASE cachePc' = "idle" /\ answer' = [Cache!NoAnswer EXCEPT !.why = "empty-data"]
    <2>1. answer' \in Cache!Answers /\ answer'.why = "empty-data"
        BY <1>7, ReadingTypes DEF Cache!NoAnswer, Cache!Answers
    <2>2. Cache!TypeOK'
        BY <1>1, <1>4, <1>7, <2>1 DEF Cache!TypeOK
    <2>3. AnswerIsFromTheFile' /\ Cache!IndexFitsRows'
        BY <2>1 DEF AnswerIsFromTheFile, Cache!IndexFitsRows
    <2>4. QED
        BY <1>2, <1>5, <2>2, <2>3
<1>8. QED
    BY <1>1, <1>6, <1>7

LEMMA RankKeeps == ASSUME CacheInv, Cache!Rank PROVE CacheInv'
<1> USE DEF CacheInv
<1> DEFINE cached == bm25Cache[variant]
           fitted == [sig |-> before, rows |-> cacheRows]
           index == IF cached # NoEntry /\ cached.sig = before THEN cached ELSE fitted
<1>1. /\ UNCHANGED <<past, unread, csvCache, keywords, phase, call, tries, before, cacheRows, variant, calls>>
      /\ cachePc = "index" /\ cachePc' = "idle"
      /\ bm25Cache' = [bm25Cache EXCEPT ![variant] = index]
      /\ answer' = [why |-> "ranked", sig |-> before, given |-> cacheRows, indexed |-> index.rows]
    BY DEF Cache!Rank, Cache!Finish, Cache!IndexKey
<1>2. /\ cacheRows = Cache!Filtered(past[before], variant)
      /\ phase = "search" /\ call.since <= before /\ before <= Signature
    BY <1>1 DEF LoadedIsTheFile, LoopReadsTheFile
<1>3. /\ variant \in Cache!Variants /\ before \in Cache!Signatures /\ call.legacy \in BOOLEAN
      /\ cacheRows \in Cache!Readings
      /\ bm25Cache \in [Cache!Variants -> Cache!Snapshots \cup {NoEntry}]
    BY DEF Cache!TypeOK, Cache!Calls
<1>4. index = fitted
    <2>1. CASE cached # NoEntry /\ cached.sig = before
        <3>1. cached \in Cache!Snapshots
            BY <1>3, <2>1
        <3>2. cached.rows = cacheRows
            BY <1>2, <1>3, <2>1 DEF CacheHoldsTheFile
        <3>3. QED
            BY <2>1, <3>1, <3>2 DEF Cache!Snapshots
    <2>2. CASE ~(cached # NoEntry /\ cached.sig = before)
        BY <2>2
    <2>3. QED
        BY <2>1, <2>2
<1>5. /\ bm25Cache' = [bm25Cache EXCEPT ![variant] = fitted]
      /\ answer' = [why |-> "ranked", sig |-> before, given |-> cacheRows, indexed |-> cacheRows]
    <2>1. fitted.rows = cacheRows
        OBVIOUS
    <2> HIDE DEF index, fitted
    <2>2. QED
        BY <1>1, <1>4, <2>1
<1>6. Signature' = Signature
    BY <1>1 DEF Signature
<1>7. Cache!TypeOK'
    <2>1. fitted \in Cache!Snapshots
        BY <1>3 DEF Cache!Snapshots
    <2>2. bm25Cache' \in [Cache!Variants -> Cache!Snapshots \cup {NoEntry}]
        BY <1>3, <1>5, <2>1
    <2>3. answer' \in Cache!Answers
        BY <1>3, <1>5 DEF Cache!Answers
    <2>4. QED
        BY <1>1, <2>2, <2>3 DEF Cache!TypeOK
<1>8. CacheHoldsTheFile'
    <2>1. fitted.sig <= Signature /\ fitted.rows = Cache!Filtered(past[fitted.sig], variant)
        BY <1>2
    <2>2. \A v \in Cache!Variants :
              bm25Cache'[v] = IF v = variant THEN fitted ELSE bm25Cache[v]
        BY <1>3, <1>5
    <2> HIDE DEF fitted
    <2>3. QED
        BY <1>1, <1>6, <2>1, <2>2 DEF CacheHoldsTheFile
<1>9. KeywordsAreNoOlder' /\ LoopReadsTheFile' /\ LoadedIsTheFile' /\ FilterIsAsAsked'
    BY <1>1, <1>6
       DEF KeywordsAreNoOlder, LoopReadsTheFile, LoadedIsTheFile, FilterIsAsAsked
<1>10. AnswerIsFromTheFile'
    <2>1. past[before] \in Cache!Files
        BY <1>2, <1>3, SignatureType
    <2>2. call.legacy <=> variant \in {"legacy-only", "legacy-unavailable"}
        BY <1>2 DEF FilterIsAsAsked
    <2>3. \A i \in DOMAIN cacheRows :
              /\ i \in Cache!RowNumbers
              /\ cacheRows[i] = past[before][i]
              /\ (cacheRows[i] = "deprecated") = call.legacy
        BY <1>2, <1>3, <2>1, <2>2, FilteredAreAsAsked
    <2>4. answer'.sig = before /\ answer'.given = cacheRows
        BY <1>5
    <2>5. QED
        BY <1>1, <1>2, <1>3, <1>6, <2>3, <2>4 DEF AnswerIsFromTheFile
<1>11. Cache!IndexFitsRows'
    BY <1>5 DEF Cache!IndexFitsRows
<1>12. QED
    BY <1>7, <1>8, <1>9, <1>10, <1>11

LEMMA KeepKeywordsKeeps == ASSUME CacheInv, Cache!KeepKeywords PROVE CacheInv'
<1> USE DEF CacheInv
<1> DEFINE snapshot == [sig |-> before, rows |-> cacheRows]
<1>1. /\ UNCHANGED <<past, unread, csvCache, bm25Cache, phase, call, tries, before, cacheRows,
                     variant, answer, calls>>
      /\ cachePc = "loaded" /\ cachePc' = "idle"
      /\ keywords' = [sig |-> call.since,
                      from |-> IF cacheRows = <<>> THEN NoEntry ELSE snapshot]
    BY DEF Cache!KeepKeywords, Cache!KeywordsSignature
<1>0. phase = "keywords"
    BY DEF Cache!KeepKeywords
<1>2. Signature' = Signature
    BY <1>1 DEF Signature
<1>3. /\ call.since \in Cache!Signatures /\ before \in Cache!Signatures
      /\ cacheRows \in Cache!Readings
      /\ call.since <= Signature /\ before <= Signature
    BY DEF Cache!TypeOK, Cache!Calls, LoopReadsTheFile
<1>4. snapshot \in Cache!Snapshots /\ snapshot # NoEntry
    <2>1. snapshot \in Cache!Snapshots
        BY <1>3 DEF Cache!Snapshots
    <2>2. QED
        BY <2>1, CacheAssumption
<1>5. /\ cacheRows # <<>> => cacheRows = past[before] /\ call.since <= before
      /\ cacheRows = <<>> => call.since < Signature \/ call.since \in unread
    <2>1. past[before] # <<>>
        BY <1>3, ReadingTypes, SignatureType
    <2>2. QED
        BY <1>0, <1>1, <2>1 DEF LoadedIsTheFile
<1>6. KeywordsAreNoOlder'
    <2>1. /\ keywords'.sig = call.since
          /\ cacheRows = <<>> => keywords'.from = NoEntry
          /\ cacheRows # <<>> => keywords'.from = snapshot
        BY <1>1
    <2>2. snapshot.sig = before /\ snapshot.rows = cacheRows
        OBVIOUS
    <2> HIDE DEF snapshot
    <2>3. QED
        BY <1>1, <1>2, <1>3, <1>4, <1>5, <2>1, <2>2 DEF KeywordsAreNoOlder
<1>7. Cache!TypeOK'
    <2>1. keywords'.sig \in Cache!Signatures \cup {NoEntry}
          /\ keywords'.from \in Cache!Snapshots \cup {NoEntry}
        <3> HIDE DEF snapshot
        <3>1. QED
            BY <1>1, <1>3, <1>4
    <2>2. QED
        BY <1>1, <2>1 DEF Cache!TypeOK
<1>8. CacheHoldsTheFile' /\ LoopReadsTheFile' /\ LoadedIsTheFile' /\ FilterIsAsAsked'
    BY <1>1, <1>2
       DEF CacheHoldsTheFile, LoopReadsTheFile, LoadedIsTheFile, FilterIsAsAsked
<1>9. AnswerIsFromTheFile' /\ Cache!IndexFitsRows'
    BY <1>1, AnswerStays
<1>10. QED
    BY <1>6, <1>7, <1>8, <1>9

LEMMA CacheStarts == ASSUME Cache!Init PROVE CacheInv
<1>1. /\ past \in [1 .. 1 -> Cache!Files] /\ unread = {}
      /\ csvCache = NoEntry /\ bm25Cache = [v \in Cache!Variants |-> NoEntry]
      /\ keywords = [sig |-> NoEntry, from |-> NoEntry]
      /\ cachePc = "idle" /\ phase = "filter"
      /\ call = [does |-> "search", legacy |-> FALSE, since |-> 1]
      /\ tries = 0 /\ before = 1 /\ cacheRows = <<>>
      /\ variant = "non-legacy" /\ answer = Cache!NoAnswer /\ calls = 0
    BY DEF Cache!Init
<1>2. past \in Seq(Cache!Files) /\ Len(past) = 1
    <2>1. ASSUME NEW n \in Nat, NEW f \in [1 .. n -> Cache!Files]
          PROVE  f \in Seq(Cache!Files) /\ Len(f) = n
        OBVIOUS
    <2>2. QED
        BY <1>1, <2>1
<1>3. 1 \in Cache!Signatures /\ 0 \in 0 .. Attempts /\ 0 \in 0 .. MaxCalls
    BY CacheAssumption DEF Cache!Signatures
<1>4. Cache!NoAnswer \in Cache!Answers /\ Cache!NoAnswer.why = "none"
    BY ReadingTypes DEF Cache!NoAnswer, Cache!Answers
<1>5. call \in Cache!Calls /\ call.since = 1
    BY <1>1, <1>3 DEF Cache!Calls
<1>6. Cache!TypeOK
    <2>1. bm25Cache \in [Cache!Variants -> Cache!Snapshots \cup {NoEntry}]
        BY <1>1
    <2>2. cacheRows \in Cache!Readings
        BY <1>1, ReadingTypes
    <2>3. variant \in Cache!Variants
        BY <1>1 DEF Cache!Variants
    <2>4. QED
        BY <1>1, <1>2, <1>3, <1>4, <1>5, <2>1, <2>2, <2>3 DEF Cache!TypeOK
<1>7. CacheHoldsTheFile /\ KeywordsAreNoOlder
    BY <1>1 DEF CacheHoldsTheFile, KeywordsAreNoOlder
<1>8. LoopReadsTheFile /\ LoadedIsTheFile /\ FilterIsAsAsked
    BY <1>1, <1>2, <1>5
       DEF LoopReadsTheFile, LoadedIsTheFile, FilterIsAsAsked, Signature
<1>9. AnswerIsFromTheFile /\ Cache!IndexFitsRows
    BY <1>1, <1>4 DEF AnswerIsFromTheFile, Cache!IndexFitsRows
<1>10. QED
    BY <1>6, <1>7, <1>8, <1>9 DEF CacheInv

LEMMA CacheStep ==
    ASSUME CacheInv, [CatalogueNext]_allVars, part = "cache"
    PROVE  CacheInv'
<1>1. CASE Cache!SearchStack
    BY <1>1, BeginKeeps DEF Cache!SearchStack
<1>2. CASE Cache!DetectDomain
    <2>1. Cache!Begin("detect", "keywords") /\ cachePc' \in {"idle", "stat"}
        BY <1>2 DEF Cache!DetectDomain
    <2>2. QED
        BY <2>1, BeginKeeps
<1>3. CASE UNCHANGED allVars
    <2>1. UNCHANGED cacheVars
        BY <1>3 DEF allVars
    <2>2. Cache!TypeOK'
        BY <2>1 DEF cacheVars, CacheInv, Cache!TypeOK
    <2>3. CacheHoldsTheFile' /\ KeywordsAreNoOlder' /\ Signature' = Signature
        BY <2>1, CachesStay DEF cacheVars, CacheInv
    <2>4. LoopReadsTheFile' /\ LoadedIsTheFile' /\ FilterIsAsAsked'
        BY <2>1, <2>3
           DEF cacheVars, CacheInv, LoopReadsTheFile, LoadedIsTheFile, FilterIsAsAsked
    <2>5. AnswerIsFromTheFile' /\ Cache!IndexFitsRows'
        BY <2>1, AnswerStays DEF cacheVars, CacheInv
    <2>6. QED
        BY <2>2, <2>3, <2>4, <2>5 DEF CacheInv
<1>4. Cache!Next \/ UNCHANGED allVars
    BY DEF CatalogueNext
<1>5. QED
    BY <1>1, <1>2, <1>3, <1>4, RewriteKeeps, StatKeeps, StatBeforeKeeps, ReadRowKeeps,
       ReadRaisesKeeps, StatAfterKeeps, ChooseFilterKeeps, TakeDataKeeps, RankKeeps, KeepKeywordsKeeps
       DEF Cache!Next

LEMMA CacheKeeps == CatalogueSpec => [](part = "cache" => CacheInv)
<1>1. CatalogueInit => (part = "cache" => CacheInv)
    BY CacheStarts DEF CatalogueInit
<1>2. (part = "cache" => CacheInv) /\ [CatalogueNext]_allVars
        => (part = "cache" => CacheInv)'
    BY CacheStep, PartStays
<1>3. QED
    BY <1>1, <1>2, PTL DEF CatalogueSpec

\* What is persisted and what is searched keep their types.
THEOREM CatalogueTypeCorrect == CatalogueSpec => []CatalogueTypeOK
<1>1. CacheInv => Cache!TypeOK
    BY DEF CacheInv
<1>2. QED
    BY <1>1, CacheKeeps, PersistAlone, PersistTypeCorrect, PTL DEF CatalogueTypeOK

\* However often a file of any length is saved meanwhile: a search answers from
\* the file as it was at some time during the call, and with rows of the
\* generation it was asked for.
THEOREM SearchesAreCurrent == CatalogueSpec => []AnswersAreCurrent
<1>1. CacheInv => Cache!AnswersAreCurrent
    <2> SUFFICES ASSUME CacheInv, answer.why \in {"ranked", "exact"}
                 PROVE  /\ answer.sig >= call.since
                        /\ \A i \in DOMAIN answer.given :
                              /\ answer.given[i] \in Cache!ToSet(past[answer.sig])
                              /\ (answer.given[i] = "deprecated") = call.legacy
        BY DEF Cache!AnswersAreCurrent
    <2>1. /\ answer.sig \in Cache!Signatures /\ call.since \in Cache!Signatures
          /\ call.since <= answer.sig /\ answer.sig <= Signature
        BY DEF CacheInv, AnswerIsFromTheFile, Cache!TypeOK, Cache!Calls
    <2>2. answer.sig >= call.since
        BY <2>1, SignatureType DEF CacheInv
    <2>3. PICK f \in Cache!Files : f = past[answer.sig]
        BY <2>1, SignatureType DEF CacheInv
    <2>4. \A i \in Cache!RowNumbers : f[i] \in Cache!ToSet(f)
        BY <2>3 DEF Cache!Files, Cache!ToSet
    <2>5. \A i \in DOMAIN answer.given :
             /\ i \in Cache!RowNumbers /\ answer.given[i] = f[i]
             /\ (answer.given[i] = "deprecated") = call.legacy
        BY <2>3 DEF CacheInv, AnswerIsFromTheFile
    <2>6. QED
        BY <2>2, <2>3, <2>4, <2>5
<1>2. QED
    BY <1>1, CacheKeeps, PTL DEF AnswersAreCurrent

\* Nothing a call leaves in a cache misleads a later one: rows filed under a
\* signature are those of the file that had it, an index is fitted on the rows
\* it is used for, and keywords taken for good are those of the file, or the seed
\* where the file could not be read.
THEOREM CachesKeepSound == CatalogueSpec => []CachesAreSound
<1>1. CacheInv => Cache!SnapshotsAreWhole
    BY DEF CacheInv, CacheHoldsTheFile, Cache!SnapshotsAreWhole
<1>2. CacheInv => Cache!KeywordsAreOfTheFile
    <2> SUFFICES ASSUME CacheInv, keywords.sig = Signature
                 PROVE  /\ keywords.from = NoEntry => Signature \in unread
                        /\ keywords.from # NoEntry => keywords.from.rows = past[Signature]
        BY DEF Cache!KeywordsAreOfTheFile, Cache!Signature, Cache!File, Signature
    <2>1. Signature \in Nat /\ Signature # NoEntry
        BY SignatureType, CacheAssumption DEF CacheInv
    <2>2. keywords.from = NoEntry => Signature \in unread
        BY <2>1 DEF CacheInv, KeywordsAreNoOlder
    <2>3. ASSUME keywords.from # NoEntry PROVE keywords.from.rows = past[Signature]
        <3>1. keywords.from.sig \in Nat
            BY <2>3, SignatureType DEF CacheInv, Cache!TypeOK, Cache!Snapshots
        <3>2. keywords.from.sig = Signature
            BY <2>1, <2>3, <3>1 DEF CacheInv, KeywordsAreNoOlder
        <3>3. QED
            BY <2>3, <3>2 DEF CacheInv, KeywordsAreNoOlder
    <2>4. QED
        BY <2>2, <2>3
<1>3. QED
    BY <1>1, <1>2, CacheKeeps, PTL DEF CachesAreSound, CacheInv

-----------------------------------------------------------------------------
(***************************************************************************)
(* StyleCatalog.  In a catalogue that is accepted a name belongs to one    *)
(* row, so that its first row is its last, and the parents of a deprecated *)
(* style end with the first of them.                                       *)
(***************************************************************************)
Tables == [Styles!Ids -> Styles!Rows]

StylesInv == rows \in Tables /\ rule \in Styles!Rules

LEMMA OrderType ==
    /\ \A k \in DOMAIN Order : k \in Nat /\ Order[k] \in Styles!Ids
    /\ \A i \in Styles!Ids : \E k \in DOMAIN Order : Order[k] = i
    /\ \A i \in Styles!Ids : i # Styles!None /\ i # Styles!Unknown
    /\ 1 \in DOMAIN Order
<1>1. Order \in Seq(Styles!Ids) /\ Order # <<>>
    BY StylesAssumption
<1>2. \A k \in DOMAIN Order : k \in Nat /\ Order[k] \in Styles!Ids
    BY <1>1
<1>3. \A i \in Styles!Ids : \E k \in DOMAIN Order : Order[k] = i
    BY DEF Styles!Ids, Styles!ToSet
<1>4. \A i \in Styles!Ids : i # Styles!None /\ i # Styles!Unknown
    BY StylesAssumption
<1>5. 1 \in DOMAIN Order
    BY <1>1
<1>6. QED
    BY <1>2, <1>3, <1>4, <1>5

LEMMA NamedOnce ==
    ASSUME NEW table, Styles!IdentitiesAreUnambiguous(table),
           NEW name, NEW k \in Styles!Named(table, name)
    PROVE  /\ k \in DOMAIN Order
           /\ Styles!LastNamed(table, name) = Order[k]
           /\ Styles!FirstNamed(table, name) = Order[k]
<1>1. k \in DOMAIN Order /\ k \in Nat /\ Order[k] \in Styles!Ids
    BY OrderType DEF Styles!Named
<1>2. \A j \in Styles!Named(table, name) : j = k
    <2> TAKE j \in Styles!Named(table, name)
    <2>1. /\ j \in DOMAIN Order /\ Order[j] \in Styles!Ids
          /\ name \in Styles!Identities(table, Order[j])
          /\ name \in Styles!Identities(table, Order[k])
        BY OrderType DEF Styles!Named
    <2>2. Order[j] = Order[k]
        BY <1>1, <2>1 DEF Styles!IdentitiesAreUnambiguous
    <2>3. QED
        BY <1>1, <2>1, <2>2, StylesAssumption
<1>3. Styles!Named(table, name) = {k}
    BY <1>2
<1>4. Styles!Max({k}) = k /\ Styles!Min({k}) = k
    <2>1. k >= k /\ k <= k
        BY <1>1
    <2>2. Styles!Max({k}) = k
        BY <2>1 DEF Styles!Max
    <2>3. Styles!Min({k}) = k
        BY <2>1 DEF Styles!Min
    <2>4. QED
        BY <2>2, <2>3
<1>5. QED
    BY <1>1, <1>3, <1>4 DEF Styles!LastNamed, Styles!FirstNamed

\* The row of a name is the first with it and the last; a Style ID is a name
\* of its row.
LEMMA OneRowPerName ==
    ASSUME NEW table, Styles!IdentitiesAreUnambiguous(table)
    PROVE  /\ \A name : /\ Styles!FirstNamed(table, name) = Styles!LastNamed(table, name)
                        /\ Styles!LastNamed(table, name) # Styles!None =>
                              Styles!LastNamed(table, name) \in Styles!Ids
           /\ \A i \in Styles!Ids : Styles!LastNamed(table, i) = i
<1>1. ASSUME NEW name
      PROVE  /\ Styles!FirstNamed(table, name) = Styles!LastNamed(table, name)
             /\ Styles!LastNamed(table, name) # Styles!None =>
                   Styles!LastNamed(table, name) \in Styles!Ids
    <2>1. CASE Styles!Named(table, name) = {}
        BY <2>1 DEF Styles!FirstNamed, Styles!LastNamed
    <2>2. CASE Styles!Named(table, name) # {}
        <3>1. PICK k : k \in Styles!Named(table, name)
            BY <2>2
        <3>2. QED
            BY <3>1, NamedOnce, OrderType
    <2>3. QED
        BY <2>1, <2>2
<1>2. ASSUME NEW i \in Styles!Ids
      PROVE  Styles!LastNamed(table, i) = i
    <2>1. PICK k \in DOMAIN Order : Order[k] = i
        BY OrderType
    <2>2. k \in Styles!Named(table, i)
        BY <2>1 DEF Styles!Named, Styles!Identities
    <2>3. QED
        BY <2>1, <2>2, NamedOnce
<1>3. QED
    BY <1>1, <1>2

\* None and the unknown name are not names of any row.
LEMMA NoRowOfNone ==
    ASSUME NEW table \in Tables, NEW name \in {Styles!None, Styles!Unknown}
    PROVE  Styles!LastNamed(table, name) = Styles!None
<1>1. \A k \in DOMAIN Order : name \notin Styles!Identities(table, Order[k])
    <2>1. \A k \in DOMAIN Order : table[Order[k]].names \subseteq Names
        BY OrderType DEF Tables, Styles!Rows
    <2>2. QED
        BY <2>1, OrderType, StylesAssumption DEF Styles!Identities
<1>2. QED
    BY <1>1 DEF Styles!LastNamed, Styles!Named

\* What _resolve_style makes of the row i of a name.
LEMMA ResolvedByOneHop ==
    ASSUME NEW table \in Tables, NEW r, Styles!Valid(table, r),
           NEW name, NEW i, i = Styles!LastNamed(table, name), i # Styles!None
    PROVE  /\ i \in Styles!Ids
           /\ Styles!ResolveStyle(table, name) =
                 IF table[i].status # "deprecated" THEN i ELSE table[i].parent
           /\ Styles!ResolveStyle(table, name) # Styles!None =>
                 /\ Styles!ResolveStyle(table, name) \in Styles!Ids
                 /\ table[Styles!ResolveStyle(table, name)].status # "deprecated"
<1>1. /\ Styles!IdentitiesAreUnambiguous(table) /\ Styles!ParentsAreActive(table)
    BY DEF Styles!Valid
<1>2. i \in Styles!Ids
    BY <1>1, OneRowPerName
<1> DEFINE Closed(S) ==
        /\ S \in SUBSET Styles!Ids /\ i \in S
        /\ \A j \in S : table[j].status = "deprecated" =>
              Styles!LastNamed(table, table[j].parent) \in S \cup {Styles!None}
           live == {j \in Styles!Reached(table, i) : table[j].status # "deprecated"}
<1>3. Styles!Reached(table, i) = {j \in Styles!Ids : \A S : Closed(S) => j \in S}
    BY DEF Styles!Reached
<1>4. Styles!ResolveStyle(table, name) =
          IF live = {} THEN Styles!None ELSE CHOOSE j \in live : TRUE
    BY DEF Styles!ResolveStyle
<1>5. CASE table[i].status # "deprecated"
    <2>1. Closed({i})
        BY <1>2, <1>5
    <2>2. Styles!Reached(table, i) = {i}
        BY <1>2, <1>3, <2>1
    <2>3. live = {i}
        BY <1>5, <2>2
    <2>4. Styles!ResolveStyle(table, name) = i
        BY <1>4, <2>3
    <2>5. QED
        BY <1>2, <1>5, <2>4
<1>6. CASE table[i].status = "deprecated" /\ table[i].parent = Styles!None
    <2>1. Styles!LastNamed(table, table[i].parent) = Styles!None
        BY <1>6, NoRowOfNone
    <2>2. Closed({i})
        BY <1>2, <2>1
    <2>3. Styles!Reached(table, i) = {i}
        BY <1>2, <1>3, <2>2
    <2>4. live = {}
        BY <1>6, <2>3
    <2>5. QED
        BY <1>2, <1>4, <1>6, <2>4
<1>7. CASE table[i].status = "deprecated" /\ table[i].parent # Styles!None
    <2>1. PICK p \in Styles!Ids : p = table[i].parent /\ table[p].status # "deprecated"
        BY <1>1, <1>2, <1>7 DEF Styles!ParentsAreActive
    <2>2. Styles!LastNamed(table, p) = p
        BY <1>1, OneRowPerName
    <2>3. Closed({i, p})
        BY <1>2, <2>1, <2>2
    <2>4. ASSUME NEW S, Closed(S) PROVE i \in S /\ p \in S
        <3>1. Styles!LastNamed(table, table[i].parent) = p /\ p # Styles!None
            BY <1>7, <2>1, <2>2
        <3>2. i \in S /\ Styles!LastNamed(table, table[i].parent) \in S \cup {Styles!None}
            BY <1>7, <2>4
        <3> HIDE DEF Closed
        <3>3. QED
            BY <3>1, <3>2
    <2>5. Styles!Reached(table, i) = {i, p}
        <3> HIDE DEF Closed
        <3>1. QED
            BY <1>2, <1>3, <2>3, <2>4
    <2>6. live = {p}
        BY <1>7, <2>1, <2>5
    <2>7. Styles!ResolveStyle(table, name) = p
        BY <1>4, <2>6
    <2>8. QED
        BY <1>2, <1>7, <2>1, <2>7
<1>8. QED
    BY <1>5, <1>6, <1>7

\* What _resolve_style makes of a name is the style the name stands for.
LEMMA ResolvedAsMeant ==
    ASSUME NEW table \in Tables, NEW r, Styles!Valid(table, r), NEW name
    PROVE  /\ Styles!ResolveStyle(table, name) = Styles!StyleOf(table, name)
           /\ Styles!StyleOf(table, name) # Styles!None =>
                 /\ Styles!StyleOf(table, name) \in Styles!Ids
                 /\ table[Styles!StyleOf(table, name)].status # "deprecated"
<1>1. PICK i : i = Styles!LastNamed(table, name)
    OBVIOUS
<1>2. CASE i = Styles!None
    BY <1>1, <1>2 DEF Styles!ResolveStyle, Styles!StyleOf
<1>3. CASE i # Styles!None
    <2>1. Styles!StyleOf(table, name) =
              IF table[i].status # "deprecated" THEN i ELSE table[i].parent
        BY <1>1, <1>3 DEF Styles!StyleOf
    <2>2. QED
        BY <1>1, <1>3, <2>1, ResolvedByOneHop
<1>4. QED
    BY <1>2, <1>3

LEMMA RoutesMeet == ASSUME StylesInv PROVE Styles!RoutesAgree
<1> SUFFICES ASSUME Styles!Valid(rows, rule), NEW name,
                    Styles!ResolveStyle(rows, name) # Styles!None
             PROVE  Styles!Search(rows, name) = Styles!ResolveStyle(rows, name)
    BY DEF Styles!RoutesAgree
<1>1. rows \in Tables
    BY DEF StylesInv
<1>2. Styles!IdentitiesAreUnambiguous(rows)
    BY DEF Styles!Valid
<1>3. PICK i : i = Styles!LastNamed(rows, name)
    OBVIOUS
<1>4. i # Styles!None
    BY <1>3 DEF Styles!ResolveStyle
<1>5. Styles!Search(rows, name) = Styles!Destination(rows, i)
    BY <1>2, <1>3, <1>4, OneRowPerName DEF Styles!Search
<1>6. Styles!ResolveStyle(rows, name) =
          IF rows[i].status # "deprecated" THEN i ELSE rows[i].parent
    BY <1>1, <1>3, <1>4, ResolvedByOneHop
<1>7. QED
    BY <1>5, <1>6 DEF Styles!Destination

LEMMA Short ==
    ASSUME NEW S
    PROVE  /\ <<>> \in Seq(S) /\ Len(<<>>) = 0
           /\ \A x \in S : <<x>> \in Seq(S) /\ Len(<<x>>) = 1 /\ <<x>>[1] = x
<1>1. <<>> \in Seq(S) /\ Len(<<>>) = 0
    OBVIOUS
<1>2. ASSUME NEW x \in S PROVE <<x>> \in Seq(S) /\ Len(<<x>>) = 1 /\ <<x>>[1] = x
    OBVIOUS
<1>3. QED
    BY <1>1, <1>2

LEMMA Joined ==
    ASSUME NEW S, NEW s \in Seq(S), NEW t \in Seq(S)
    PROVE  /\ s \o t \in Seq(S)
           /\ Len(s \o t) = Len(s) + Len(t)
           /\ DOMAIN (s \o t) = 1 .. Len(s) + Len(t)
           /\ \A k \in 1 .. Len(s) : (s \o t)[k] = s[k]
           /\ \A k \in 1 .. Len(t) : (s \o t)[Len(s) + k] = t[k]
OBVIOUS

\* A set of numbers has a least one.
LEMMA LeastExists ==
    ASSUME NEW S \in SUBSET Nat, S # {}
    PROVE  \E x \in S : \A y \in S : x <= y
<1> DEFINE R == OpToRel(<, Nat)
<1>1. IsWellFoundedOn(R, Nat)
    BY NatLessThanWellFounded
<1>2. \A y, x \in Nat : y < x => <<y, x>> \in R
    BY DEF OpToRel
<1> HIDE DEF R
<1>3. PICK x \in S : \A y \in S : ~(<<y, x>> \in R)
    <2>1. S \subseteq Nat
        OBVIOUS
    <2>2. QED
        BY <1>1, <2>1, WFMin, Zenon
<1>4. ASSUME NEW y \in S PROVE x <= y
    <2>1. x \in Nat /\ y \in Nat /\ <<y, x>> \notin R
        BY <1>3
    <2>2. ~(y < x)
        BY <1>2, <2>1
    <2>3. QED
        BY <2>1, <2>2
<1>5. QED
    BY <1>4

LEMMA MinIs ==
    ASSUME NEW S \in SUBSET Nat, NEW m \in S, \A k \in S : m <= k
    PROVE  Styles!Min(S) = m
<1>1. m \in Nat /\ \A k \in S : k \in Nat
    OBVIOUS
<1>2. \A k \in S : (\A y \in S : k <= y) => k = m
    BY <1>1
<1>3. QED
    BY <1>2 DEF Styles!Min

\* The first name that resolves decides.
LEMMA FirstThatResolves ==
    ASSUME NEW table, NEW names, NEW n \in Nat,
           DOMAIN names = 1 .. n, NEW m \in 1 .. n,
           \A k \in 1 .. n : k < m => Styles!ResolveStyle(table, names[k]) = Styles!None,
           Styles!ResolveStyle(table, names[m]) # Styles!None
    PROVE  Styles!SelectBestMatch(table, names) = Styles!ResolveStyle(table, names[m])
<1> DEFINE resolving ==
        {k \in DOMAIN names : Styles!ResolveStyle(table, names[k]) # Styles!None}
<1>1. m \in resolving /\ resolving \in SUBSET Nat /\ \A k \in resolving : m <= k
    OBVIOUS
<1>2. Styles!Min(resolving) = m
    <2> HIDE DEF resolving
    <2>1. QED
        BY <1>1, MinIs
<1>3. QED
    BY <1>1, <1>2 DEF Styles!SelectBestMatch

Words == Styles!Ids \cup Names \cup {Styles!Unknown}

\* The names a rule puts forward: its action if that stands for a style, and
\* if not, its Style_Priority, which is the name of a row that is alive.
LEMMA RuleNames ==
    ASSUME NEW table \in Tables, NEW r \in Styles!Rules, Styles!Valid(table, r),
           NEW byRule,
           byRule = IF Styles!StyleOf(table, r.action) # Styles!None
                    THEN Styles!StyleOf(table, r.action)
                    ELSE Styles!LastNamed(table, r.priority),
           NEW names, names = Styles!StylePriority(table, r)
    PROVE  /\ names \in Seq(Words) /\ byRule # Styles!None
           /\ \E m \in 1 .. Len(names) :
                 /\ \A k \in 1 .. Len(names) :
                       k < m => Styles!ResolveStyle(table, names[k]) = Styles!None
                 /\ Styles!ResolveStyle(table, names[m]) = byRule
<1>1. \A name : Styles!ResolveStyle(table, name) = Styles!StyleOf(table, name)
    BY ResolvedAsMeant
<1>2. /\ Styles!LastNamed(table, r.priority) # Styles!None
      /\ Styles!StyleOf(table, r.priority) = Styles!LastNamed(table, r.priority)
    BY DEF Styles!Valid, Styles!ReferenceIsLive, Styles!StyleOf
<1>3. byRule # Styles!None
    BY <1>2
<1>4. r.priority \in Words /\ r.action \in Styles!Ids \cup {Styles!Unknown, Styles!None}
    BY DEF Styles!Rules, Words
<1>5. CASE r.action = Styles!None
    <2>1. Styles!StyleOf(table, r.action) = Styles!None
        BY <1>5, NoRowOfNone DEF Styles!StyleOf
    <2>2. names = <<>> \o <<r.priority>>
        BY <1>5 DEF Styles!StylePriority
    <2>3. names = <<r.priority>>
        BY <2>2
    <2>4. names \in Seq(Words) /\ Len(names) = 1 /\ names[1] = r.priority
        BY <1>4, <2>3, Short
    <2>5. Styles!ResolveStyle(table, names[1]) = byRule
        BY <1>1, <1>2, <2>1, <2>4
    <2>6. QED
        BY <1>3, <2>4, <2>5
<1>6. CASE r.action # Styles!None
    <2>1. PICK first : first = IF Styles!StyleOf(table, r.action) = Styles!None
                               THEN r.action ELSE Styles!StyleOf(table, r.action)
        OBVIOUS
    <2>2. names = <<first>> \o <<r.priority>>
        BY <1>1, <1>6, <2>1 DEF Styles!StylePriority
    <2>3. first \in Words
        BY <1>4, <1>6, <2>1, ResolvedAsMeant DEF Words
    <2>4. PICK one, two : one = <<first>> /\ two = <<r.priority>>
        OBVIOUS
    <2>5. /\ names \in Seq(Words) /\ Len(names) = 2
          /\ names[1] = first /\ names[2] = r.priority
        <3>1. /\ one \in Seq(Words) /\ Len(one) = 1 /\ one[1] = first
              /\ two \in Seq(Words) /\ Len(two) = 1 /\ two[1] = r.priority
            BY <1>4, <2>3, <2>4, Short
        <3>2. /\ one \o two \in Seq(Words) /\ Len(one \o two) = Len(one) + Len(two)
              /\ \A k \in 1 .. Len(one) : (one \o two)[k] = one[k]
              /\ \A k \in 1 .. Len(two) : (one \o two)[Len(one) + k] = two[k]
            BY <3>1, Joined
        <3>3. (one \o two)[1] = first /\ (one \o two)[2] = r.priority
            BY <3>1, <3>2
        <3>4. QED
            BY <2>2, <2>4, <3>1, <3>2, <3>3
    <2>6. CASE Styles!StyleOf(table, r.action) # Styles!None
        <3>1. first = byRule /\ first \in Styles!Ids /\ table[first].status # "deprecated"
            BY <2>1, <2>6, ResolvedAsMeant
        <3>2. Styles!LastNamed(table, first) = first
            BY <3>1, OneRowPerName DEF Styles!Valid
        <3>3. Styles!StyleOf(table, first) = first
            BY <3>1, <3>2 DEF Styles!StyleOf
        <3>4. Styles!ResolveStyle(table, names[1]) = byRule
            BY <1>1, <2>5, <3>1, <3>3
        <3>5. QED
            BY <1>3, <2>5, <3>4
    <2>7. CASE Styles!StyleOf(table, r.action) = Styles!None
        <3>1. Styles!ResolveStyle(table, names[1]) = Styles!None
            BY <1>1, <2>1, <2>5, <2>7
        <3>2. Styles!ResolveStyle(table, names[2]) = byRule
            BY <1>1, <1>2, <2>5, <2>7
        <3>3. QED
            BY <1>3, <2>5, <3>1, <3>2
    <2>8. QED
        BY <2>6, <2>7
<1>7. QED
    BY <1>5, <1>6

\* With the keywords of a dial before the names of the rule.
LEMMA FirstNameDecides ==
    ASSUME NEW table \in Tables, NEW r \in Styles!Rules, Styles!Valid(table, r),
           NEW dial \in Seq(Words), NEW byDial, NEW byRule, NEW style,
           byDial = {k \in DOMAIN dial : Styles!StyleOf(table, dial[k]) # Styles!None},
           byRule = IF Styles!StyleOf(table, r.action) # Styles!None
                    THEN Styles!StyleOf(table, r.action)
                    ELSE Styles!LastNamed(table, r.priority),
           style = Styles!SelectBestMatch(table, Styles!EffectivePriority(table, r, dial))
    PROVE  /\ byDial # {} => style = Styles!StyleOf(table, dial[Styles!Min(byDial)])
           /\ byDial = {} => style = byRule
<1>1. PICK rest : rest = Styles!StylePriority(table, r)
    OBVIOUS
<1>2. PICK names : names = dial \o rest
    OBVIOUS
<1>3. style = Styles!SelectBestMatch(table, names)
    BY <1>1, <1>2 DEF Styles!EffectivePriority
<1>4. /\ rest \in Seq(Words) /\ byRule # Styles!None
      /\ \E m \in 1 .. Len(rest) :
            /\ \A k \in 1 .. Len(rest) :
                  k < m => Styles!ResolveStyle(table, rest[k]) = Styles!None
            /\ Styles!ResolveStyle(table, rest[m]) = byRule
    BY <1>1, RuleNames
<1>5. PICK d \in Nat, e \in Nat : d = Len(dial) /\ e = Len(rest)
    BY <1>4
<1>6. /\ DOMAIN names = 1 .. d + e /\ DOMAIN dial = 1 .. d
      /\ \A k \in 1 .. d : names[k] = dial[k]
      /\ \A k \in 1 .. e : names[d + k] = rest[k]
    BY <1>2, <1>4, <1>5, Joined
<1>7. \A name : Styles!ResolveStyle(table, name) = Styles!StyleOf(table, name)
    BY ResolvedAsMeant
<1>8. d + e \in Nat
    BY <1>5
<1>9. ASSUME byDial # {}
      PROVE  style = Styles!StyleOf(table, dial[Styles!Min(byDial)])
    <2>1. byDial \in SUBSET Nat /\ byDial \subseteq 1 .. d
        BY <1>6
    <2>2. PICK m \in byDial : \A k \in byDial : m <= k
        BY <1>9, <2>1, LeastExists
    <2>3. Styles!Min(byDial) = m
        BY <2>1, <2>2, MinIs
    <2>4. m \in 1 .. d /\ m \in 1 .. d + e
        BY <1>5, <2>1, <2>2
    <2>5. ASSUME NEW k \in 1 .. d + e, k < m
          PROVE  Styles!ResolveStyle(table, names[k]) = Styles!None
        <3>1. k \in 1 .. d /\ k \notin byDial
            BY <1>5, <2>2, <2>4, <2>5
        <3>2. QED
            BY <1>6, <1>7, <3>1
    <2>6. Styles!ResolveStyle(table, names[m]) # Styles!None
        BY <1>6, <1>7, <2>2, <2>4
    <2>7. Styles!SelectBestMatch(table, names) = Styles!ResolveStyle(table, names[m])
        BY <1>6, <1>8, <2>4, <2>5, <2>6, FirstThatResolves
    <2>8. QED
        BY <1>3, <1>6, <1>7, <2>3, <2>4, <2>7
<1>10. ASSUME byDial = {}
       PROVE  style = byRule
    <2>1. PICK m \in 1 .. e :
              /\ \A k \in 1 .. e :
                    k < m => Styles!ResolveStyle(table, rest[k]) = Styles!None
              /\ Styles!ResolveStyle(table, rest[m]) = byRule
        BY <1>4, <1>5
    <2>2. d + m \in 1 .. d + e
        BY <1>5
    <2>3. ASSUME NEW k \in 1 .. d + e, k < d + m
          PROVE  Styles!ResolveStyle(table, names[k]) = Styles!None
        <3>1. CASE k \in 1 .. d
            <4>1. k \notin byDial
                BY <1>10
            <4>2. QED
                BY <1>6, <1>7, <3>1, <4>1
        <3>2. CASE k \notin 1 .. d
            <4>1. PICK j \in 1 .. e : k = d + j /\ j < m
                <5>1. k \in Int /\ d < k /\ k < d + m
                    BY <1>5, <2>3, <3>2
                <5>2. k - d \in 1 .. e /\ k = d + (k - d) /\ k - d < m
                    BY <1>5, <2>1, <5>1
                <5>3. QED
                    BY <5>2
            <4>2. names[k] = rest[j]
                BY <1>6, <4>1
            <4>3. Styles!ResolveStyle(table, rest[j]) = Styles!None
                BY <2>1, <4>1
            <4>4. QED
                BY <4>2, <4>3
        <3>3. QED
            BY <3>1, <3>2
    <2>4. Styles!ResolveStyle(table, names[d + m]) = byRule
        <3>1. names[d + m] = rest[m]
            BY <1>6, <2>1
        <3>2. QED
            BY <2>1, <3>1
    <2>5. PICK n, q : n = d + e /\ q = d + m
        OBVIOUS
    <2>6. /\ n \in Nat /\ DOMAIN names = 1 .. n /\ q \in 1 .. n
          /\ \A k \in 1 .. n : k < q => Styles!ResolveStyle(table, names[k]) = Styles!None
          /\ Styles!ResolveStyle(table, names[q]) # Styles!None
        BY <1>4, <1>6, <1>8, <2>2, <2>3, <2>4, <2>5
    <2>7. Styles!SelectBestMatch(table, names) = Styles!ResolveStyle(table, names[q])
        BY <2>6, FirstThatResolves
    <2>8. QED
        BY <1>3, <2>4, <2>5, <2>7
<1>11. QED
    BY <1>9, <1>10

LEMMA StyleNamed == ASSUME StylesInv PROVE Styles!StyleIsNamed
<1> SUFFICES ASSUME Styles!Valid(rows, rule), NEW dial \in Styles!Dials
             PROVE  LET byDial == {k \in DOMAIN dial :
                                       Styles!StyleOf(rows, dial[k]) # Styles!None}
                    IN  Styles!SelectBestMatch(rows, Styles!EffectivePriority(rows, rule, dial)) =
                            CASE byDial # {} -> Styles!StyleOf(rows, dial[Styles!Min(byDial)])
                              [] byDial = {} /\ Styles!StyleOf(rows, rule.action) # Styles!None ->
                                    Styles!StyleOf(rows, rule.action)
                              [] OTHER -> Styles!LastNamed(rows, rule.priority)
    BY Zenon DEF Styles!StyleIsNamed
<1>1. rows \in Tables /\ rule \in Styles!Rules
    BY DEF StylesInv
<1>2. dial \in Seq(Words)
    <2>1. PICK n \in Nat : dial \in [1 .. n -> Words]
        BY StylesAssumption DEF Styles!Dials, Words
    <2>2. QED
        BY <2>1
<1>3. PICK byDial :
          byDial = {k \in DOMAIN dial : Styles!StyleOf(rows, dial[k]) # Styles!None}
    OBVIOUS
<1>4. PICK byRule :
          byRule = IF Styles!StyleOf(rows, rule.action) # Styles!None
                   THEN Styles!StyleOf(rows, rule.action)
                   ELSE Styles!LastNamed(rows, rule.priority)
    OBVIOUS
<1>5. PICK style :
          style = Styles!SelectBestMatch(rows, Styles!EffectivePriority(rows, rule, dial))
    OBVIOUS
<1>6. /\ byDial # {} => style = Styles!StyleOf(rows, dial[Styles!Min(byDial)])
      /\ byDial = {} => style = byRule
    BY <1>1, <1>2, <1>3, <1>4, <1>5, FirstNameDecides
<1>7. style = CASE byDial # {} -> Styles!StyleOf(rows, dial[Styles!Min(byDial)])
                [] byDial = {} /\ Styles!StyleOf(rows, rule.action) # Styles!None ->
                      Styles!StyleOf(rows, rule.action)
                [] OTHER -> Styles!LastNamed(rows, rule.priority)
    BY <1>4, <1>6
<1>8. QED
    BY <1>3, <1>5, <1>7

LEMMA StylesStart == ASSUME Styles!Init PROVE StylesInv
<1>1. /\ rows = [i \in Styles!Ids |-> [names |-> {}, status |-> "active",
                                       parent |-> Styles!None, redirect |-> Styles!None]]
      /\ rule = [priority |-> Order[1], action |-> Styles!None]
    BY StylesAssumption DEF Styles!Init
<1>2. Order[1] \in Styles!Ids
    BY OrderType
<1>3. QED
    BY <1>1, <1>2 DEF StylesInv, Tables, Styles!Rows, Styles!Rules

LEMMA StylesStep ==
    ASSUME StylesInv, [CatalogueNext]_allVars, part = "styles"
    PROVE  StylesInv'
<1>1. CASE Styles!Edit
    BY <1>1 DEF Styles!Edit, StylesInv, Tables
<1>2. CASE UNCHANGED allVars
    BY <1>2 DEF allVars, stylesVars, StylesInv
<1>3. Styles!Next \/ UNCHANGED allVars
    BY DEF CatalogueNext
<1>4. QED
    BY <1>1, <1>2, <1>3 DEF Styles!Next

LEMMA StylesKeep == CatalogueSpec => [](part = "styles" => StylesInv)
<1>1. CatalogueInit => (part = "styles" => StylesInv)
    BY StylesStart DEF CatalogueInit
<1>2. (part = "styles" => StylesInv) /\ [CatalogueNext]_allVars
        => (part = "styles" => StylesInv)'
    BY StylesStep, PartStays
<1>3. QED
    BY <1>1, <1>2, PTL DEF CatalogueSpec

\* Whatever edits a catalogue of any size went through, and with dials of any
\* keywords: whenever the validator would accept it, search shows the style the
\* generator takes under each name, and the style of a design is the one that
\* the dial names first, or else the rule, and not what ranks well.
THEOREM StyleIsNamedAsSearched == CatalogueSpec => []RuleAndSearchAgree
<1>1. (part = "styles" => StylesInv) => RuleAndSearchAgree
    BY RoutesMeet, StyleNamed DEF RuleAndSearchAgree
<1>2. QED
    BY <1>1, StylesKeep, PTL

-----------------------------------------------------------------------------
(***************************************************************************)
(* DesignDecision.  The palette of a dark design is settled when it is     *)
(* chosen, the advice one step later.                                      *)
(***************************************************************************)
PaletteAgrees ==
    /\ palette # <<>> /\ palette[1].background # "dark" =>
          \A k \in DOMAIN palettes : ~palettes[k].ofCategory /\ palettes[k].background # "dark"
    /\ palette # <<>> /\ palette[1] \notin Decision!ToSet(palettes) => palette[1].ring

DecisionInv ==
    /\ step \in {"advice", "done"} /\ mode = "dark" => PaletteAgrees
    /\ step = "done" /\ mode = "dark" => "dark mode" \notin advice

LEMMA Least ==
    ASSUME NEW S \in SUBSET Nat, S # {}
    PROVE  Decision!Min(S) \in S
BY LeastExists DEF Decision!Min

\* The ring of a derived palette is the first candidate that is visible, and
\* there is one if any of them is.
LEMMA RingIsVisible == \A a, b, c \in BOOLEAN : Decision!RingOf(<<a, b, c>>)
<1> TAKE a, b, c \in BOOLEAN
<1> DEFINE candidates == <<a, b, c>>
           visible == {k \in DOMAIN candidates : candidates[k]}
<1>1. visible \in SUBSET Nat
    OBVIOUS
<1>2. CASE visible = {}
    BY <1>2 DEF Decision!RingOf
<1>3. CASE visible # {}
    <2>1. Decision!Min(visible) \in visible
        BY <1>1, <1>3, Least
    <2>2. candidates[Decision!Min(visible)]
        BY <2>1
    <2>3. QED
        BY <2>2 DEF Decision!RingOf
<1>4. QED
    BY <1>2, <1>3

LEMMA DerivedIsDark ==
    ASSUME NEW p \in Decision!Palettes
    PROVE  /\ Decision!DeriveDark(p).background = "dark"
           /\ Decision!DeriveDark(p).ring
<1>1. p.ring \in BOOLEAN /\ p.accent \in BOOLEAN /\ p.primary \in BOOLEAN
    BY DEF Decision!Palettes
<1>2. Decision!RingOf(<<p.ring, p.accent, p.primary>>)
    BY <1>1, RingIsVisible
<1>3. QED
    BY <1>2 DEF Decision!DeriveDark, Decision!Palettes

\* What _select_palette_for_mode returns for a dark design, case by case.
LEMMA ForModeCases ==
    ASSUME NEW found, NEW category, NEW dark,
           category = {k \in DOMAIN found : found[k].ofCategory},
           dark = {k \in DOMAIN found : found[k].background = "dark"}
    PROVE  /\ found = <<>> => Decision!ForMode(found, "dark") = <<>>
           /\ found # <<>> /\ category # {} =>
                 Decision!ForMode(found, "dark") =
                     <<Decision!OfCategory(found[Decision!Min(category)], "dark")>>
           /\ found # <<>> /\ category = {} /\ dark # {} =>
                 Decision!ForMode(found, "dark") = <<found[Decision!Min(dark)]>>
           /\ found # <<>> /\ category = {} /\ dark = {} =>
                 Decision!ForMode(found, "dark") = <<found[1]>>
BY DEF Decision!ForMode

LEMMA ChosenAgrees ==
    ASSUME NEW n \in Nat, NEW found \in [1 .. n -> Decision!Palettes], NEW p,
           p = Decision!ForMode(found, "dark"), p # <<>>
    PROVE  /\ p[1].background # "dark" =>
                 \A k \in DOMAIN found : ~found[k].ofCategory /\ found[k].background # "dark"
           /\ p[1] \notin Decision!ToSet(found) => p[1].ring
<1>1. PICK category : category = {k \in DOMAIN found : found[k].ofCategory}
    OBVIOUS
<1>2. PICK dark : dark = {k \in DOMAIN found : found[k].background = "dark"}
    OBVIOUS
<1>3. /\ category \in SUBSET Nat /\ dark \in SUBSET Nat
      /\ category \subseteq DOMAIN found /\ dark \subseteq DOMAIN found
    BY <1>1, <1>2
<1>4. \A k \in DOMAIN found : found[k] \in Decision!ToSet(found) /\ found[k] \in Decision!Palettes
    BY DEF Decision!ToSet
<1>5. found # <<>>
    BY <1>1, <1>2, ForModeCases
<1>6. /\ category # {} =>
            p = <<Decision!OfCategory(found[Decision!Min(category)], "dark")>>
      /\ category = {} /\ dark # {} => p = <<found[Decision!Min(dark)]>>
      /\ category = {} /\ dark = {} => p = <<found[1]>>
    BY <1>1, <1>2, <1>5, ForModeCases, Zenon
<1>7. CASE category # {}
    <2>1. PICK k \in DOMAIN found : k = Decision!Min(category)
        <3>1. Decision!Min(category) \in category
            BY <1>3, <1>7, Least
        <3>2. QED
            BY <1>3, <3>1
    <2>2. p[1] = Decision!OfCategory(found[k], "dark")
        BY <1>6, <1>7, <2>1
    <2>3. CASE found[k].background = "dark"
        BY <1>4, <2>2, <2>3 DEF Decision!OfCategory
    <2>4. CASE found[k].background # "dark"
        <3>1. p[1] = Decision!DeriveDark(found[k])
            BY <2>2, <2>4 DEF Decision!OfCategory
        <3>2. QED
            BY <1>4, <3>1, DerivedIsDark
    <2>5. QED
        BY <2>3, <2>4
<1>8. CASE category = {} /\ dark # {}
    <2>1. PICK k \in dark : k = Decision!Min(dark)
        <3>1. Decision!Min(dark) \in dark
            BY <1>3, <1>8, Least
        <3>2. QED
            BY <3>1
    <2>2. p[1] = found[k]
        BY <1>6, <1>8, <2>1
    <2>3. QED
        BY <1>2, <1>3, <1>4, <2>2
<1>9. CASE category = {} /\ dark = {}
    <2>1. 1 \in DOMAIN found
        BY <1>5
    <2>2. p[1] = found[1]
        BY <1>6, <1>9
    <2>3. \A k \in DOMAIN found : ~found[k].ofCategory /\ found[k].background # "dark"
        BY <1>1, <1>2, <1>9
    <2>4. QED
        BY <1>4, <2>1, <2>2, <2>3
<1>10. QED
    BY <1>7, <1>8, <1>9

LEMMA DecisionStep ==
    ASSUME DecisionInv, [CatalogueNext]_allVars, part = "decision"
    PROVE  DecisionInv'
<1>1. CASE Decision!ApplyReasoning
    BY <1>1 DEF Decision!ApplyReasoning, DecisionInv
<1>2. CASE Decision!ResolveMode
    BY <1>2 DEF Decision!ResolveMode, DecisionInv
<1>3. CASE Decision!SelectPalette
    <2>1. step' = "advice"
        BY <1>3 DEF Decision!SelectPalette
    <2>2. ASSUME mode' = "dark" PROVE PaletteAgrees'
        <3>1. palette' = Decision!ForMode(palettes', "dark")
            BY <1>3, <2>2 DEF Decision!SelectPalette
        <3>2. PICK n \in 0 .. MaxPalettes : palettes' \in [1 .. n -> Decision!Palettes]
            BY <1>3 DEF Decision!SelectPalette
        <3>3. n \in Nat
            BY <3>2
        <3>4. QED
            BY <3>1, <3>2, <3>3, ChosenAgrees DEF PaletteAgrees
    <2>3. QED
        BY <2>1, <2>2 DEF DecisionInv
<1>4. CASE Decision!FilterAdvice
    <2>1. step = "advice" /\ step' = "done" /\ UNCHANGED <<mode, palettes, palette>>
        BY <1>4 DEF Decision!FilterAdvice
    <2>2. mode' = "dark" => PaletteAgrees'
        BY <2>1 DEF DecisionInv, PaletteAgrees
    <2>3. mode' = "dark" => "dark mode" \notin advice'
        BY <1>4, <2>1 DEF Decision!FilterAdvice
    <2>4. QED
        BY <2>1, <2>2, <2>3 DEF DecisionInv
<1>5. CASE UNCHANGED allVars
    BY <1>5 DEF allVars, decisionVars, DecisionInv, PaletteAgrees
<1>6. Decision!Next \/ UNCHANGED allVars
    BY DEF CatalogueNext
<1>7. QED
    BY <1>1, <1>2, <1>3, <1>4, <1>5, <1>6 DEF Decision!Next

\* With any number of rules and palettes: a design that is to be dark has a dark
\* palette where the search found one or the category's own, its focus ring can
\* be seen, and nothing advises against dark mode.
THEOREM DarkDesignStaysDark == CatalogueSpec => []DarkDesignIsDark
<1>1. CatalogueInit => (part = "decision" => DecisionInv)
    BY DEF CatalogueInit, Decision!Init, DecisionInv
<1>2. (part = "decision" => DecisionInv) /\ [CatalogueNext]_allVars
        => (part = "decision" => DecisionInv)'
    BY DecisionStep, PartStays
<1>3. (part = "decision" => DecisionInv) => DarkDesignIsDark
    BY DEF DecisionInv, PaletteAgrees, DarkDesignIsDark, Decision!DarkDesignIsDark
<1>4. QED
    BY <1>1, <1>2, <1>3, PTL DEF CatalogueSpec
=============================================================================
