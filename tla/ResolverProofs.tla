--------------------------- MODULE ResolverProofs ---------------------------
(***************************************************************************)
(* Proofs about Resolver, for any options, sources, chains and worlds.  The  *)
(* invariant RInv says which positions of the chain the values come from     *)
(* while the sources are asked.  It does not mention how the chain was       *)
(* built or what the world holds, so that the programs that start the        *)
(* resolver in their own way can use it.                                     *)
(***************************************************************************)
EXTENDS Resolver, SequenceTheorems, WellFoundedInduction, TLAPS

ListOfSources == /\ Len(chain) \in Nat /\ DOMAIN chain = 1..Len(chain)
                 /\ \A n \in DOMAIN chain : chain[n].kind \in Kinds

\* k has its value from the first position of the chain that knows it.
FromFirst(k) ==
    \E n \in Knowing(k) : /\ \A m \in Knowing(k) : n <= m
                          /\ values[k] \in answers[n][k]
                          /\ origin[k] = chain[n].kind

\* Every option is known to a source before position n.
FullBefore(n) == \A k \in Keys : \E m \in Knowing(k) : m < n

RTypes ==
    /\ stage \in {"prepare", "ask", "defaults", "validate", "done"}
    /\ pos \in Nat \ {0}
    /\ DOMAIN values \subseteq Keys
    /\ DOMAIN origin = DOMAIN values
    /\ \A k \in DOMAIN origin : origin[k] \in Kinds \cup {"default"}
    /\ asked \subseteq DOMAIN chain
    /\ errors \subseteq Keys

Asking ==
    /\ stage = "prepare" => DOMAIN values = {} /\ asked = {} /\ pos = 1
    /\ stage # "prepare" => DOMAIN answers = DOMAIN chain
    /\ stage = "ask" =>
           /\ pos <= Len(chain) + 1
           /\ \A k \in Keys : k \in DOMAIN values <=> \E n \in Knowing(k) : n < pos
           /\ \A n \in asked : n < pos
           /\ \A n \in 1..(pos - 1) : n \notin asked => FullBefore(n)
    /\ stage \in {"ask", "defaults"} => \A k \in DOMAIN values : FromFirst(k)
    /\ stage # "prepare" => \A n \in asked : ~FullBefore(n)

Asked ==
    /\ stage \in {"defaults", "validate", "done"} =>
           \A n \in DOMAIN chain : n \notin asked => FullBefore(n)
    /\ stage = "defaults" => \A k \in Keys : k \in DOMAIN values <=> Knowing(k) # {}
    /\ stage \in {"validate", "done"} =>
           \A k \in Keys :
               /\ k \in DOMAIN values <=>
                      Knowing(k) # {} \/ (params.defaults /\ HasDefault(k))
               /\ Knowing(k) # {} => FromFirst(k)
               /\ (k \in DOMAIN values /\ Knowing(k) = {}) =>
                      values[k] = Option(k).default /\ origin[k] = "default"
    /\ stage = "done" => errors = IF params.validate THEN {k \in Keys : ~Valid(k)} ELSE {}

RInv == ListOfSources /\ RTypes /\ Asking /\ Asked

-----------------------------------------------------------------------------

LEMMA LeastIs == ASSUME NEW S \in SUBSET Nat, NEW n \in S, \A m \in S : n <= m
                 PROVE  Least(S) = n
<1>1. Least(S) \in S
    BY DEF Least
<1>2. \A m \in S : Least(S) <= m
    BY DEF Least
<1>3. Least(S) \in Nat /\ n \in Nat /\ Least(S) <= n /\ n <= Least(S)
    BY <1>1, <1>2
<1> QED BY <1>3

LEMMA KnownPositions ==
    ASSUME ListOfSources, DOMAIN answers = DOMAIN chain, NEW k
    PROVE  Knowing(k) \subseteq 1..Len(chain) /\ Knowing(k) \in SUBSET Nat
BY DEF ListOfSources, Knowing

\* What a source returns for the keys it was asked for.
LEMMA Answering ==
    ASSUME NEW of, NEW keys, \A k \in keys : of[k] # {}, NEW r \in Answers(of, keys)
    PROVE  DOMAIN r = keys /\ \A k \in keys : r[k] \in of[k]
<1> DEFINE open == Open(of, keys)
<1>1. PICK f \in Picks(of, open) : r = [k \in keys |-> IF k \in open THEN f[k] ELSE Some(of[k])]
    BY DEF Answers
<1>2. DOMAIN r = keys /\ \A k \in open : f[k] \in of[k]
    BY <1>1 DEF Picks
<1>3. ASSUME NEW k \in keys PROVE r[k] \in of[k]
    <2>1. CASE k \in open
        BY <1>1, <1>2, <2>1
    <2>2. CASE k \notin open
        <3>1. r[k] = Some(of[k])
            BY <1>1, <2>2
        <3>2. Some(of[k]) \in of[k]
            BY DEF Some
        <3> QED BY <3>1, <3>2
    <2> QED BY <2>1, <2>2
<1> QED BY <1>2, <1>3

LEMMA Fetched ==
    ASSUME NEW w, NEW s, NEW of, NEW need, NEW r \in Fetch(w, s, of, need), NEW k \in need
    PROVE  /\ k \in DOMAIN r <=> of[k] # {}
           /\ k \in DOMAIN r => r[k] \in of[k]
BY Answering DEF Fetch

LEMMA StartHolds == ASSUME Start, ListOfSources PROVE RInv
BY DEF Start, Nothing, RInv, RTypes, Asking, Asked

LEMMA PrepareKeeps == ASSUME RInv, Prepare PROVE RInv'
<1> USE DEF Prepare, inputs
<1>1. DOMAIN answers' = DOMAIN chain
    OBVIOUS
<1>2. Asking'
    <2>1. \A k \in Keys : \A n \in Knowing(k)' : ~(n < 1)
        BY <1>1 DEF RInv, ListOfSources, Knowing
    <2> QED BY <1>1, <2>1 DEF RInv, RTypes, Asking, ListOfSources
<1> QED BY <1>2 DEF RInv, ListOfSources, RTypes, Asked

\* A step after which the same sources have answered the same.
LEMMA SameAnswers ==
    ASSUME UNCHANGED <<chain, answers>>
    PROVE  /\ \A k : Knowing(k)' = Knowing(k)
           /\ \A n : FullBefore(n)' = FullBefore(n)
BY DEF Knowing, FullBefore

\* A source has answered r; m is the position that is asked next.
LEMMA MergeValues ==
    ASSUME RInv, stage = "ask", pos <= Len(chain), NEW r,
           \A k \in Missing : /\ k \in DOMAIN r <=> answers[pos][k] # {}
                              /\ k \in DOMAIN r => r[k] \in answers[pos][k],
           UNCHANGED <<chain, answers>>, Merge(r)
    PROVE  /\ DOMAIN values' \subseteq Keys /\ DOMAIN origin' = DOMAIN values'
           /\ \A k \in DOMAIN origin' : origin'[k] \in Kinds \cup {"default"}
           /\ \A k \in Keys : k \in DOMAIN values' <=> \E n \in Knowing(k) : n < pos + 1
           /\ \A k \in DOMAIN values' : FromFirst(k)'
<1> DEFINE taken == DOMAIN r \cap Missing
<1>1. /\ values' = [k \in DOMAIN values \cup taken |-> IF k \in taken THEN r[k] ELSE values[k]]
      /\ origin' = [k \in DOMAIN values \cup taken |->
                       IF k \in taken THEN chain[pos].kind ELSE origin[k]]
    BY DEF Merge
<1>2. /\ DOMAIN values \subseteq Keys /\ DOMAIN origin = DOMAIN values
      /\ Missing = Keys \ DOMAIN values
      /\ pos \in DOMAIN chain /\ chain[pos].kind \in Kinds /\ DOMAIN answers = DOMAIN chain
      /\ \A k \in DOMAIN origin : origin[k] \in Kinds \cup {"default"}
      /\ \A k \in Keys : k \in DOMAIN values <=> \E n \in Knowing(k) : n < pos
      /\ \A k \in DOMAIN values : FromFirst(k)
    BY DEF RInv, ListOfSources, RTypes, Asking, Missing
<1>3. \A k : Knowing(k) \in SUBSET Nat
    BY <1>2, KnownPositions DEF RInv
<1>4. \A k \in Missing : k \in taken <=> pos \in Knowing(k)
    BY <1>2 DEF Knowing
<1>5. pos \in Nat
    BY DEF RInv, RTypes
<1>6. ASSUME NEW k \in Keys PROVE k \in DOMAIN values' <=> \E n \in Knowing(k) : n < pos + 1
    <2>1. k \in DOMAIN values' <=> k \in DOMAIN values \/ pos \in Knowing(k)
        BY <1>1, <1>2, <1>4
    <2>2. (\E n \in Knowing(k) : n < pos + 1)
              <=> pos \in Knowing(k) \/ \E n \in Knowing(k) : n < pos
        BY <1>3, <1>5
    <2> QED BY <1>2, <2>1, <2>2
<1>7. ASSUME NEW k \in DOMAIN values' PROVE FromFirst(k)'
    <2>1. CASE k \in DOMAIN values
        <3>1. k \notin taken
            BY <1>2, <2>1
        <3>2. values'[k] = values[k] /\ origin'[k] = origin[k]
            BY <1>1, <1>2, <2>1, <3>1
        <3> QED BY <1>2, <2>1, <3>2, SameAnswers DEF FromFirst
    <2>2. CASE k \in taken
        <3>1. values'[k] \in answers[pos][k] /\ origin'[k] = chain[pos].kind
            BY <1>1, <2>2
        <3>2. pos \in Knowing(k) /\ \A m \in Knowing(k) : ~(m < pos)
            BY <1>2, <1>4, <2>2
        <3>3. \A m \in Knowing(k) : pos <= m
            BY <1>3, <1>5, <3>2
        <3> QED BY <3>1, <3>2, <3>3, SameAnswers DEF FromFirst
    <2> QED BY <1>1, <2>1, <2>2
<1>8. /\ DOMAIN values' \subseteq Keys /\ DOMAIN origin' = DOMAIN values'
      /\ \A k \in DOMAIN origin' : origin'[k] \in Kinds \cup {"default"}
    BY <1>1, <1>2
<1> QED BY <1>6, <1>7, <1>8

LEMMA AskKeeps == ASSUME RInv, Ask PROVE RInv'
<1>1. /\ stage = "ask" /\ pos <= Len(chain) /\ UNCHANGED <<world, chain, params, answers, errors>>
    BY DEF Ask, inputs
<1>2. /\ pos \in Nat \ {0} /\ pos \in DOMAIN chain /\ Len(chain) \in Nat
      /\ DOMAIN answers = DOMAIN chain
      /\ DOMAIN chain = 1..Len(chain)
      /\ \A k \in Keys : k \in DOMAIN values <=> \E n \in Knowing(k) : n < pos
      /\ \A k \in DOMAIN values : FromFirst(k)
      /\ \A n \in asked : n < pos /\ ~FullBefore(n)
      /\ \A n \in 1..(pos - 1) : n \notin asked => FullBefore(n)
      /\ asked \subseteq DOMAIN chain
    BY <1>1 DEF RInv, ListOfSources, RTypes, Asking
<1>3. \A k : Knowing(k) \in SUBSET Nat
    BY <1>2, KnownPositions DEF RInv
<1>4. ListOfSources'
    BY <1>1 DEF RInv, ListOfSources
<1>5. CASE Missing = {}
    <2>1. pos' = pos + 1 /\ UNCHANGED <<stage, values, origin, asked>>
        BY <1>5 DEF Ask
    <2>2. \A k \in Keys : \E n \in Knowing(k) : n < pos
        BY <1>2, <1>5 DEF Missing
    <2>3. FullBefore(pos)
        BY <2>2 DEF FullBefore
    <2>4. \A k \in Keys : k \in DOMAIN values <=> \E n \in Knowing(k) : n < pos + 1
        BY <1>2, <1>3, <2>2
    <2>5. \A k \in DOMAIN values : FromFirst(k)'
        BY <1>1, <1>2, <2>1, SameAnswers DEF FromFirst
    <2>6. \A n \in 1..pos : n \notin asked => FullBefore(n)
        BY <1>2, <2>3
    <2>7. Asking'
        BY <1>1, <1>2, <2>1, <2>4, <2>5, <2>6, SameAnswers DEF Asking
    <2>8. RTypes' /\ Asked'
        BY <1>1, <1>2, <2>1 DEF RInv, RTypes, Asked
    <2> QED BY <1>4, <2>7, <2>8 DEF RInv
<1>6. CASE Missing # {}
    <2>1. PICK r \in Fetch(world, chain[pos], answers[pos], Missing) : Merge(r)
        BY <1>6 DEF Ask
    <2>2. asked' = asked \cup {pos}
        BY <1>6 DEF Ask
    <2>3. /\ DOMAIN values' \subseteq Keys /\ DOMAIN origin' = DOMAIN values'
          /\ \A k \in DOMAIN origin' : origin'[k] \in Kinds \cup {"default"}
          /\ \A k \in Keys : k \in DOMAIN values' <=> \E n \in Knowing(k) : n < pos + 1
          /\ \A k \in DOMAIN values' : FromFirst(k)'
        BY <1>1, <2>1, Fetched, MergeValues
    <2>4. ~FullBefore(pos)
        BY <1>2, <1>6 DEF Missing, FullBefore
    <2>5. \A n \in asked' : n < pos + 1 /\ ~FullBefore(n)
        BY <1>2, <2>2, <2>4
    <2>6. \A n \in 1..pos : n \notin asked' => FullBefore(n)
        BY <1>2, <2>2
    <2>7. CASE pos' = pos + 1 /\ UNCHANGED stage
        <3>1. Asking'
            BY <1>1, <1>2, <2>3, <2>5, <2>6, <2>7, SameAnswers DEF Asking
        <3>2. RTypes' /\ Asked'
            BY <1>1, <1>2, <2>2, <2>3, <2>7 DEF RInv, RTypes, Asked
        <3> QED BY <1>4, <3>1, <3>2 DEF RInv
    <2>8. CASE stage' = "defaults" /\ UNCHANGED pos /\ DOMAIN r \cap Missing = Missing
        <3>1. \A k \in Keys : k \in DOMAIN values'
            BY <1>2, <2>1, <2>8 DEF Merge, Missing
        <3>2. \A k \in Keys : \E n \in Knowing(k) : n < pos + 1
            BY <2>3, <3>1
        <3>3. \A n \in DOMAIN chain : n \notin asked' => FullBefore(n)
            <4>1. ASSUME NEW n \in DOMAIN chain, ~(n <= pos) PROVE FullBefore(n)
                BY <1>2, <1>3, <3>2, <4>1 DEF FullBefore
            <4> QED BY <1>2, <2>6, <4>1
        <3>4. \A k \in Keys : Knowing(k) # {}
            BY <3>2
        <3>5. Asking'
            BY <1>1, <1>2, <2>3, <2>5, <2>8, SameAnswers DEF Asking
        <3>6. Asked'
            BY <1>1, <2>8, <3>1, <3>3, <3>4, SameAnswers DEF Asked
        <3>7. RTypes'
            BY <1>1, <1>2, <2>2, <2>3, <2>8 DEF RInv, RTypes
        <3> QED BY <1>4, <3>5, <3>6, <3>7 DEF RInv
    <2> QED BY <2>1, <2>7, <2>8 DEF Merge
<1> QED BY <1>5, <1>6

LEMMA EndOfChainKeeps == ASSUME RInv, EndOfChain PROVE RInv'
<1>1. /\ stage = "ask" /\ stage' = "defaults" /\ pos > Len(chain)
      /\ UNCHANGED <<chain, params, answers, pos, values, origin, asked, errors>>
    BY DEF EndOfChain, inputs
<1>2. /\ DOMAIN answers = DOMAIN chain /\ DOMAIN chain = 1..Len(chain) /\ Len(chain) \in Nat
      /\ pos = Len(chain) + 1
    BY <1>1 DEF RInv, ListOfSources, RTypes, Asking
<1>3. \A k \in Keys : k \in DOMAIN values <=> Knowing(k) # {}
    <2>1. \A k : \A n \in Knowing(k) : n < pos
        BY <1>2, KnownPositions DEF RInv
    <2> QED BY <1>1, <2>1 DEF RInv, Asking
<1>4. \A n \in DOMAIN chain : n \notin asked => FullBefore(n)
    BY <1>1, <1>2 DEF RInv, Asking
<1>5. \A k \in DOMAIN values : FromFirst(k)'
    BY <1>1, SameAnswers DEF RInv, Asking, FromFirst
<1>6. Asking'
    BY <1>1, <1>2, <1>5, SameAnswers DEF RInv, Asking
<1>7. Asked'
    BY <1>1, <1>3, <1>4, SameAnswers DEF Asked
<1> QED BY <1>1, <1>6, <1>7 DEF RInv, ListOfSources, RTypes

\* Defaults go to options that no source knows.
LEMMA ApplyDefaultsKeeps == ASSUME RInv, ApplyDefaults PROVE RInv'
<1> DEFINE filled == IF params.defaults THEN {k \in Missing : HasDefault(k)} ELSE {}
<1>1. /\ stage = "defaults" /\ stage' = "validate"
      /\ values' = [k \in DOMAIN values \cup filled |->
                        IF k \in filled THEN Option(k).default ELSE values[k]]
      /\ origin' = [k \in DOMAIN values \cup filled |->
                        IF k \in filled THEN "default" ELSE origin[k]]
      /\ UNCHANGED <<chain, params, answers, pos, asked, errors>>
    BY DEF ApplyDefaults, inputs
<1>2. /\ \A k \in Keys : k \in DOMAIN values <=> Knowing(k) # {}
      /\ \A k \in DOMAIN values : FromFirst(k)
      /\ \A n \in DOMAIN chain : n \notin asked => FullBefore(n)
      /\ DOMAIN values \subseteq Keys /\ DOMAIN origin = DOMAIN values
      /\ \A k \in DOMAIN origin : origin[k] \in Kinds \cup {"default"}
    BY <1>1 DEF RInv, RTypes, Asking, Asked
<1>3. \A k \in filled : k \in Keys /\ k \notin DOMAIN values
    BY DEF Missing
<1>4. RTypes'
    BY <1>1, <1>2, <1>3 DEF RInv, RTypes
<1>5. Asking'
    BY <1>1, SameAnswers DEF RInv, Asking
<1>6. ASSUME NEW k \in Keys
      PROVE  /\ k \in DOMAIN values' <=> Knowing(k) # {} \/ (params.defaults /\ HasDefault(k))
             /\ Knowing(k) # {} => FromFirst(k)'
             /\ (k \in DOMAIN values' /\ Knowing(k) = {}) =>
                    values'[k] = Option(k).default /\ origin'[k] = "default"
    <2>1. CASE k \in DOMAIN values
        <3>1. values'[k] = values[k] /\ origin'[k] = origin[k] /\ k \in DOMAIN values'
            BY <1>1, <1>2, <1>3, <2>1
        <3>2. FromFirst(k)'
            BY <1>1, <1>2, <2>1, <3>1, SameAnswers DEF FromFirst
        <3> QED BY <1>2, <2>1, <3>1, <3>2
    <2>2. CASE k \in filled
        <3>1. /\ values'[k] = Option(k).default /\ origin'[k] = "default" /\ k \in DOMAIN values'
              /\ params.defaults /\ HasDefault(k)
            BY <1>1, <2>2
        <3> QED BY <1>2, <1>3, <2>2, <3>1
    <2>3. CASE k \notin DOMAIN values /\ k \notin filled
        BY <1>1, <1>2, <2>3 DEF Missing
    <2> QED BY <2>1, <2>2, <2>3
<1>7. Asked'
    BY <1>1, <1>2, <1>6, SameAnswers DEF Asked, HasDefault
<1> QED BY <1>1, <1>4, <1>5, <1>7 DEF RInv, ListOfSources

LEMMA SameVerdict ==
    ASSUME UNCHANGED <<chain, answers, values, origin>>
    PROVE  \A k : FromFirst(k)' = FromFirst(k) /\ Valid(k)' = Valid(k)
<1>1. \A k : FromFirst(k)' = FromFirst(k)
    BY SameAnswers DEF FromFirst
<1>2. \A k : Valid(k)' = Valid(k)
    BY DEF Valid, WellTyped
<1> QED BY <1>1, <1>2

LEMMA ValidateKeeps == ASSUME RInv, Validate PROVE RInv'
<1>1. /\ stage = "validate" /\ stage' = "done"
      /\ UNCHANGED <<chain, params, answers, pos, values, origin, asked>>
      /\ errors' = IF params.validate THEN {k \in Keys : ~Valid(k)} ELSE {}
    BY DEF Validate, inputs
<1>2. \A k : FromFirst(k)' = FromFirst(k) /\ Valid(k)' = Valid(k)
    BY <1>1, SameVerdict
<1>3. RTypes'
    BY <1>1 DEF RInv, RTypes
<1>4. Asking'
    BY <1>1, SameAnswers DEF RInv, Asking
<1>5. Asked'
    BY <1>1, <1>2, SameAnswers DEF RInv, Asked, HasDefault
<1> QED BY <1>1, <1>3, <1>4, <1>5 DEF RInv, ListOfSources

\* The world is not mentioned: what the files hold may change.
LEMMA StutterKeeps ==
    ASSUME RInv, UNCHANGED <<chain, params, answers, stage, pos, values, origin, asked, errors>>
    PROVE  RInv'
<1>1. \A k : FromFirst(k)' = FromFirst(k) /\ Valid(k)' = Valid(k)
    BY SameVerdict
<1>2. Asking' /\ Asked'
    BY <1>1, SameAnswers DEF RInv, Asking, Asked, HasDefault
<1> QED BY <1>2 DEF RInv, ListOfSources, RTypes

LEMMA NextKeeps == ASSUME RInv, [Next]_vars PROVE RInv'
BY PrepareKeeps, AskKeeps, EndOfChainKeeps, ApplyDefaultsKeeps, ValidateKeeps, StutterKeeps
   DEF Next, vars, inputs

-----------------------------------------------------------------------------
(* What follows from the invariant.                                          *)

\* The first source that knows an option has it.
LEMMA FirstHasIt == RInv => EarlierWins
<1> SUFFICES ASSUME RInv, stage \in {"defaults", "validate", "done"}, NEW k \in Keys
             PROVE  IF Knowing(k) # {}
                    THEN LET n == Least(Knowing(k))
                         IN /\ k \in DOMAIN values
                            /\ values[k] \in answers[n][k]
                            /\ origin[k] = chain[n].kind
                    ELSE k \in DOMAIN values => origin[k] = "default"
    BY DEF EarlierWins
<1>1. CASE Knowing(k) # {}
    <2>1. k \in DOMAIN values /\ FromFirst(k)
        BY <1>1 DEF RInv, Asking, Asked
    <2>2. PICK n \in Knowing(k) : /\ \A m \in Knowing(k) : n <= m
                                 /\ values[k] \in answers[n][k]
                                 /\ origin[k] = chain[n].kind
        BY <2>1 DEF FromFirst
    <2>3. Knowing(k) \in SUBSET Nat
        BY KnownPositions DEF RInv, Asking
    <2>4. Least(Knowing(k)) = n
        BY <2>2, <2>3, LeastIs
    <2> QED BY <1>1, <2>1, <2>2, <2>4
<1>2. CASE Knowing(k) = {}
    BY <1>2 DEF RInv, Asked
<1> QED BY <1>1, <1>2

LEMMA HolesOnly == RInv => AskedOnlyForHoles
<1> SUFFICES ASSUME RInv, NEW n \in asked
             PROVE  \E k \in Keys : \A m \in 1..(n - 1) : m \notin Knowing(k)
    BY DEF AskedOnlyForHoles
<1>1. /\ stage # "prepare" /\ DOMAIN answers = DOMAIN chain /\ ~FullBefore(n)
      /\ n \in 1..Len(chain) /\ Len(chain) \in Nat
    BY DEF RInv, RTypes, ListOfSources, Asking
<1>2. PICK k \in Keys : \A m \in Knowing(k) : ~(m < n)
    BY <1>1 DEF FullBefore
<1>3. \A m \in 1..(n - 1) : m \notin Knowing(k)
    BY <1>1, <1>2
<1> QED BY <1>3

LEMMA MissingReported == RInv => MissingIsReported
<1> SUFFICES ASSUME RInv, stage = "done", params.validate, NEW k \in Keys
             PROVE  k \in errors \ DOMAIN values <=>
                        /\ Option(k).required
                        /\ Knowing(k) = {}
                        /\ ~(params.defaults /\ HasDefault(k))
    BY DEF MissingIsReported
<1>1. errors = {x \in Keys : ~Valid(x)}
    BY DEF RInv, Asked
<1>2. k \in DOMAIN values <=> Knowing(k) # {} \/ (params.defaults /\ HasDefault(k))
    BY DEF RInv, Asked
<1>3. k \notin DOMAIN values => (Valid(k) <=> ~Option(k).required)
    BY Zenon DEF Valid
<1> QED BY <1>1, <1>2, <1>3, Zenon

-----------------------------------------------------------------------------
(* Reading the command line.  A recursive function is a function that equals *)
(* its right-hand side; that there is one, and what it computes, is shown by *)
(* induction, in the form that there is no least counterexample.             *)

(* A set of numbers that is not empty has a least one.                      *)
LEMMA LeastNat == ASSUME NEW T \in SUBSET Nat, T # {}
                  PROVE  \E m \in T : \A n \in T : m <= n
<1> DEFINE R == {ss \in Nat \X Nat : ss[1] < ss[2]}
<1>1. IsWellFoundedOn(R, Nat)
    BY NatLessThanWellFounded, Zenon DEF OpToRel
<1>2. PICK m \in T : \A n \in T : <<n, m>> \notin R
    <2> HIDE DEF R
    <2> QED BY <1>1, WFMin
<1>3. \A n \in T : ~(n < m)
    BY <1>2
<1> QED BY <1>3

\* The prefixes of FlattenSeq.
LEMMA Flattening ==
    ASSUME NEW S, NEW parts \in Seq(Seq(S)), parts # <<>>
    PROVE  \E f : /\ Seqs!FlattenSeq(parts) = f[Len(parts)]
                  /\ f[1] = parts[1]
                  /\ \A i \in 2..Len(parts) : f[i] = f[i - 1] \o parts[i]
<1> DEFINE Take(f, i) == IF i = 1 THEN parts[i] ELSE f[i - 1] \o parts[i]
           T == {m \in 1..Len(parts) : ~ \E f : f = [i \in 1..m |-> Take(f, i)]}
           all == CHOOSE f : f = [i \in 1..Len(parts) |-> Take(f, i)]
<1>1. Len(parts) \in Nat \ {0}
    OBVIOUS
<1>2. ASSUME T # {} PROVE FALSE
    <2>1. PICK m \in T : \A n \in T : m <= n
        <3>1. T \in SUBSET Nat
            <4> HIDE DEF Take
            <4> QED BY <1>1
        <3> HIDE DEF T
        <3> QED BY <1>2, <3>1, LeastNat
    <2>2. m \in 1..Len(parts)
        OBVIOUS
    <2>3. CASE m = 1
        <3> DEFINE f == [i \in 1..1 |-> parts[i]]
        <3>1. f = [i \in 1..1 |-> Take(f, i)]
            OBVIOUS
        <3> QED BY <2>1, <2>3, <3>1
    <2>4. CASE m # 1
        <3>1. m - 1 \in 1..Len(parts) /\ ~(m <= m - 1)
            BY <1>1, <2>2, <2>4
        <3>2. PICK f : f = [i \in 1..(m - 1) |-> Take(f, i)]
            BY <2>1, <3>1
        <3> DEFINE g == [i \in 1..m |-> IF i = m THEN f[m - 1] \o parts[m] ELSE f[i]]
        <3>3. ASSUME NEW i \in 1..m PROVE g[i] = Take(g, i)
            <4>1. CASE i = m
                <5>1. m - 1 \in 1..m /\ m - 1 # m
                    BY <2>2, <2>4
                <5> QED BY <2>4, <4>1, <5>1
            <4>2. CASE i # m
                <5>1. i \in 1..(m - 1)
                    BY <2>2, <4>2
                <5>2. f[i] = Take(f, i)
                    BY <3>2, <5>1
                <5>3. i # 1 => i - 1 \in 1..m /\ i - 1 # m
                    BY <2>2, <5>1
                <5> QED BY <4>2, <5>2, <5>3
            <4> QED BY <4>1, <4>2
        <3>4. g = [i \in 1..m |-> Take(g, i)]
            BY <3>3
        <3> QED BY <2>1, <3>4
    <2> QED BY <2>3, <2>4
<1>3. \E f : f = [i \in 1..Len(parts) |-> Take(f, i)]
    <2>1. Len(parts) \in 1..Len(parts)
        BY <1>1
    <2> HIDE DEF Take
    <2> QED BY <1>2, <2>1
<1>4. all = [i \in 1..Len(parts) |-> Take(all, i)]
    <2> HIDE DEF Take
    <2> QED BY <1>3
<1>5. Seqs!FlattenSeq(parts) = all[Len(parts)]
    BY <1>1 DEF Seqs!FlattenSeq
<1>6. all[1] = parts[1] /\ \A i \in 2..Len(parts) : all[i] = all[i - 1] \o parts[i]
    <2>1. \A i \in 1..Len(parts) : all[i] = Take(all, i)
        <3> HIDE DEF all, Take
        <3> QED BY <1>4
    <2> HIDE DEF all
    <2>2. all[1] = parts[1]
        BY <1>1, <2>1
    <2>3. ASSUME NEW i \in 2..Len(parts) PROVE all[i] = all[i - 1] \o parts[i]
        <3>1. i \in 1..Len(parts) /\ i # 1
            BY <1>1
        <3> QED BY <2>1, <3>1
    <2> QED BY <2>2, <2>3
<1> QED BY <1>5, <1>6

(* Concatenation is associative, as the induction below needs it.            *)
LEMMA Regroup ==
    ASSUME NEW S
    PROVE  \A a, b, c \in Seq(S) : a \o b \in Seq(S) /\ (a \o b) \o c = a \o (b \o c)
<1> SUFFICES ASSUME NEW a \in Seq(S), NEW b \in Seq(S), NEW c \in Seq(S)
             PROVE  a \o b \in Seq(S) /\ (a \o b) \o c = a \o (b \o c)
    OBVIOUS
<1>1. a \o b \in Seq(S)
    BY ConcatProperties
<1>2. (a \o b) \o c = a \o (b \o c)
    BY ConcatAssociative
<1> QED BY <1>1, <1>2

\* rest[j] is what parts hold from j on.
Rests(S, parts, rest) == /\ rest[Len(parts) + 1] = <<>>
                         /\ \A j \in 1..Len(parts) : /\ rest[j] \in Seq(S)
                                                      /\ rest[j] = parts[j] \o rest[j + 1]

(* What is put together from the right is what FlattenSeq puts together from *)
(* the left.                                                                 *)
LEMMA FromTheRight ==
    ASSUME NEW S, NEW parts \in Seq(Seq(S)), NEW rest, Rests(S, parts, rest)
    PROVE  Seqs!FlattenSeq(parts) = rest[1]
<1> USE DEF Rests
<1>1. CASE parts = <<>>
    BY <1>1 DEF Seqs!FlattenSeq
<1>2. CASE parts # <<>>
    <2>1. PICK f : /\ Seqs!FlattenSeq(parts) = f[Len(parts)]
                   /\ f[1] = parts[1]
                   /\ \A i \in 2..Len(parts) : f[i] = f[i - 1] \o parts[i]
        BY <1>2, Flattening
    <2>2. Len(parts) \in Nat \ {0} /\ \A i \in 1..Len(parts) : parts[i] \in Seq(S)
        BY <1>2
    <2>3. \A i \in 1..(Len(parts) + 1) : rest[i] \in Seq(S)
        <3>1. rest[Len(parts) + 1] \in Seq(S)
            OBVIOUS
        <3>2. \A i \in 1..(Len(parts) + 1) : i \in 1..Len(parts) \/ i = Len(parts) + 1
            BY <2>2
        <3> QED BY <3>1, <3>2, Zenon
    <2> DEFINE T == {i \in 1..Len(parts) : ~ (f[i] \in Seq(S) /\ f[i] \o rest[i + 1] = rest[1])}
    <2>4. ASSUME T # {} PROVE FALSE
        <3>1. PICK m \in T : \A n \in T : m <= n
            <4>1. T \in SUBSET Nat
                <5>1. T \subseteq 1..Len(parts)
                    BY Zenon
                <5>2. 1..Len(parts) \subseteq Nat
                    BY <2>2
                <5> QED BY <5>1, <5>2, Zenon
            <4> HIDE DEF T
            <4> QED BY <2>4, <4>1, LeastNat
        <3>2. CASE m = 1
            BY <2>1, <2>2, <3>1, <3>2
        <3>3. CASE m # 1
            <4>1. m \in 2..Len(parts) /\ m \in Nat /\ m - 1 \in 1..Len(parts) /\ ~(m <= m - 1)
                BY <2>2, <3>3
            <4>2. f[m - 1] \in Seq(S) /\ f[m - 1] \o rest[(m - 1) + 1] = rest[1]
                BY <3>1, <4>1
            <4>3. f[m] = f[m - 1] \o parts[m] /\ rest[m] = parts[m] \o rest[m + 1]
                BY <2>1, <4>1
            <4>4. parts[m] \in Seq(S) /\ rest[m + 1] \in Seq(S)
                BY <2>2, <2>3, <4>1
            <4>5. (m - 1) + 1 = m
                BY <4>1
            <4>6. f[m - 1] \in Seq(S) /\ f[m - 1] \o rest[m] = rest[1]
                BY <4>2, <4>5
            <4>7. f[m] \in Seq(S) /\ f[m] \o rest[m + 1] = rest[1]
                <5> HIDE DEF T, Rests
                <5>1. /\ f[m - 1] \o parts[m] \in Seq(S)
                      /\ (f[m - 1] \o parts[m]) \o rest[m + 1]
                             = f[m - 1] \o (parts[m] \o rest[m + 1])
                    <6>1. \A a, b, c \in Seq(S) :
                              a \o b \in Seq(S) /\ (a \o b) \o c = a \o (b \o c)
                        BY Regroup
                    <6>2. parts[m] \in Seq(S) /\ rest[m + 1] \in Seq(S) /\ f[m - 1] \in Seq(S)
                        BY <4>4, <4>6, Zenon
                    <6> QED BY <6>1, <6>2, Zenon
                <5>2. f[m] \in Seq(S)
                    BY <4>3, <5>1, Zenon
                <5>3. f[m] \o rest[m + 1] = (f[m - 1] \o parts[m]) \o rest[m + 1]
                    BY <4>3, Zenon
                <5>4. f[m - 1] \o (parts[m] \o rest[m + 1]) = f[m - 1] \o rest[m]
                    BY <4>3, Zenon
                <5> QED BY <4>6, <5>1, <5>2, <5>3, <5>4, Zenon
            <4> QED BY <3>1, <4>7, Zenon
        <3> QED BY <3>2, <3>3
    <2>5. Len(parts) \in 1..Len(parts)
        BY <2>2
    <2>6. f[Len(parts)] \in Seq(S) /\ f[Len(parts)] \o rest[Len(parts) + 1] = rest[1]
        BY <2>4, <2>5
    <2> QED BY <2>1, <2>6, ConcatEmptySeq
<1> QED BY <1>1, <1>2

-----------------------------------------------------------------------------
(* The loop over argv.                                                       *)

\* The provers do not know that a literal is a string.
Text == STRING \cup {"true"}
Pair == STRING \X Text

\* A turn at j needs what follows the token, or what follows its value.
LEMMA TurnLooksAhead ==
    ASSUME NEW argv, NEW f, NEW g, NEW j, f[j + 1] = g[j + 1],
           j < Len(argv) => f[j + 2] = g[j + 2]
    PROVE  Turn(argv, f, j) = Turn(argv, g, j)
BY Zenon DEF Turn, Takes

\* The recursive function of ParseArgvPairs exists.
LEMMA Reading ==
    ASSUME NEW argv, Len(argv) \in Nat
    PROVE  \E rest : /\ ParseArgvPairs(argv) = rest[1]
                     /\ rest[Len(argv) + 1] = <<>>
                     /\ \A j \in 1..Len(argv) : rest[j] = Turn(argv, rest, j)
<1> DEFINE n == Len(argv)
           At(f, j) == IF j > n THEN <<>> ELSE Turn(argv, f, j)
           From(m) == (n + 1 - m)..(n + 1)
           T == {m \in 0..n : ~ \E f : f = [j \in From(m) |-> At(f, j)]}
           all == CHOOSE f : f = [j \in 1..(n + 1) |-> At(f, j)]
<1>1. ASSUME T # {} PROVE FALSE
    <2>1. PICK m \in T : \A i \in T : m <= i
        <3>1. T \in SUBSET Nat
            <4> HIDE DEF At, From
            <4> QED OBVIOUS
        <3> HIDE DEF T
        <3> QED BY <1>1, <3>1, LeastNat
    <2>2. m \in 0..n /\ ~ \E f : f = [j \in From(m) |-> At(f, j)]
        <3> HIDE DEF At, From
        <3> QED BY <2>1
    <2>3. CASE m = 0
        <3> DEFINE f == [j \in From(0) |-> <<>>]
        <3>1. \A j \in From(0) : j > n
            OBVIOUS
        <3>2. f = [j \in From(0) |-> At(f, j)]
            BY <3>1
        <3> HIDE DEF f
        <3> QED BY <2>2, <2>3, <3>2
    <2>4. CASE m # 0
        <3>1. m - 1 \in 0..n /\ ~(m <= m - 1)
            BY <2>2, <2>4
        <3>2. \E f : f = [j \in From(m - 1) |-> At(f, j)]
            <4> HIDE DEF At, From
            <4> QED BY <2>1, <3>1
        <3>3. PICK f : f = [j \in From(m - 1) |-> At(f, j)]
            BY <3>2
        <3> DEFINE first == n + 1 - m
                   g == [j \in From(m) |-> IF j = first THEN At(f, j) ELSE f[j]]
        <3>4. ASSUME NEW j \in From(m) PROVE g[j] = At(g, j)
            <4>1. At(f, j) = At(g, j)
                <5>1. j \in Int /\ first <= j /\ first \in Int /\ j <= n + 1
                    BY <2>2
                <5>2. CASE j > n
                    BY <5>2
                <5>3. CASE ~(j > n)
                    <6>1. j + 1 \in From(m) /\ j + 1 # first
                        BY <2>2, <5>1, <5>3
                    <6>2. g[j + 1] = f[j + 1]
                        <7> HIDE DEF At, From, first
                        <7> QED BY <6>1
                    <6>3. j < n => j + 2 \in From(m) /\ j + 2 # first
                        BY <2>2, <5>1
                    <6>4. j < n => g[j + 2] = f[j + 2]
                        <7> HIDE DEF At, From, first
                        <7> QED BY <6>3
                    <6>5. Turn(argv, f, j) = Turn(argv, g, j)
                        <7> HIDE DEF g
                        <7> QED BY <6>2, <6>4, TurnLooksAhead
                    <6> HIDE DEF g
                    <6> QED BY <5>3, <6>5
                <5> QED BY <5>2, <5>3
            <4>2. CASE j = first
                <5> HIDE DEF At, From, first
                <5>1. g[j] = At(f, j)
                    BY <4>2
                <5> HIDE DEF g
                <5> QED BY <4>1, <5>1
            <4>3. CASE j # first
                <5>1. j \in From(m - 1)
                    BY <2>2, <4>3
                <5>2. g[j] = f[j]
                    <6> HIDE DEF At, From, first
                    <6> QED BY <4>3
                <5>3. f[j] = At(f, j)
                    <6> HIDE DEF At, From, first
                    <6> QED BY <3>3, <5>1
                <5> HIDE DEF g, At, From, first
                <5> QED BY <4>1, <5>2, <5>3
            <4> QED BY <4>2, <4>3
        <3>5. g = [j \in From(m) |-> g[j]]
            <4> HIDE DEF At, From, first
            <4> QED OBVIOUS
        <3>6. g = [j \in From(m) |-> At(g, j)]
            <4> HIDE DEF At, From, g
            <4> QED BY <3>4, <3>5
        <3> HIDE DEF At, From, g
        <3> QED BY <2>2, <3>6
    <2> QED BY <2>3, <2>4
<1>2. \E f : f = [j \in 1..(n + 1) |-> At(f, j)]
    <2>1. n \in 0..n /\ From(n) = 1..(n + 1)
        OBVIOUS
    <2>2. \E f : f = [j \in From(n) |-> At(f, j)]
        <3> HIDE DEF At, From
        <3> QED BY <1>1, <2>1
    <2> HIDE DEF At, From
    <2> QED BY <2>1, <2>2
<1>3. all = [j \in 1..(n + 1) |-> At(all, j)]
    <2> HIDE DEF At
    <2> QED BY <1>2
<1>4. ParseArgvPairs(argv) = all[1]
    BY DEF ParseArgvPairs
<1>5. \A j \in 1..(n + 1) : all[j] = At(all, j)
    <2> HIDE DEF At, all
    <2> QED BY <1>3
<1> HIDE DEF all
<1>6. all[n + 1] = <<>>
    BY <1>5
<1>7. \A j \in 1..n : all[j] = Turn(argv, all, j)
    BY <1>5
<1> QED BY <1>4, <1>6, <1>7

\* The forms of a token, and what the other fields hold.
LEMMA Forms ==
    ASSUME NEW t \in Token
    PROVE  /\ t.form \in {"eq", "long", "short", "word", "slash"}
           /\ t.form = "eq" => t.name \in STRING /\ t.text \in STRING
           /\ t.form = "long" => t.name \in STRING
           /\ t.form = "short" => t.letters \in Seq(STRING)
           /\ t.form \in {"word", "slash"} => t.text \in STRING
BY DEF Token

\* Names without a value, and letters, become pairs.
LEMMA Pairs ==
    /\ \A name \in STRING : \A text \in Text : Named(name, text) \in Seq(Pair)
    /\ \A letters \in Seq(STRING) : Bundle(letters) \in Seq(Pair)
<1>1. ASSUME NEW name \in STRING, NEW text \in Text PROVE Named(name, text) \in Seq(Pair)
    <2> DEFINE p == <<name, text>>
    <2>1. p \in Pair
        BY DEF Pair
    <2>2. Named(name, text) = <<>> \/ Named(name, text) = <<p>>
        BY DEF Named
    <2>3. <<>> \in Seq(Pair) /\ <<p>> \in Seq(Pair)
        <3> HIDE DEF p
        <3> QED BY <2>1
    <2> QED BY <2>2, <2>3, Zenon
<1>2. ASSUME NEW letters \in Seq(STRING) PROVE Bundle(letters) \in Seq(Pair)
    <2>1. ASSUME NEW i \in 1..Len(letters) PROVE <<letters[i], "true">> \in Pair
        <3>1. letters[i] \in STRING
            OBVIOUS
        <3>2. "true" \in Text
            BY DEF Text
        <3>3. \A s \in STRING : \A v \in Text : <<s, v>> \in Pair
            BY DEF Pair
        <3> QED BY <3>1, <3>2, <3>3, Zenon
    <2> QED BY <2>1 DEF Bundle
<1> QED BY <1>1, <1>2

\* What a token says is a sequence of pairs, and what a turn adds to it is what
\* follows the token, or what follows the value that it takes.
LEMMA TurnIs ==
    ASSUME NEW argv \in Seq(Token), NEW rest, NEW j \in 1..Len(argv)
    PROVE  /\ Said(argv, j) \in Seq(Pair)
           /\ (argv[j].form = "long" /\ Takes(argv, j)) =>
                  Turn(argv, rest, j) = Said(argv, j) \o rest[j + 2]
           /\ argv[j].form \in {"eq", "short"} \/ (argv[j].form = "long" /\ ~Takes(argv, j)) =>
                  Turn(argv, rest, j) = Said(argv, j) \o rest[j + 1]
           /\ argv[j].form \in {"word", "slash"} =>
                  Said(argv, j) = <<>> /\ Turn(argv, rest, j) = rest[j + 1]
<1>1. argv[j] \in Token /\ (j < Len(argv) => argv[j + 1] \in Token)
    BY DEF Token
<1>2. Said(argv, j) \in Seq(Pair)
    <2>1. argv[j].form = "eq" => Said(argv, j) = Named(argv[j].name, argv[j].text)
        BY Zenon DEF Said
    <2>2. argv[j].form = "long" =>
              \/ Takes(argv, j) /\ Said(argv, j) = Named(argv[j].name, argv[j + 1].text)
              \/ Said(argv, j) = Named(argv[j].name, "true")
        BY DEF Said
    <2>3. argv[j].form = "short" => Said(argv, j) = Bundle(argv[j].letters)
        BY DEF Said
    <2>4. argv[j].form \in {"word", "slash"} => Said(argv, j) = <<>>
        BY DEF Said
    <2>5. "true" \in Text /\ <<>> \in Seq(Pair)
        <3>1. "true" \in Text
            BY DEF Text
        <3>2. <<>> \in Seq(Pair)
            OBVIOUS
        <3> QED BY <3>1, <3>2, Zenon
    <2>6. Takes(argv, j) => argv[j + 1].text \in Text
        BY <1>1, Forms DEF Takes, Text
    <2>7. /\ argv[j].form \in {"eq", "long", "short", "word", "slash"}
          /\ argv[j].form = "eq" => argv[j].name \in STRING /\ argv[j].text \in Text
          /\ argv[j].form = "long" => argv[j].name \in STRING
          /\ argv[j].form = "short" => argv[j].letters \in Seq(STRING)
        BY <1>1, Forms DEF Text
    <2>8. CASE argv[j].form = "eq"
        BY <2>1, <2>7, <2>8, Pairs, Zenon
    <2>9. CASE argv[j].form = "long"
        BY <2>2, <2>5, <2>6, <2>7, <2>9, Pairs, Zenon
    <2>10. CASE argv[j].form = "short"
        BY <2>3, <2>7, <2>10, Pairs, Zenon
    <2>11. CASE argv[j].form \in {"word", "slash"}
        BY <2>4, <2>5, <2>11, Zenon
    <2> QED BY <2>7, <2>8, <2>9, <2>10, <2>11, Zenon
<1>3. ASSUME argv[j].form = "long", Takes(argv, j)
      PROVE  Turn(argv, rest, j) = Said(argv, j) \o rest[j + 2]
    <2>1. Said(argv, j) = Named(argv[j].name, argv[j + 1].text)
        BY <1>3 DEF Said
    <2>2. Turn(argv, rest, j) = Named(argv[j].name, argv[j + 1].text) \o rest[j + 2]
        BY <1>3 DEF Turn
    <2> QED BY <2>1, <2>2
<1>4. ASSUME argv[j].form \in {"eq", "short"} \/ (argv[j].form = "long" /\ ~Takes(argv, j))
      PROVE  Turn(argv, rest, j) = Said(argv, j) \o rest[j + 1]
    BY <1>4 DEF Said, Turn
<1>5. ASSUME argv[j].form \in {"word", "slash"}
      PROVE  Said(argv, j) = <<>> /\ Turn(argv, rest, j) = rest[j + 1]
    BY <1>5 DEF Said, Turn
<1> QED BY <1>2, <1>3, <1>4, <1>5

\* What is read from a token on is a sequence of pairs.
LEMMA RestTyped ==
    ASSUME NEW argv \in Seq(Token), NEW rest, rest[Len(argv) + 1] = <<>>,
           \A j \in 1..Len(argv) : rest[j] = Turn(argv, rest, j)
    PROVE  \A j \in 1..(Len(argv) + 1) : rest[j] \in Seq(Pair)
<1> DEFINE n == Len(argv)
           T == {m \in 0..n : rest[n + 1 - m] \notin Seq(Pair)}
<1>0. n \in Nat
    OBVIOUS
<1> HIDE DEF n
<1>1. ASSUME T # {} PROVE FALSE
    <2>1. PICK m \in T : \A i \in T : m <= i
        <3>1. T \in SUBSET Nat
            BY <1>0
        <3> HIDE DEF T
        <3> QED BY <1>1, <3>1, LeastNat
    <2>2. m \in 0..n /\ rest[n + 1 - m] \notin Seq(Pair)
        BY <2>1
    <2> DEFINE j == n + 1 - m
    <2>3. CASE m = 0
        <3>1. n + 1 - m = n + 1 /\ rest[n + 1] = <<>>
            BY <1>0, <2>3 DEF n
        <3>2. <<>> \in Seq(Pair)
            OBVIOUS
        <3> QED BY <2>2, <3>1, <3>2, Zenon
    <2>4. CASE m # 0
        <3>1. j \in 1..n /\ j + 1 = n + 1 - (m - 1) /\ j + 2 = n + 1 - (m - 2)
            BY <1>0, <2>2, <2>4
        <3>2. rest[j + 1] \in Seq(Pair)
            <4>1. m - 1 \in 0..n /\ ~(m <= m - 1)
                BY <1>0, <2>2, <2>4
            <4>2. rest[n + 1 - (m - 1)] \in Seq(Pair)
                BY <2>1, <4>1
            <4> QED BY <3>1, <4>2
        <3>3. j < n => rest[j + 2] \in Seq(Pair)
            <4> SUFFICES ASSUME j < n PROVE rest[j + 2] \in Seq(Pair)
                OBVIOUS
            <4>1. m - 2 \in 0..n /\ ~(m <= m - 2)
                BY <1>0, <2>2
            <4>2. rest[n + 1 - (m - 2)] \in Seq(Pair)
                BY <2>1, <4>1
            <4> QED BY <3>1, <4>2
        <3>4. Turn(argv, rest, j) \in Seq(Pair)
            <4> HIDE DEF j
            <4>1. /\ argv[j].form \in {"eq", "long", "short", "word", "slash"}
                  /\ Takes(argv, j) => j < n
                BY <3>1, Forms DEF Takes, n
            <4>2. Said(argv, j) \in Seq(Pair)
                BY <3>1, TurnIs DEF n
            <4>3. Turn(argv, rest, j) \in {rest[j + 1], Said(argv, j) \o rest[j + 1]}
                      \/ (j < n /\ Turn(argv, rest, j) = Said(argv, j) \o rest[j + 2])
                BY <3>1, <4>1, TurnIs DEF n
            <4>4. \A a, b \in Seq(Pair) : a \o b \in Seq(Pair)
                BY ConcatProperties
            <4> QED BY <3>2, <3>3, <4>2, <4>3, <4>4, Zenon
        <3>5. rest[j] = Turn(argv, rest, j)
            BY <3>1 DEF n
        <3> QED BY <2>2, <3>4, <3>5
    <2> QED BY <2>3, <2>4
<1>2. ASSUME NEW j \in 1..(n + 1) PROVE rest[j] \in Seq(Pair)
    <2>1. n + 1 - j \in 0..n /\ n + 1 - (n + 1 - j) = j
        BY <1>0
    <2>2. rest[n + 1 - (n + 1 - j)] \in Seq(Pair)
        BY <1>1, <2>1
    <2> QED BY <2>1, <2>2
<1> QED BY <1>2 DEF n

\* What is read from a token on is what the token says and what is read from the
\* next token on, also if that is the value.
LEMMA RestIsLocal ==
    ASSUME NEW argv \in Seq(Token), NEW rest, rest[Len(argv) + 1] = <<>>,
           \A j \in 1..Len(argv) : rest[j] = Turn(argv, rest, j),
           NEW j \in 1..Len(argv)
    PROVE  rest[j] = Said(argv, j) \o rest[j + 1]
<1>1. rest[j] = Turn(argv, rest, j)
    OBVIOUS
<1>2. rest[j + 1] \in Seq(Pair)
    <2>1. j + 1 \in 1..(Len(argv) + 1)
        OBVIOUS
    <2> QED BY <2>1, RestTyped
<1>3. argv[j].form \in {"eq", "long", "short", "word", "slash"}
    BY Forms
<1>4. CASE argv[j].form = "long" /\ Takes(argv, j)
    <2>1. j + 1 \in 1..Len(argv) /\ argv[j + 1].form = "word" /\ (j + 1) + 1 = j + 2
        BY <1>4 DEF Takes
    <2>2. rest[j + 1] = rest[j + 2]
        <3>1. rest[j + 1] = Turn(argv, rest, j + 1)
            BY <2>1
        <3>2. Turn(argv, rest, j + 1) = rest[(j + 1) + 1]
            BY <2>1, TurnIs
        <3> QED BY <2>1, <3>1, <3>2
    <2>3. Turn(argv, rest, j) = Said(argv, j) \o rest[j + 2]
        BY <1>4, TurnIs
    <2> QED BY <1>1, <2>2, <2>3, Zenon
<1>5. CASE argv[j].form \in {"eq", "short"} \/ (argv[j].form = "long" /\ ~Takes(argv, j))
    BY <1>1, <1>5, TurnIs, Zenon
<1>6. CASE argv[j].form \in {"word", "slash"}
    <2>1. Said(argv, j) = <<>> /\ rest[j] = rest[j + 1]
        BY <1>1, <1>6, TurnIs, Zenon
    <2>2. <<>> \o rest[j + 1] = rest[j + 1]
        BY <1>2, ConcatEmptySeq, Zenon
    <2> QED BY <2>1, <2>2, Zenon
<1> QED BY <1>3, <1>4, <1>5, <1>6, Zenon

(* The pairs are what the tokens say, one after the other.                   *)
LEMMA ReadLocally ==
    ASSUME NEW argv \in Seq(Token)
    PROVE  ParseArgvPairs(argv) = Seqs!FlattenSeq([j \in DOMAIN argv |-> Said(argv, j)])
<1> DEFINE parts == [j \in DOMAIN argv |-> Said(argv, j)]
<1>1. Len(argv) \in Nat /\ DOMAIN argv = 1..Len(argv)
    OBVIOUS
<1>2. PICK rest : /\ ParseArgvPairs(argv) = rest[1]
                  /\ rest[Len(argv) + 1] = <<>>
                  /\ \A j \in 1..Len(argv) : rest[j] = Turn(argv, rest, j)
    BY <1>1, Reading
<1>3. \A j \in 1..Len(argv) : Said(argv, j) \in Seq(Pair)
    BY TurnIs
<1>4. parts \in Seq(Seq(Pair)) /\ Len(parts) = Len(argv)
    BY <1>1, <1>3
<1>5. \A j \in 1..Len(argv) : rest[j] \in Seq(Pair)
    <2>1. \A j \in 1..(Len(argv) + 1) : rest[j] \in Seq(Pair)
        BY <1>2, RestTyped
    <2> QED BY <1>1, <2>1
<1>6. \A j \in 1..Len(argv) : rest[j] = parts[j] \o rest[j + 1]
    <2>1. \A j \in 1..Len(argv) : rest[j] = Said(argv, j) \o rest[j + 1]
        BY <1>2, RestIsLocal
    <2>2. \A j \in 1..Len(argv) : parts[j] = Said(argv, j)
        BY <1>1
    <2> HIDE DEF parts
    <2> QED BY <2>1, <2>2, Zenon
<1> HIDE DEF parts
<1>7. Rests(Pair, parts, rest)
    BY <1>2, <1>4, <1>5, <1>6 DEF Rests
<1>8. Seqs!FlattenSeq(parts) = rest[1]
    BY <1>4, <1>7, FromTheRight
<1> QED BY <1>2, <1>8 DEF parts

-----------------------------------------------------------------------------
(* The resolver by itself.                                                   *)

OwnInv == RInv /\ world \in Worlds /\ chain \in Chains /\ params \in Params

LEMMA OwnHolds == Spec => []OwnInv
<1>1. Init => OwnInv
    <2> SUFFICES ASSUME Init PROVE OwnInv
        OBVIOUS
    <2>1. ListOfSources
        <3> DEFINE source == [kind : Kinds, path : STRING, asks : BOOLEAN]
        <3>1. chain \in Seq(source)
            BY ChainsAssumption DEF Init
        <3>2. \A n \in DOMAIN chain : chain[n] \in source
            <4> HIDE DEF source
            <4> QED BY <3>1
        <3>3. Len(chain) \in Nat /\ DOMAIN chain = 1..Len(chain)
            <4> HIDE DEF source
            <4> QED BY <3>1
        <3>4. \A n \in DOMAIN chain : chain[n].kind \in Kinds
            BY <3>2
        <3> QED BY <3>3, <3>4 DEF ListOfSources
    <2> QED BY <2>1, StartHolds DEF Init, OwnInv
<1>2. OwnInv /\ [Next]_vars => OwnInv'
    BY NextKeeps DEF OwnInv, Next, vars, inputs, Prepare, Ask, EndOfChain, ApplyDefaults, Validate
<1> QED BY <1>1, <1>2, PTL DEF Spec

\* The types of the resolver's variables.
THEOREM TypeCorrect == Spec => []TypeOK
<1>1. OwnInv => TypeOK
    BY DEF OwnInv, RInv, RTypes, TypeOK
<1> QED BY <1>1, OwnHolds, PTL

\* CLI > CONFIG > ENV > Prompt, or whatever the order of the chain is.
THEOREM StrongestSource == Spec => []EarlierWins
<1>1. OwnInv => EarlierWins
    BY FirstHasIt DEF OwnInv
<1> QED BY <1>1, OwnHolds, PTL

\* Nobody is asked for nothing.
THEOREM NoNeedlessQuestion == Spec => []AskedOnlyForHoles
<1>1. OwnInv => AskedOnlyForHoles
    BY HolesOnly DEF OwnInv
<1> QED BY <1>1, OwnHolds, PTL

\* Missing options are exactly the ones that are reported as missing.
THEOREM MissingFound == Spec => []MissingIsReported
<1>1. OwnInv => MissingIsReported
    BY MissingReported DEF OwnInv
<1> QED BY <1>1, OwnHolds, PTL

\* No value of the command line is lost or taken twice.
THEOREM LeftToRight == Spec => []ArgvIsReadLocally
<1>1. OwnInv => ArgvIsReadLocally
    BY WorldsAssumption, ReadLocally DEF OwnInv, ArgvIsReadLocally
<1> QED BY <1>1, OwnHolds, PTL

=============================================================================
