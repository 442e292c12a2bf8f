--------------------------- MODULE BootstrapProofs ---------------------------
(***************************************************************************)
(* Proof that the bootstrap tool touches the database only when it was asked *)
(* to, for any options, command lines, files, environments and inputs.  The  *)
(* invariant BInv adds to that of the resolver what was decided and why.     *)
(***************************************************************************)
EXTENDS BootstrapConfig, ResolverProofs

Confirmed == \/ Is("yes") \/ world.stdin.kind = "tty" \/ (world.stdin.yes /\ ~Drained)

BInv == /\ RInv
        /\ world \in Worlds
        /\ chain = MakeDefaultSources(FindConfigPath(world))
        /\ stage # "prepare" => \A n \in DOMAIN chain : \A k \in Keys :
                                    answers[n][k] = ValuesOf(world, chain[n], k)
        /\ verdict # "none" => stage = "done"
        /\ verdict \in {"confirm", "execute"} => Is("force") /\ ~Is("dry_run")
        /\ verdict = "execute" => Confirmed

\* Standard input comes last, and nowhere else.
LEMMA DefaultChain ==
    ASSUME chain = MakeDefaultSources(FindConfigPath(world))
    PROVE  /\ ListOfSources
           /\ Len(chain) \in DOMAIN chain
           /\ \A n \in DOMAIN chain : chain[n].kind = "stdin" <=> n = Len(chain)
<1> DEFINE path == FindConfigPath(world)
<1>1. /\ Source("cli", NoPath).kind = "cli"
      /\ Source("file", path).kind = "file"
      /\ Source("env", NoPath).kind = "env"
      /\ Source("stdin", NoPath).kind = "stdin"
    BY DEF Source
<1>2. \/ chain = <<Source("cli", NoPath), Source("env", NoPath), Source("stdin", NoPath)>>
      \/ chain = <<Source("cli", NoPath), Source("file", path), Source("env", NoPath),
                   Source("stdin", NoPath)>>
    BY DEF MakeDefaultSources
<1>3. \/ /\ Len(chain) = 3 /\ DOMAIN chain = 1..3
         /\ chain[1].kind = "cli" /\ chain[2].kind = "env" /\ chain[3].kind = "stdin"
      \/ /\ Len(chain) = 4 /\ DOMAIN chain = 1..4
         /\ chain[1].kind = "cli" /\ chain[2].kind = "file" /\ chain[3].kind = "env"
         /\ chain[4].kind = "stdin"
    <2> HIDE DEF path
    <2> QED BY <1>1, <1>2
<1>4. CASE Len(chain) = 3
    <2>1. /\ DOMAIN chain = 1..3 /\ \A n \in 1..3 : n = 1 \/ n = 2 \/ n = 3
          /\ chain[1].kind = "cli" /\ chain[2].kind = "env" /\ chain[3].kind = "stdin"
        BY <1>3, <1>4
    <2> QED BY <2>1, <1>4 DEF ListOfSources, Kinds
<1>5. CASE Len(chain) = 4
    <2>1. /\ DOMAIN chain = 1..4 /\ \A n \in 1..4 : n = 1 \/ n = 2 \/ n = 3 \/ n = 4
          /\ chain[1].kind = "cli" /\ chain[2].kind = "file" /\ chain[3].kind = "env"
          /\ chain[4].kind = "stdin"
        BY <1>3, <1>5
    <2> QED BY <2>1, <1>5 DEF ListOfSources, Kinds
<1> QED BY <1>3, <1>4, <1>5

LEMMA InitHolds == ResolveForInit => BInv
<1> SUFFICES ASSUME ResolveForInit PROVE BInv
    OBVIOUS
<1>1. RInv
    BY DefaultChain, StartHolds DEF ResolveForInit
<1> QED BY <1>1 DEF ResolveForInit, Start, BInv

LEMMA ResolveKeeps == ASSUME BInv, Next, UNCHANGED verdict PROVE BInv'
<1>1. RInv'
    BY NextKeeps DEF BInv
<1>2. /\ UNCHANGED <<world, chain, params>> /\ stage # "done"
      /\ \/ UNCHANGED answers /\ stage # "prepare"
         \/ answers' = [n \in DOMAIN chain |-> [k \in Keys |-> ValuesOf(world, chain[n], k)]]
    BY DEF Next, Prepare, Ask, EndOfChain, ApplyDefaults, Validate, inputs
<1>3. verdict = "none"
    BY <1>2 DEF BInv
<1>4. ASSUME NEW n \in DOMAIN chain, NEW k \in Keys
      PROVE  answers'[n][k] = ValuesOf(world, chain[n], k)
    BY <1>2 DEF BInv
<1> QED BY <1>1, <1>2, <1>3, <1>4 DEF BInv

LEMMA DecideKeeps == ASSUME BInv, Decide \/ Confirm PROVE BInv'
<1>1. UNCHANGED <<world, chain, params, answers, stage, pos, values, origin, asked, errors>>
    BY DEF Decide, Confirm, vars, inputs
<1>2. RInv'
    BY <1>1, StutterKeeps DEF BInv
<1>3. \A k : Is(k)' = Is(k)
    BY <1>1 DEF Is, Given
<1>4. Confirmed' = Confirmed
    BY <1>1, <1>3 DEF Confirmed, Drained
<1>5. CASE Decide
    <2>1. stage = "done"
        BY <1>5 DEF Decide
    <2>2. verdict' \in {"confirm", "execute"} => Is("force") /\ ~Is("dry_run")
        BY <1>5 DEF Decide
    <2>3. verdict' = "execute" => Confirmed
        BY <1>5 DEF Decide, Confirmed
    <2> QED BY <1>1, <1>2, <1>3, <1>4, <2>1, <2>2, <2>3 DEF BInv
<1>6. CASE Confirm
    <2>1. verdict = "confirm"
        BY <1>6 DEF Confirm
    <2>2. verdict' = "execute" => Confirmed
        BY <1>6 DEF Confirm, Confirmed
    <2> QED BY <1>1, <1>2, <1>3, <1>4, <2>1, <2>2 DEF BInv
<1> QED BY <1>5, <1>6

LEMMA RestKeeps == ASSUME BInv, UNCHANGED bcVars PROVE BInv'
<1>1. /\ UNCHANGED <<world, chain, params, answers, stage, pos, values, origin, asked, errors>>
      /\ UNCHANGED verdict
    BY DEF bcVars, vars, inputs
<1>2. RInv'
    BY <1>1, StutterKeeps DEF BInv
<1>3. \A k : Is(k)' = Is(k)
    BY <1>1 DEF Is, Given
<1>4. Confirmed' = Confirmed
    BY <1>1, <1>3 DEF Confirmed, Drained
<1> QED BY <1>1, <1>2, <1>3, <1>4 DEF BInv

LEMMA Always == BCSpec => []BInv
<1>1. BInv /\ [BCNext]_bcVars => BInv'
    BY ResolveKeeps, DecideKeeps, RestKeeps DEF BCNext
<1> QED BY InitHolds, <1>1, PTL DEF BCSpec

-----------------------------------------------------------------------------

\* A source has at most one answer for the options that decide.
LEMMA OneAnswer ==
    ASSUME world \in Worlds, NEW k \in Consent, NEW s, s.kind \in Kinds,
           NEW u \in ValuesOf(world, s, k), NEW v \in ValuesOf(world, s, k)
    PROVE  u = v
<1>1. CASE s.kind = "cli"
    BY <1>1 DEF ValuesOf, CliValues
<1>2. CASE s.kind = "file"
    BY <1>2 DEF ValuesOf, FileValues, ObjectValues
<1>3. CASE s.kind = "env"
    BY <1>3, ConsentAssumption DEF ValuesOf, EnvValues
<1>4. CASE s.kind = "stdin"
    BY <1>4 DEF ValuesOf, StdinValues, ObjectValues
<1> QED BY <1>1, <1>2, <1>3, <1>4 DEF Kinds

\* The value of such an option is the text of its strongest source.
LEMMA ValueOnTop ==
    ASSUME BInv, stage = "done", NEW k \in Consent, NEW v
    PROVE  TopText(k, v) <=> k \in DOMAIN values /\ values[k] = v
<1>1. k \in Keys /\ ~HasDefault(k)
    BY ConsentAssumption DEF HasDefault
<1>2. /\ k \in DOMAIN values <=> Knowing(k) # {}
      /\ Knowing(k) # {} => FromFirst(k)
      /\ Knowing(k) \in SUBSET Nat
    BY <1>1, KnownPositions DEF BInv, RInv, Asking, Asked
<1>3. CASE Knowing(k) # {}
    <2>1. PICK n \in Knowing(k) : /\ \A m \in Knowing(k) : n <= m
                                 /\ values[k] \in answers[n][k]
        BY <1>2, <1>3 DEF FromFirst
    <2>2. Least(Knowing(k)) = n
        BY <1>2, <2>1, LeastIs
    <2>3. n \in DOMAIN chain /\ answers[n][k] = ValuesOf(world, chain[n], k)
        BY <1>1, <2>1 DEF BInv, RInv, Asking, Knowing
    <2>4. chain[n].kind \in Kinds /\ world \in Worlds
        BY <2>3 DEF BInv, RInv, ListOfSources
    <2>5. v \in answers[n][k] => v = values[k]
        BY <2>1, <2>3, <2>4, OneAnswer
    <2> QED BY <1>2, <1>3, <2>1, <2>2, <2>5 DEF TopText
<1>4. CASE Knowing(k) = {}
    BY <1>2, <1>4 DEF TopText
<1> QED BY <1>3, <1>4

\* The database is touched only when that was asked for.
THEOREM AskedFor == BCSpec => []ExecutionIsAskedFor
<1>1. BInv => ExecutionIsAskedFor
    <2> SUFFICES ASSUME BInv, verdict = "execute"
                 PROVE  /\ TopText("force", "true")
                        /\ ~TopText("dry_run", "true")
                        /\ \/ TopText("yes", "true")
                           \/ world.stdin.kind = "tty"
                           \/ world.stdin.yes /\ ~PipeWasNeeded
        BY DEF ExecutionIsAskedFor
    <2>1. stage = "done" /\ Is("force") /\ ~Is("dry_run") /\ Confirmed
        BY DEF BInv
    <2>2. \A k \in Consent : TopText(k, "true") <=> Is(k)
        BY <2>1, ValueOnTop DEF Is, Given
    <2>3. ~Drained => ~PipeWasNeeded
        <3> SUFFICES ASSUME ~Drained, NEW k \in Keys
                     PROVE  \E n \in DOMAIN chain : chain[n].kind # "stdin" /\ n \in Knowing(k)
            BY DEF PipeWasNeeded
        <3>1. /\ Len(chain) \in DOMAIN chain /\ Len(chain) \in Nat
              /\ \A n \in DOMAIN chain : chain[n].kind = "stdin" <=> n = Len(chain)
            BY DefaultChain DEF BInv, ListOfSources
        <3>2. Len(chain) \notin asked
            BY <3>1 DEF Drained
        <3>3. FullBefore(Len(chain))
            BY <2>1, <3>1, <3>2 DEF BInv, RInv, Asked
        <3>4. PICK n \in Knowing(k) : n < Len(chain)
            BY <3>3 DEF FullBefore
        <3>5. n \in DOMAIN chain /\ n # Len(chain)
            BY <2>1, <3>1, <3>4 DEF BInv, RInv, Asking, Knowing
        <3> QED BY <3>1, <3>4, <3>5
    <2> QED BY <2>1, <2>2, <2>3 DEF Confirmed, Consent
<1> QED BY <1>1, Always, PTL
=============================================================================
