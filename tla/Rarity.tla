------------------------------- MODULE Rarity -------------------------------
(***************************************************************************)
(* Collection.Rarity() of go/erc721.  A collection is a function from its  *)
(* tokens to sequences of attributes, each a trait type and a bucketed     *)
(* value.  The logarithms are left out: what matters is that each of them  *)
(* is taken of a probability, a count n over the size of the collection.   *)
(***************************************************************************)
EXTENDS Integers, Sequences, FiniteSets, FiniteSetsExt, Functions

IsCollection(coll) ==
    /\ IsFiniteSet(DOMAIN coll)
    /\ \A id \in DOMAIN coll : coll[id] \in Seq([trait : STRING, value : STRING])

\* All occurrences of attributes, as pairs of token and index.
Attributes(coll) == UNION {{<<id, i>> : i \in DOMAIN coll[id]} : id \in DOMAIN coll}
AttributeAt(coll, at) == coll[at[1]][at[2]]
TraitTypes(coll) == {AttributeAt(coll, at).trait : at \in Attributes(coll)}

counts(coll, trait) ==
    Cardinality({at \in Attributes(coll) : AttributeAt(coll, at).trait = trait})

distribution(coll, trait) ==
    LET of == {at \in Attributes(coll) : AttributeAt(coll, at).trait = trait}
    IN [v \in {AttributeAt(coll, at).value : at \in of} |->
           Cardinality({at \in of : AttributeAt(coll, at).value = v})]

\* The indices of a token's attributes of a type; the last one is remembered.
AttributesOf(coll, id, trait) == {i \in DOMAIN coll[id] : coll[id][i].trait = trait}

\* The count n that the score of a token takes the logarithm of.
ScoreCount(coll, id, trait) ==
    LET has == AttributesOf(coll, id, trait)
    IN IF has = {} THEN Cardinality(DOMAIN coll) - counts(coll, trait)
       ELSE distribution(coll, trait)[coll[id][Max(has)].value]

\* The counts that the entropy of the collection sums over, null included.
NullValue == <<>>
EntropyCounts(coll, trait) ==
    LET dist == distribution(coll, trait)
        null == Cardinality(DOMAIN coll) - counts(coll, trait)
    IN [x \in {<<v>> : v \in DOMAIN dist} \cup (IF null # 0 THEN {NullValue} ELSE {}) |->
           IF x = NullValue THEN null ELSE dist[x[1]]]

-----------------------------------------------------------------------------

\* No token has two attributes of one type.
OneOfEach(coll) ==
    \A id \in DOMAIN coll, trait \in TraitTypes(coll) :
        Cardinality(AttributesOf(coll, id, trait)) <= 1

(***************************************************************************)
(* The comment on Rarity(): every trait type is "a categorical probability *)
(* distribution" in which its absence is a value too.  The probabilities   *)
(* of the entropy sum to one, and the score of every token is made of      *)
(* those same probabilities, none of them zero, when no token has two      *)
(* attributes of one type.                                                 *)
(***************************************************************************)
RarityIsDistribution(coll) ==
    OneOfEach(coll) =>
        \A trait \in TraitTypes(coll) :
            LET ps == EntropyCounts(coll, trait) IN
            /\ SumFunction(ps) = Cardinality(DOMAIN coll)
            /\ \A id \in DOMAIN coll :
                 /\ ScoreCount(coll, id, trait) > 0
                 /\ \E x \in DOMAIN ps :
                      /\ ps[x] = ScoreCount(coll, id, trait)
                      /\ x = NullValue <=> AttributesOf(coll, id, trait) = {}

=============================================================================
