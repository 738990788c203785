----------------------------- MODULE SearchTree -----------------------------
(***************************************************************************)
(* The plan search (search in search_engine.py, with the tree operations   *)
(* that runtime_closure_search.py installs): a tree of plan texts, grown   *)
(* by one of three algorithms until its iterations, its time or its nodes  *)
(* are used up, and kept in the session for the next search.               *)
(*                                                                         *)
(* A rollout gives a text its value, the same each time; UCB is left open, *)
(* so selection may follow any child (exploration and cost_penalty are the *)
(* caller's).  Mean values are exact fractions: pruning depends on them.   *)
(***************************************************************************)
EXTENDS Integers, Sequences, FiniteSets

CONSTANTS
    Texts,       \* the plan texts, up to normalization (_hash)
    Scale,       \* bound: values are multiples of 1/Scale; it stands for 1.0
    Value,       \* [Texts -> the value of a rollout, 0..Scale]
    Penalty,     \* [Texts -> feedback_penalty under the execution feedback]
    Roots,       \* the texts a search may start from
    JudgeEvals,  \* judge_evals: a judge may raise the value that is propagated
    Modes,       \* the algorithms tried: "mcts", "beam", "ast"
    Width, Depth, BeamWidth, MaxNodes, Iterations, PruneMargin,
    MaxSeeds,    \* the finished plans a tree is seeded with (3 in the code)
    MaxSearches, \* bound: the searches of one session
    Nil

ASSUME SearchAssumption ==
    /\ Scale \in Nat /\ Value \in [Texts -> 0 .. Scale] /\ Penalty \in [Texts -> Nat]
    /\ Roots \subseteq Texts /\ JudgeEvals \in BOOLEAN /\ Modes \subseteq {"mcts", "beam", "ast"}
    /\ {Width, Depth, BeamWidth, MaxNodes, Iterations, PruneMargin, MaxSeeds, MaxSearches} \subseteq Nat
    /\ Nil \notin Nat

VARIABLES
    tree,      \* [nodes, trans, root, best, bestValue, seq, seeded]; nodes maps
               \* an id to [text, parent, depth, value, q, visits, children]
    search_pc, \* where the search stands
    mode,
    feedback,  \* whether execution feedback was given
    count,     \* seeds, iterations or levels done
    wide,      \* [width, plateau, prev]: the escalation of the width
    sel,       \* the node being expanded
    variants,  \* the variants of it still to be added
    frontier,  \* beam: the nodes of this level still to be expanded
    nextf,     \* beam: the nodes of the next one
    searches,
    best_found, \* the node returned, as it was then
    top        \* history: the highest value of a node made or met in this search

searchVars == <<tree, search_pc, mode, feedback, count, wide, sel, variants, frontier, nextf,
                searches, best_found, top>>

SearchNode == [text : Texts, parent : Nat \cup {Nil}, depth : Nat, value : 0 .. Scale,
               q : Nat \X (Nat \ {0}), visits : Nat, children : SUBSET Nat]

SearchTypeOK ==
    /\ tree.seq \in Nat /\ DOMAIN tree.nodes \subseteq 1 .. tree.seq
    /\ \A n \in DOMAIN tree.nodes : tree.nodes[n] \in SearchNode
    /\ search_pc \in {"idle", "seed", "loop", "variant", "pruning", "end"}
    /\ mode \in Modes \cup {Nil} /\ feedback \in BOOLEAN
    /\ count \in 0 .. (Iterations + Depth + MaxSeeds)
    /\ wide.width \in Width .. (Width + 2) /\ wide.plateau \in 0 .. 2
    /\ variants \in Seq(Texts) /\ frontier \in Seq(Nat) /\ nextf \in Seq(Nat)
    /\ searches \in 0 .. MaxSearches

fresh_tree == [nodes |-> <<>>, trans |-> <<>>, root |-> Nil, best |-> Nil,
               bestValue |-> 0, seq |-> 0, seeded |-> FALSE]

SearchInit ==
    /\ tree = fresh_tree /\ search_pc = "idle" /\ mode = Nil /\ feedback = FALSE /\ count = 0
    /\ wide = [width |-> Width, plateau |-> 0, prev |-> 0]
    /\ sel = Nil /\ variants = <<>> /\ frontier = <<>> /\ nextf = <<>> /\ searches = 0
    /\ best_found = Nil /\ top = 0

-----------------------------------------------------------------------------
(* The tree *)

\* what can be reached from S: the least set that holds S and its children's children
Closed(ns, C) == \A n \in C : ns[n].children \subseteq C
Below(ns, S) ==
    {n \in DOMAIN ns : \A C \in SUBSET DOMAIN ns : S \subseteq C /\ Closed(ns, C) => n \in C}

\* n, its parent, the parent's parent and so on
Above(ns, n) ==
    {m \in DOMAIN ns : \A C \in SUBSET DOMAIN ns :
        n \in C /\ (\A k \in C : ns[k].parent \in C \cup {Nil}) => m \in C}

\* fractions, in lowest terms
Divides(d, a) == a % d = 0
Gcd(a, b) == CHOOSE d \in 1 .. b : /\ Divides(d, a) /\ Divides(d, b)
                                  /\ \A e \in 1 .. b : Divides(e, a) /\ Divides(e, b) => e <= d
Fraction(a, b) == LET g == Gcd(a, b) IN <<a \div g, b \div g>>
Less(x, y) == x[1] * y[2] < y[1] * x[2]

Extended(f, x, v) == [y \in DOMAIN f \cup {x} |-> IF y = x THEN v ELSE f[y]]
Linked(ns, parent, n) == [ns EXCEPT ![parent].children = @ \cup {n}]
Leaf(text, parent, depth, value) ==
    [text |-> text, parent |-> parent, depth |-> depth, value |-> value,
     q |-> <<value, 1>>, visits |-> 1, children |-> {}]

\* new_node: a known text gets a visit, and a second parent when that makes
\* no cycle; the id made or met is Made(t, text)
Made(t, text) == IF text \in DOMAIN t.trans THEN t.trans[text] ELSE t.seq + 1

Visited(t, text) == [t.nodes EXCEPT ![Made(t, text)].visits = @ + 1]

Grown(t, text, parent, depth, value) ==
    LET ns == Extended(t.nodes, t.seq + 1, Leaf(text, parent, depth, value))
    IN [t EXCEPT !.nodes = IF parent = Nil THEN ns ELSE Linked(ns, parent, t.seq + 1),
                 !.trans = Extended(@, text, t.seq + 1), !.seq = @ + 1]

\* Mutant of new_node: a known text becomes a child wherever it is met
new_nodeLinked(t, text, parent, depth, value) ==
    IF text \in DOMAIN t.trans
    THEN [t EXCEPT !.nodes = IF parent = Nil THEN Visited(t, text)
                             ELSE Linked(Visited(t, text), parent, Made(t, text))]
    ELSE Grown(t, text, parent, depth, value)

new_node(t, text, parent, depth, value) ==
    IF text \in DOMAIN t.trans
    THEN LET n == Made(t, text)
             ns == Visited(t, text)
         IN [t EXCEPT !.nodes = IF parent # n /\ parent \in DOMAIN ns \ Below(ns, {n})
                                THEN Linked(ns, parent, n) ELSE ns]
    ELSE Grown(t, text, parent, depth, value)

\* max of the nodes by value, then q; the oldest of equals
Better(x, y) == x.value > y.value \/ (x.value = y.value /\ Less(y.q, x.q))
Unbeaten(ns) == {n \in DOMAIN ns : \A k \in DOMAIN ns : ~Better(ns[k], ns[n])}
BestOf(ns) == CHOOSE n \in Unbeaten(ns) : \A k \in Unbeaten(ns) : n <= k
WithBest(t) ==
    LET n == BestOf(t.nodes) IN [t EXCEPT !.best = n, !.bestValue = t.nodes[n].value]

\* backprop: along the first parents, then the best node is looked up anew
Averaged(node, value) ==
    [node EXCEPT !.visits = @ + 1,
                 !.q = Fraction(@[1] * node.visits + value * @[2], @[2] * (node.visits + 1))]
Climbed(ns, n, value) ==
    [m \in DOMAIN ns |-> IF m \in Above(ns, n) THEN Averaged(ns[m], value) ELSE ns[m]]

backprop(t, n, value) == WithBest([t EXCEPT !.nodes = Climbed(@, n, value)])

\* prune: the leaves visited twice whose q is far below the best one
Prunable(t) ==
    {n \in DOMAIN t.nodes \ {t.root} :
        /\ t.nodes[n].visits > 1 /\ t.nodes[n].children = {}
        /\ \E k \in DOMAIN t.nodes :
              LET y == t.nodes[k].q IN Less(t.nodes[n].q, <<y[1] - PruneMargin * y[2], y[2]>>)}

Cut(node, gone) == [node EXCEPT !.children = @ \ gone]
Without(t, gone) ==
    [t EXCEPT !.nodes = [n \in DOMAIN @ \ gone |-> Cut(@[n], gone)],
              !.trans = [x \in {y \in DOMAIN @ : @[y] \notin gone} |-> @[x]]]

prune(t) ==
    LET gone == Prunable(t)
    IN IF t.best \in gone THEN WithBest(Without(t, gone)) ELSE Without(t, gone)

-----------------------------------------------------------------------------
(* One search *)

Rollout(text) ==
    IF feedback /\ mode # "ast"
    THEN IF Penalty[text] > Value[text] THEN 0 ELSE Value[text] - Penalty[text]
    ELSE Value[text]
Full == Cardinality(DOMAIN tree.nodes) >= MaxNodes
End == search_pc' = "end"
SameSearch == UNCHANGED <<mode, feedback, searches, best_found>>
Try(t, n) == top' = IF t.nodes[n].value > top THEN t.nodes[n].value ELSE top

\* search: the tree is kept when it has the same root; a root that has
\* converged already is returned at once
Begin(m, text, fb, converged) ==
    LET same == tree.root # Nil /\ tree.nodes[tree.root].text = text
        planted == new_node(fresh_tree, text, Nil, 0, Value[text])
    IN /\ search_pc = "idle" /\ searches < MaxSearches
       /\ tree' = IF same THEN tree ELSE [planted EXCEPT !.root = 1, !.best = 1, !.bestValue = Value[text]]
       /\ mode' = m /\ feedback' = fb /\ searches' = searches + 1 /\ count' = 0
       /\ wide' = [width |-> Width, plateau |-> 0, prev |-> tree'.bestValue]
       /\ sel' = Nil /\ variants' = <<>> /\ frontier' = <<tree'.root>> /\ nextf' = <<>>
       /\ top' = 0
       /\ IF converged THEN search_pc' = "idle" /\ best_found' = tree'.nodes[tree'.root]
          ELSE search_pc' = (IF tree'.seeded THEN "loop" ELSE "seed") /\ best_found' = Nil

\* plans of finished sessions, once per tree
Seed(text) ==
    /\ search_pc = "seed" /\ count < MaxSeeds /\ text # tree.nodes[tree.root].text
    /\ tree' = [new_node(tree, text, tree.root, 1, Value[text]) EXCEPT !.seeded = TRUE]
    /\ count' = count + 1
    /\ SameSearch /\ UNCHANGED <<search_pc, wide, sel, variants, frontier, nextf, top>>

Seeded ==
    /\ search_pc = "seed" /\ search_pc' = "loop"
    /\ tree' = [tree EXCEPT !.seeded = TRUE] /\ count' = 0
    /\ SameSearch /\ UNCHANGED <<wide, sel, variants, frontier, nextf, top>>

\* every check of the deadline: the loops are left, what was added stays
Expired ==
    /\ search_pc \in {"seed", "loop", "variant"}
    /\ IF search_pc = "variant" /\ mode = "mcts" THEN search_pc' = "pruning" ELSE End
    /\ variants' = <<>>
    /\ SameSearch /\ UNCHANGED <<tree, count, wide, sel, frontier, nextf, top>>

\* mcts: down from the root to a leaf, and its variants; recombination with
\* a sibling may add one
Siblings(n) == {k \in DOMAIN tree.nodes \ {n} : tree.nodes[k].parent = tree.nodes[n].parent}

SelectLeaf(n, texts) ==
    /\ search_pc = "loop" /\ mode = "mcts" /\ count < Iterations /\ ~Full
    /\ n \in Below(tree.nodes, {tree.root}) /\ tree.nodes[n].children = {}
    /\ Len(texts) <= wide.width + (IF Siblings(n) = {} THEN 0 ELSE 1)
    /\ sel' = n /\ variants' = texts /\ search_pc' = "variant"
    /\ SameSearch /\ UNCHANGED <<tree, count, wide, frontier, nextf, top>>

\* the judge may add to the value that is propagated, and a second rollout
\* of a text that improves on its parent replaces it
MctsVariant(bonus) ==
    LET text == Head(variants)
        v == Rollout(text)
        t == new_node(tree, text, sel, tree.nodes[sel].depth + 1, v)
        judged == IF v + bonus > Scale THEN Scale ELSE v + bonus
        again == /\ judged >= tree.nodes[sel].value + 1 /\ tree.nodes[sel].depth + 2 <= Depth + 1
                 /\ Value[text] >= judged
    IN /\ search_pc = "variant" /\ mode = "mcts" /\ variants # <<>>
       /\ tree' = backprop(t, Made(tree, text), IF again THEN Value[text] ELSE judged)
       /\ variants' = Tail(variants) /\ Try(t, Made(tree, text))
       /\ SameSearch /\ UNCHANGED <<search_pc, count, wide, sel, frontier, nextf>>

\* the iteration ends: prune, and widen after two iterations without gain
\* while the best score is below the convergence score
EndIteration(below) ==
    /\ mode = "mcts" /\ ((search_pc = "variant" /\ variants = <<>>) \/ search_pc = "pruning")
    /\ tree' = prune(tree)
    /\ count' = count + 1
    /\ LET still == tree'.bestValue = wide.prev
           widen == still /\ wide.plateau > 0 /\ wide.width < Width + 2
       IN wide' = IF below
                  THEN [width |-> IF widen THEN wide.width + 1 ELSE wide.width,
                        plateau |-> IF ~still \/ widen THEN 0 ELSE IF wide.plateau < 2 THEN wide.plateau + 1 ELSE 2,
                        prev |-> tree'.bestValue]
                  ELSE [wide EXCEPT !.prev = tree'.bestValue]
    /\ sel' = Nil /\ IF search_pc = "pruning" THEN End ELSE search_pc' = "loop"
    /\ SameSearch /\ UNCHANGED <<variants, frontier, nextf, top>>

\* beam: the variants of the next node of the frontier
ExpandFrontier(texts) ==
    /\ search_pc = "loop" /\ mode = "beam" /\ count < Depth /\ frontier # <<>> /\ ~Full
    /\ Len(texts) <= Width
    /\ sel' = Head(frontier) /\ frontier' = Tail(frontier) /\ variants' = texts /\ search_pc' = "variant"
    /\ SameSearch /\ UNCHANGED <<tree, count, wide, nextf, top>>

BeamVariant ==
    /\ search_pc = "variant" /\ mode = "beam"
    /\ IF variants = <<>> THEN search_pc' = "loop" /\ UNCHANGED <<tree, variants, nextf, top>>
       ELSE /\ tree' = new_node(tree, Head(variants), sel, count + 1, Rollout(Head(variants)))
            /\ nextf' = Append(nextf, Made(tree, Head(variants)))
            /\ variants' = Tail(variants) /\ Try(tree', Made(tree, Head(variants))) /\ UNCHANGED search_pc
    /\ SameSearch /\ UNCHANGED <<count, wide, sel, frontier>>

\* the level is done: the best of the next frontier go on, in the order of
\* sorted(): by value, equals as they came
Ahead(p, r) ==
    LET vp == tree.nodes[nextf[p]].value
        vr == tree.nodes[nextf[r]].value
    IN vp > vr \/ (vp = vr /\ p < r)

NextLevel ==
    /\ search_pc = "loop" /\ mode = "beam" /\ count < Depth /\ (frontier = <<>> \/ Full)
    /\ \E best \in [1 .. (IF Len(nextf) < BeamWidth THEN Len(nextf) ELSE BeamWidth) -> 1 .. Len(nextf)] :
          /\ \A i \in DOMAIN best : {p \in 1 .. Len(nextf) : Ahead(p, best[i])} = {best[j] : j \in 1 .. (i - 1)}
          /\ frontier' = [i \in DOMAIN best |-> nextf[best[i]]]
    /\ nextf' = <<>> /\ count' = count + 1
    /\ IF nextf = <<>> THEN End ELSE UNCHANGED search_pc
    /\ SameSearch /\ UNCHANGED <<tree, wide, sel, variants, top>>

\* ast: the population of one generation
Evolve(texts) ==
    /\ search_pc = "loop" /\ mode = "ast" /\ count < Iterations
    /\ variants' = texts /\ search_pc' = "variant" /\ count' = count + 1
    /\ SameSearch /\ UNCHANGED <<tree, wide, sel, frontier, nextf, top>>

AstMember ==
    /\ search_pc = "variant" /\ mode = "ast"
    /\ IF variants = <<>> \/ Full THEN search_pc' = "loop" /\ variants' = <<>> /\ UNCHANGED <<tree, top>>
       ELSE LET text == Head(variants)
                n == Made(tree, text)
                t == new_node(tree, text, tree.root, 1, Value[text])
            IN /\ tree' = IF Value[text] > tree.bestValue
                          THEN [t EXCEPT !.best = n, !.bestValue = Value[text]] ELSE t
               /\ variants' = Tail(variants) /\ Try(t, n) /\ UNCHANGED search_pc
    /\ SameSearch /\ UNCHANGED <<count, wide, sel, frontier, nextf>>

\* the loop runs out of iterations, levels or nodes
LoopEnds ==
    /\ search_pc = "loop"
    /\ \/ mode = "mcts" /\ (count >= Iterations \/ Full)
       \/ mode = "beam" /\ count >= Depth
       \/ mode = "ast" /\ count >= Iterations
    /\ End
    /\ SameSearch /\ UNCHANGED <<tree, count, wide, sel, variants, frontier, nextf, top>>

\* the best node is returned and assessed; beam looks it up only now
ReturnBest ==
    /\ search_pc = "end" /\ search_pc' = "idle"
    /\ tree' = IF mode = "beam" THEN WithBest(tree) ELSE tree
    /\ best_found' = tree'.nodes[tree'.best]
    /\ mode' = Nil /\ feedback' = FALSE /\ count' = 0
    /\ wide' = [width |-> Width, plateau |-> 0, prev |-> 0]
    /\ sel' = Nil /\ frontier' = <<>> /\ nextf' = <<>>
    /\ UNCHANGED <<variants, searches, top>>

Variants(w) == UNION {[1..k -> Texts] : k \in 1..w}

SearchNext ==
    \/ \E m \in Modes, r \in Roots, fb, converged \in BOOLEAN : Begin(m, r, fb, converged)
    \/ (\E x \in Texts : Seed(x)) \/ Seeded
    \/ \E xs \in Variants(Width + 1) : Evolve(xs) \/ ExpandFrontier(xs) \/ \E n \in DOMAIN tree.nodes : SelectLeaf(n, xs)
    \/ \E below \in BOOLEAN : EndIteration(below)
    \/ \E bonus \in IF JudgeEvals THEN {0, Scale \div 20} ELSE {0} : MctsVariant(bonus)
    \/ Expired \/ BeamVariant \/ NextLevel \/ AstMember \/ LoopEnds \/ ReturnBest

SearchSpec == SearchInit /\ [][SearchNext]_searchVars

-----------------------------------------------------------------------------
(* The tree stays one: whatever transpositions, prunings, timeouts and      *)
(* searches with other algorithms came before, every parent and child link  *)
(* and every transposition leads to a node that is there, a parent lists    *)
(* its child, no path comes back to itself -- selection and propagation     *)
(* always end -- and the best node exists.                                  *)
Tied(t) ==
    \A n \in DOMAIN t.nodes :
        /\ t.nodes[n].children \subseteq DOMAIN t.nodes
        /\ n # t.root => /\ t.nodes[n].parent \in DOMAIN t.nodes
                         /\ n \in t.nodes[t.nodes[n].parent].children
        /\ t.nodes[n].text \in DOMAIN t.trans /\ t.trans[t.nodes[n].text] = n
Acyclic(ns) == \A n \in DOMAIN ns : n \notin Below(ns, ns[n].children)

TreeSound ==
    tree.root # Nil =>
        /\ {tree.root, tree.best} \subseteq DOMAIN tree.nodes
        /\ Tied(tree) /\ Acyclic(tree.nodes)
        /\ \A x \in DOMAIN tree.trans : tree.trans[x] \in DOMAIN tree.nodes

(* "Run a bounded search and return the best plan found" (search,           *)
(* search_engine.py:476): no node the search made or met had a higher value *)
(* than the one it returns.                                                 *)
BestReturned == search_pc = "idle" /\ best_found # Nil => top <= best_found.value
=============================================================================
