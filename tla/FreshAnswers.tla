----------------------------- MODULE FreshAnswers ------------------------------
(***************************************************************************)
(* What a query to the daemon promises, whatever is cached and however the *)
(* embedding sidecar behaves: an answer is made of states that graph.db    *)
(* and, for an `ask', embed.db have been in since the question was put.    *)
(* A query may read graph.db more than once while it is written, so an     *)
(* answer may span several of these states; it may also be an error.       *)
(* QueryServing implements this.                                           *)
(***************************************************************************)
EXTENDS Naturals

CONSTANTS
    Clients,        \* who puts questions
    Queries,        \* the questions
    Asks,           \* those whose answers depend on embed.db
    None,           \* no question, no answer, no embedding
    Failed          \* an error as answer

VARIABLES
    graph,          \* the number of writes to graph.db
    embed,          \* the number of writes to embed.db
    question,       \* each client's open question
    since,          \* what graph.db and embed.db were when it was put
    reply           \* the last answer, and to whom

vars == <<graph, embed, question, since, reply>>

Init ==
    /\ graph = 0 /\ embed = 0
    /\ question = [c \in Clients |-> None]
    /\ since = [c \in Clients |-> None]
    /\ reply = None

WriteGraph == graph' = graph + 1 /\ UNCHANGED <<embed, question, since, reply>>
WriteEmbed == embed' = embed + 1 /\ UNCHANGED <<graph, question, since, reply>>

Ask(c, q) ==
    /\ question[c] = None
    /\ question' = [question EXCEPT ![c] = q]
    /\ since' = [since EXCEPT ![c] = [graph |-> graph, embed |-> embed]]
    /\ reply' = None
    /\ UNCHANGED <<graph, embed>>

Answer(c) ==
    /\ question[c] # None
    /\ question' = [question EXCEPT ![c] = None]
    /\ since' = [since EXCEPT ![c] = None]
    /\ \/ \E lo \in since[c].graph .. graph : \E hi \in lo .. graph :
            \E e \in IF question[c] \in Asks THEN since[c].embed .. embed ELSE {None} :
                reply' = [client |-> c, value |-> [lo |-> lo, hi |-> hi, embed |-> e]]
       \/ reply' = [client |-> c, value |-> Failed]
    /\ UNCHANGED <<graph, embed>>

Next ==
    \/ WriteGraph \/ WriteEmbed
    \/ \E c \in Clients : (\E q \in Queries : Ask(c, q)) \/ Answer(c)

Spec == Init /\ [][Next]_vars

=============================================================================
