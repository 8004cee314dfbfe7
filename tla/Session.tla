------------------------------ MODULE Session ------------------------------
(***************************************************************************)
(* Kernel contexts (src/src/core/kernel_context.cpp): how they are created,*)
(* cloned, merged and reset, the cancellation tokens they share, and the    *)
(* identities each hands out.                                               *)
(***************************************************************************)
EXTENDS Integers

CONSTANTS Contexts,     \* contexts that can exist
          Tokens,       \* cancellation tokens that can exist
          Documents,    \* document ids besides 0
          None,         \* no context, or no token
          MaxCounter    \* bound on the identities of a context

\* What a context can hold.
States == [document : Documents \cup {0}, counter : Nat, diags : SUBSET {"other", "CANCELLED"},
           frozen : BOOLEAN, token : Tokens \cup {None}]

ASSUME NoneApart == None \notin States \cup Tokens

VARIABLES
    context,      \* a context's state, or None before it exists
    cancelled,    \* the tokens that are cancelled
    handedOut,      \* history: the identities each context has handed out
    inherited,    \* history: what a clone's origin had handed out when it was cloned
    observed      \* history: the contexts that saw their token cancelled, until a reset

sessionVars == <<context, cancelled, handedOut, inherited, observed>>

Exists(c)  == context[c] # None
Holders(t) == {c \in Contexts : Exists(c) /\ context[c].token = t}

SessionInit ==
    /\ context = [c \in Contexts |-> None]
    /\ cancelled = {}
    /\ handedOut = [c \in Contexts |-> {}]
    /\ inherited = [c \in Contexts |-> {}]
    /\ observed = {}

\* The constructor clamps what is not usable and reports it ("other"), takes the document
\* from the id or else from the UUID, and seeds the allocator unless told a
\* negative seed.
Constructed(config) ==
    [document |-> IF config.document # 0 THEN config.document ELSE config.uuid,
     counter  |-> IF config.seed < 0 THEN 0 ELSE config.seed,
     diags    |-> IF config.sane /\ config.seed >= 0 THEN {} ELSE {"other"},
     frozen   |-> FALSE,
     token    |-> None]

CreateContext(c) ==
    /\ ~Exists(c)
    /\ \E config \in [document : Documents \cup {0}, uuid : Documents \cup {0},
                      seed : {-1, 0, 1}, sane : BOOLEAN] :
         context' = [context EXCEPT ![c] = Constructed(config)]
    /\ UNCHANGED <<cancelled, handedOut, inherited, observed>>

\* Mutant of Cloned: the counter starts again.
ClonedAfresh(s) ==
    [Constructed([document |-> s.document, uuid |-> 0, seed |-> 0, sane |-> TRUE])
       EXCEPT !.frozen = s.frozen, !.diags = @ \cup s.diags]

\* clone(): the counter and the document go along, the token and the callback do
\* not; the diagnostics are copied.
Cloned(s) ==
    [Constructed([document |-> s.document, uuid |-> 0, seed |-> s.counter, sane |-> TRUE])
       EXCEPT !.frozen = s.frozen, !.diags = @ \cup s.diags]

CloneContext(c, d) ==
    /\ Exists(c) /\ ~Exists(d)
    /\ context' = [context EXCEPT ![d] = Cloned(context[c])]
    /\ inherited' = [inherited EXCEPT ![d] = inherited[c] \cup handedOut[c]]
    /\ UNCHANGED <<cancelled, handedOut, observed>>

MergeContext(c, d) ==
    /\ Exists(c) /\ Exists(d) /\ c # d
    /\ context' = [context EXCEPT ![c].diags = @ \cup context[d].diags]
    /\ UNCHANGED <<cancelled, handedOut, inherited, observed>>

\* safeReset() clears the diagnostics and the flag of the token it holds.
SafeReset(c) ==
    /\ Exists(c)
    /\ context' = [context EXCEPT ![c].diags = {}]
    /\ cancelled' = cancelled \ {context[c].token}
    /\ observed' = observed \ (IF context[c].token = None THEN {} ELSE Holders(context[c].token))
    /\ UNCHANGED <<handedOut, inherited>>

\* cancellationToken() makes the token on first use.
TakeToken(c) ==
    /\ Exists(c) /\ context[c].token = None
    /\ \E t \in Tokens :
         /\ Holders(t) = {}
         /\ context' = [context EXCEPT ![c].token = t]
         /\ cancelled' = cancelled \ {t}
    /\ UNCHANGED <<handedOut, inherited, observed>>

SetCancellationToken(c) ==
    /\ Exists(c)
    /\ \E t \in Tokens \cup {None} : context' = [context EXCEPT ![c].token = t]
    /\ observed' = observed \ {c}
    /\ UNCHANGED <<cancelled, handedOut, inherited>>

CancelToken(t) ==
    /\ cancelled' = cancelled \cup {t}
    /\ UNCHANGED <<context, handedOut, inherited, observed>>

\* checkCancellation()
CheckCancellation(c) ==
    /\ Exists(c) /\ context[c].token \in cancelled
    /\ context' = [context EXCEPT ![c].diags = @ \cup {"CANCELLED"}]
    /\ observed' = observed \cup {c}
    /\ UNCHANGED <<cancelled, handedOut, inherited>>

\* reportProgress(): what the callback throws becomes a warning.
ReportProgress(c) ==
    /\ Exists(c)
    /\ context' = [context EXCEPT ![c].diags = @ \cup {"other"}]
    /\ UNCHANGED <<cancelled, handedOut, inherited, observed>>

\* tags().nextShapeIdentity()
NextIdentity(c) ==
    /\ Exists(c) /\ context[c].counter < MaxCounter
    /\ context' = [context EXCEPT ![c].counter = @ + 1]
    /\ handedOut' = [handedOut EXCEPT ![c] = @ \cup {<<context[c].document, context[c].counter + 1>>}]
    /\ UNCHANGED <<cancelled, inherited, observed>>

\* mutableSchemas() reports a frozen registry, which then throws (see Schema).
MutableSchemas(c) ==
    /\ Exists(c)
    /\ context' = [context EXCEPT ![c].diags = IF context[c].frozen THEN @ \cup {"other"} ELSE @]
    /\ UNCHANGED <<cancelled, handedOut, inherited, observed>>

FreezeSchemas(c) ==
    /\ Exists(c)
    /\ context' = [context EXCEPT ![c].frozen = TRUE]
    /\ UNCHANGED <<cancelled, handedOut, inherited, observed>>

SessionNext ==
    \/ \E c \in Contexts : CreateContext(c)
    \/ \E c, d \in Contexts : CloneContext(c, d)
    \/ \E c, d \in Contexts : MergeContext(c, d)
    \/ \E c \in Contexts : SafeReset(c)
    \/ \E c \in Contexts : TakeToken(c)
    \/ \E c \in Contexts : SetCancellationToken(c)
    \/ \E t \in Tokens : CancelToken(t)
    \/ \E c \in Contexts : CheckCancellation(c)
    \/ \E c \in Contexts : ReportProgress(c)
    \/ \E c \in Contexts : NextIdentity(c)
    \/ \E c \in Contexts : MutableSchemas(c)
    \/ \E c \in Contexts : FreezeSchemas(c)

SessionSpec == SessionInit /\ [][SessionNext]_sessionVars

-----------------------------------------------------------------------------
(* What kernel contexts promise about identities and cancellation.         *)
\* Contexts carry identities of their own document up to their counter, and a
\* clone knows no more than its origin did.
SessionTypeOK ==
    /\ cancelled \subseteq Tokens
    /\ \A c \in Contexts :
         IF ~Exists(c) THEN handedOut[c] = {} /\ inherited[c] = {} /\ c \notin observed
         ELSE /\ context[c].token \in Tokens \cup {None}
              /\ context[c].diags \subseteq {"other", "CANCELLED"}
              /\ \A id \in handedOut[c] \cup inherited[c] :
                    id[1] = context[c].document /\ id[2] \in 1..context[c].counter

\* A clone and its origin count on from the same place (kernel_context.cpp:311):
\* what the origin handed out before the clone was made, the clone never hands out.
CloneContinues == \A c \in Contexts : handedOut[c] \cap inherited[c] = {}

\* A context that found its token cancelled holds the CANCELLED error and keeps
\* finding it cancelled at every later poll, until a holder of the token resets
\* it: two polls of one operation cannot disagree.
CancelSticks ==
    \A c \in observed :
        context[c].token \in cancelled /\ "CANCELLED" \in context[c].diags

\* Contexts that share a document and a token keep what each has given out or seen.
SessionConsistent == SessionTypeOK /\ CloneContinues /\ CancelSticks

=============================================================================
