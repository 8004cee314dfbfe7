--------------------------- MODULE ServicesProofs ---------------------------
(***************************************************************************)
(* Theorems about the services of a kernel context: the contexts and their *)
(* tokens, the identity allocators, for every width of integers and every  *)
(* sequence of calls, and the diagnostics, for every cap and every nesting *)
(* of operations; the schema registry, for every set of migrations; and    *)
(* the handles of the C interface: who lives how long and what a call      *)
(* answers, for every feature, schema and number of handles.               *)
(***************************************************************************)
EXTENDS Session, CApi, TagAllocatorProperties, DiagnosticsProperties, Schema, Recursion,
        FiniteSetTheorems, SequenceTheorems

-----------------------------------------------------------------------------
(* Contexts and their tokens *)

Identities == (Documents \cup {0}) \X Nat

\* Every identity in play is of its context's document and at or below its
\* counter, and who has seen its token cancelled still holds a cancelled one.
SessionInv ==
    /\ context \in [Contexts -> States \cup {None}]
    /\ handedOut \in [Contexts -> SUBSET Identities]
    /\ inherited \in [Contexts -> SUBSET Identities]
    /\ observed \subseteq Contexts
    /\ SessionConsistent

LEMMA ExistingAreStates ==
    ASSUME SessionInv, NEW c \in Contexts, Exists(c)
    PROVE  context[c] \in States
BY DEF SessionInv, Exists

(* The constructor of kernel_context.cpp makes a state out of any          *)
(* configuration, with no token.                                           *)
LEMMA ConstructedState ==
    ASSUME NEW d \in Documents \cup {0}, NEW u \in Documents \cup {0}, NEW n \in Int, NEW s \in BOOLEAN
    PROVE  LET made == Constructed([document |-> d, uuid |-> u, seed |-> n, sane |-> s])
           IN  made \in States /\ made.token = None
BY DEF Constructed, States

(* A clone counts on from its origin, in the same document.                *)
LEMMA ClonedState ==
    ASSUME NEW s \in States
    PROVE  /\ Cloned(s) \in States
           /\ Cloned(s).document = s.document
           /\ Cloned(s).counter = s.counter
           /\ Cloned(s).token = None
<1> DEFINE made == Constructed([document |-> s.document, uuid |-> 0, seed |-> s.counter, sane |-> TRUE])
<1>1. /\ made \in States /\ made.token = None
      /\ made.document = s.document /\ made.counter = s.counter
    BY DEF Constructed, States
<1>2. Cloned(s) = [made EXCEPT !.frozen = s.frozen, !.diags = made.diags \cup s.diags]
    BY DEF Cloned
<1>3. s.frozen \in BOOLEAN /\ s.diags \subseteq {"other", "CANCELLED"}
    BY DEF States
<1> HIDE DEF made
<1> QED BY <1>1, <1>2, <1>3 DEF States

\* One context's part of SessionConsistent.
StateKept(state, handed, before) ==
    /\ state.token \in Tokens \cup {None}
    /\ state.diags \subseteq {"other", "CANCELLED"}
    /\ \A id \in handed \cup before : id[1] = state.document /\ id[2] \in 1..state.counter
    /\ handed \cap before = {}

LEMMA KeptOf ==
    ASSUME SessionInv, NEW c \in Contexts, Exists(c)
    PROVE  StateKept(context[c], handedOut[c], inherited[c])
BY DEF SessionInv, SessionConsistent, SessionTypeOK, CloneContinues, StateKept

LEMMA NothingOfMissing ==
    ASSUME SessionInv, NEW c \in Contexts, ~Exists(c)
    PROVE  handedOut[c] = {} /\ inherited[c] = {} /\ c \notin observed
BY DEF SessionInv, SessionConsistent, SessionTypeOK

\* A step that changes one context, into another state.
LEMMA OneContextChanges ==
    ASSUME SessionInv, NEW c \in Contexts, NEW state \in States,
           context' = [context EXCEPT ![c] = state],
           NEW handed \in SUBSET Identities, handedOut' = [handedOut EXCEPT ![c] = handed],
           NEW before \in SUBSET Identities, inherited' = [inherited EXCEPT ![c] = before],
           StateKept(state, handed, before),
           cancelled' \subseteq Tokens,
           observed' \subseteq Contexts,
           \A d \in observed' : /\ context'[d].token \in cancelled'
                                /\ "CANCELLED" \in context'[d].diags
                                /\ Exists(d)'
    PROVE  SessionInv'
<1>1. /\ context' \in [Contexts -> States \cup {None}]
      /\ handedOut' \in [Contexts -> SUBSET Identities]
      /\ inherited' \in [Contexts -> SUBSET Identities]
    BY DEF SessionInv
<1>2. /\ context'[c] = state /\ handedOut'[c] = handed /\ inherited'[c] = before
      /\ \A d \in Contexts \ {c} : /\ context'[d] = context[d] /\ handedOut'[d] = handedOut[d]
                                   /\ inherited'[d] = inherited[d]
    BY DEF SessionInv
<1>3. state # None
    BY NoneApart
<1>4. \A d \in Contexts : IF ~Exists(d)' THEN handedOut'[d] = {} /\ inherited'[d] = {}
                          ELSE StateKept(context'[d], handedOut'[d], inherited'[d])
    <2> SUFFICES ASSUME NEW d \in Contexts
                 PROVE  IF ~Exists(d)' THEN handedOut'[d] = {} /\ inherited'[d] = {}
                        ELSE StateKept(context'[d], handedOut'[d], inherited'[d])
        OBVIOUS
    <2>1. CASE d = c
        BY <2>1, <1>2, <1>3 DEF Exists
    <2>2. CASE d # c
        BY <2>2, <1>2, KeptOf, NothingOfMissing DEF Exists
    <2> QED BY <2>1, <2>2
<1>5. SessionTypeOK'
    BY <1>4 DEF SessionTypeOK, StateKept
<1>6. CloneContinues'
    <2> SUFFICES ASSUME NEW d \in Contexts PROVE handedOut'[d] \cap inherited'[d] = {}
        BY DEF CloneContinues
    <2> QED BY <1>4 DEF StateKept
<1>7. CancelSticks'
    BY DEF CancelSticks
<1> QED BY <1>1, <1>5, <1>6, <1>7 DEF SessionInv, SessionConsistent

LEMMA InitHolds == SessionInit => SessionInv
BY DEF SessionInit, SessionInv, SessionConsistent, SessionTypeOK, CloneContinues, CancelSticks,
       Exists, Identities

\* Who has seen a cancelled token exists, and still sees it.
LEMMA ObservedHold ==
    ASSUME SessionInv, NEW d \in observed
    PROVE  d \in Contexts /\ Exists(d) /\ context[d].token \in cancelled
           /\ "CANCELLED" \in context[d].diags /\ context[d].token # None
BY NoneApart DEF SessionInv, SessionConsistent, SessionTypeOK, CancelSticks

LEMMA StepHolds == SessionInv /\ [SessionNext]_sessionVars => SessionInv'
<1> SUFFICES ASSUME SessionInv, [SessionNext]_sessionVars PROVE SessionInv'
    OBVIOUS
<1>0. cancelled \subseteq Tokens
    BY DEF SessionInv, SessionConsistent, SessionTypeOK
<1>f. \A c \in Contexts : /\ handedOut[c] \in SUBSET Identities /\ inherited[c] \in SUBSET Identities
                          /\ handedOut = [handedOut EXCEPT ![c] = handedOut[c]]
                          /\ inherited = [inherited EXCEPT ![c] = inherited[c]]
    BY DEF SessionInv
<1>g. \A c \in Contexts, s \in States : [context EXCEPT ![c] = s][c] = s
                              /\ \A d \in Contexts \ {c} : [context EXCEPT ![c] = s][d] = context[d]
    BY DEF SessionInv
<1>h. observed \subseteq Contexts
    BY DEF SessionInv
<1>1. ASSUME NEW c \in Contexts, CreateContext(c) PROVE SessionInv'
    <2>1. PICK config \in [document : Documents \cup {0}, uuid : Documents \cup {0},
                           seed : {-1, 0, 1}, sane : BOOLEAN] :
              context' = [context EXCEPT ![c] = Constructed(config)]
        BY <1>1 DEF CreateContext
    <2>2. ~Exists(c) /\ UNCHANGED <<cancelled, handedOut, inherited, observed>>
        BY <1>1 DEF CreateContext
    <2> DEFINE made == Constructed(config)
    <2>3. made \in States /\ made.token = None
        <3>1. config = [document |-> config.document, uuid |-> config.uuid,
                        seed |-> config.seed, sane |-> config.sane]
            OBVIOUS
        <3> QED BY <3>1, ConstructedState
    <2>4. handedOut[c] = {} /\ inherited[c] = {} /\ c \notin observed
        BY <2>2, NothingOfMissing
    <2>5. StateKept(made, {}, {})
        BY <2>3 DEF StateKept, States
    <2>6. \A d \in observed' : context'[d] = context[d] /\ context[d] # None
        BY <2>1, <2>2, <2>3, <2>4, <1>g, <1>h, ObservedHold DEF Exists
    <2>7. context' = [context EXCEPT ![c] = made]
        BY <2>1
    <2>8. \A d \in observed' : /\ context'[d].token \in cancelled' /\ "CANCELLED" \in context'[d].diags
                               /\ context'[d] # None
        BY <2>2, <2>6, ObservedHold
    <2>9. handedOut' = [handedOut EXCEPT ![c] = {}] /\ inherited' = [inherited EXCEPT ![c] = {}]
        BY <2>2, <2>4, <1>f
    <2>10. observed' \subseteq Contexts /\ cancelled' \subseteq Tokens
        BY <2>2, <1>0, <1>h
    <2> HIDE DEF made
    <2>11. PICK none \in SUBSET Identities : none = {}
        OBVIOUS
    <2>12. /\ handedOut' = [handedOut EXCEPT ![c] = none]
           /\ inherited' = [inherited EXCEPT ![c] = none]
           /\ StateKept(made, none, none)
        BY <2>5, <2>9, <2>11
    <2> QED BY <2>3, <2>7, <2>8, <2>10, <2>12, OneContextChanges DEF Exists
<1>2. ASSUME NEW c \in Contexts, NEW d \in Contexts, CloneContext(c, d) PROVE SessionInv'
    <2>1. /\ Exists(c) /\ ~Exists(d)
          /\ context' = [context EXCEPT ![d] = Cloned(context[c])]
          /\ inherited' = [inherited EXCEPT ![d] = inherited[c] \cup handedOut[c]]
          /\ UNCHANGED <<cancelled, handedOut, observed>>
        BY <1>2 DEF CloneContext
    <2>2. context[c] \in States
        BY <2>1, ExistingAreStates
    <2>3. /\ Cloned(context[c]) \in States
          /\ Cloned(context[c]).document = context[c].document
          /\ Cloned(context[c]).counter = context[c].counter
          /\ Cloned(context[c]).token = None
        BY <2>2, ClonedState
    <2>4. handedOut[d] = {} /\ d \notin observed
        BY <2>1, NothingOfMissing
    <2>5. StateKept(Cloned(context[c]), {}, inherited[c] \cup handedOut[c])
        BY <2>1, <2>3, KeptOf DEF StateKept, States
    <2>6. \A e \in observed' : context'[e] = context[e]
        BY <2>1, <2>3, <2>4, <1>g, <1>h
    <2>7. inherited[c] \cup handedOut[c] \in SUBSET Identities
        BY <1>f
    <2>8. \A e \in observed' : /\ context'[e].token \in cancelled' /\ "CANCELLED" \in context'[e].diags
                               /\ context'[e] # None
        BY <2>1, <2>6, ObservedHold DEF Exists
    <2>9. handedOut' = [handedOut EXCEPT ![d] = {}]
        BY <2>1, <2>4, <1>f
    <2>10. observed' \subseteq Contexts /\ cancelled' \subseteq Tokens
        BY <2>1, <1>0, <1>h
    <2> QED BY <2>1, <2>3, <2>5, <2>7, <2>8, <2>9, <2>10, OneContextChanges DEF Exists
\* A step that only adds diagnostics, freezes or counts keeps what others observed.
<1>m. ASSUME NEW c \in Contexts, Exists(c), NEW state \in States,
             context' = [context EXCEPT ![c] = state],
             state.token = context[c].token, state.document = context[c].document,
             state.counter = context[c].counter, context[c].diags \subseteq state.diags,
             UNCHANGED <<cancelled, handedOut, inherited>>,
             observed' = observed \/ (observed' = observed \cup {c} /\ context[c].token \in cancelled
                                      /\ "CANCELLED" \in state.diags)
      PROVE  SessionInv'
    <2>1. StateKept(state, handedOut[c], inherited[c])
        BY <1>m, KeptOf DEF StateKept, States
    <2>2. \A d \in observed' : /\ d \in Contexts /\ context'[d] # None
                               /\ context'[d].token \in cancelled' /\ "CANCELLED" \in context'[d].diags
        <3> SUFFICES ASSUME NEW d \in observed'
                     PROVE  /\ d \in Contexts /\ context'[d] # None
                            /\ context'[d].token \in cancelled' /\ "CANCELLED" \in context'[d].diags
            OBVIOUS
        <3>1. CASE d = c
            <4>1. context'[d] = state
                BY <3>1, <1>m, <1>g
            <4>2. state # None
                BY <1>m, NoneApart
            <4>3. context[c].token \in cancelled /\ "CANCELLED" \in state.diags
                BY <1>m, <3>1, ObservedHold
            <4> QED BY <4>1, <4>2, <4>3, <1>m, <3>1
        <3>2. CASE d # c
            <4>1. d \in observed /\ d \in Contexts
                BY <3>2, <1>m, <1>h
            <4>2. context'[d] = context[d]
                BY <4>1, <3>2, <1>m, <1>g
            <4> QED BY <4>1, <4>2, <1>m, ObservedHold DEF Exists
        <3> QED BY <3>1, <3>2
    <2>3. handedOut' = [handedOut EXCEPT ![c] = handedOut[c]]
          /\ inherited' = [inherited EXCEPT ![c] = inherited[c]]
          /\ handedOut[c] \in SUBSET Identities /\ inherited[c] \in SUBSET Identities
        BY <1>m, <1>f
    <2>4. observed' \subseteq Contexts /\ cancelled' \subseteq Tokens
        BY <2>2, <1>0, <1>m
    <2> QED BY <1>m, <2>1, <2>2, <2>3, <2>4, OneContextChanges DEF Exists
<1>3. ASSUME NEW c \in Contexts, NEW d \in Contexts, MergeContext(c, d) PROVE SessionInv'
    <2> DEFINE state == [context[c] EXCEPT !.diags = @ \cup context[d].diags]
    <2>1. context[c] \in States /\ context[d] \in States /\ Exists(c)
        BY <1>3, ExistingAreStates DEF MergeContext
    <2>2. /\ state \in States /\ state.token = context[c].token
          /\ state.document = context[c].document /\ state.counter = context[c].counter
          /\ context[c].diags \subseteq state.diags
        BY <2>1 DEF States
    <2>3. context' = [context EXCEPT ![c] = state]
        BY <1>3, <2>1 DEF MergeContext, SessionInv
    <2> QED BY <1>3, <1>m, <2>1, <2>2, <2>3 DEF MergeContext
<1>4. ASSUME NEW c \in Contexts, SafeReset(c) PROVE SessionInv'
    <2> DEFINE state == [context[c] EXCEPT !.diags = {}]
    <2>1. context[c] \in States /\ Exists(c)
        BY <1>4, ExistingAreStates DEF SafeReset
    <2>2. /\ state \in States /\ state.token = context[c].token
          /\ state.document = context[c].document /\ state.counter = context[c].counter
        BY <2>1 DEF States
    <2>3. context' = [context EXCEPT ![c] = state] /\ UNCHANGED <<handedOut, inherited>>
        BY <1>4, <2>1 DEF SafeReset, SessionInv
    <2>4. StateKept(state, handedOut[c], inherited[c])
        BY <2>1, <2>2, KeptOf DEF StateKept, States
    <2>5. cancelled' \subseteq Tokens /\ observed' \subseteq observed
        BY <1>4, <1>0 DEF SafeReset
    <2>6. \A d \in observed' : /\ d \in Contexts /\ d # c /\ context[d].token # context[c].token
        <3> SUFFICES ASSUME NEW d \in observed'
                     PROVE  d \in Contexts /\ context[d].token # context[c].token
            OBVIOUS
        <3>1. d \in observed /\ d \in Contexts /\ Exists(d) /\ context[d].token # None
            BY <2>5, ObservedHold
        <3>2. CASE context[c].token = None
            BY <3>1, <3>2
        <3>3. CASE context[c].token # None
            BY <3>1, <3>3, <1>4 DEF SafeReset, Holders
        <3> QED BY <3>2, <3>3
    <2>7. \A d \in observed' : /\ context'[d] = context[d] /\ context[d] # None
                               /\ context[d].token \in cancelled' /\ "CANCELLED" \in context[d].diags
        BY <2>3, <2>5, <2>6, <2>2, <1>g, <1>4, ObservedHold DEF SafeReset, Exists
    <2>8. /\ handedOut[c] \in SUBSET Identities /\ handedOut' = [handedOut EXCEPT ![c] = handedOut[c]]
           /\ inherited[c] \in SUBSET Identities /\ inherited' = [inherited EXCEPT ![c] = inherited[c]]
        BY <2>3, <1>f
    <2>9. /\ observed' \subseteq Contexts /\ cancelled' \subseteq Tokens
           /\ \A d \in observed' : context'[d].token \in cancelled' /\ "CANCELLED" \in context'[d].diags
                                   /\ Exists(d)'
        BY <2>5, <2>7, <1>h DEF Exists
    <2> HIDE DEF state
    <2> QED BY <2>2, <2>3, <2>4, <2>8, <2>9, OneContextChanges
<1>5. ASSUME NEW c \in Contexts, TakeToken(c) PROVE SessionInv'
    <2>1. PICK t \in Tokens : /\ Holders(t) = {}
                              /\ context' = [context EXCEPT ![c].token = t]
                              /\ cancelled' = cancelled \ {t}
        BY <1>5 DEF TakeToken
    <2>2. Exists(c) /\ context[c].token = None /\ UNCHANGED <<handedOut, inherited, observed>>
        BY <1>5 DEF TakeToken
    <2> DEFINE state == [context[c] EXCEPT !.token = t]
    <2>3. context[c] \in States
        BY <2>2, ExistingAreStates
    <2>4. /\ state \in States /\ state.document = context[c].document
          /\ state.counter = context[c].counter /\ state.diags = context[c].diags
        BY <2>3 DEF States
    <2>5. context' = [context EXCEPT ![c] = state]
        BY <2>1, <2>3 DEF SessionInv
    <2>6. StateKept(state, handedOut[c], inherited[c])
        BY <2>2, <2>4, KeptOf DEF StateKept, States
    <2>7. \A d \in observed' : d \in Contexts /\ d # c /\ context[d].token # t
        BY <2>1, <2>2, ObservedHold DEF Holders
    <2>8. \A d \in observed' : /\ context'[d] = context[d] /\ context[d] # None
                               /\ context[d].token \in cancelled' /\ "CANCELLED" \in context[d].diags
        BY <2>1, <2>2, <2>4, <2>5, <2>7, <1>g, ObservedHold DEF Exists
    <2>9. cancelled' \subseteq Tokens
        BY <2>1, <1>0
    <2>10. /\ handedOut[c] \in SUBSET Identities /\ handedOut' = [handedOut EXCEPT ![c] = handedOut[c]]
           /\ inherited[c] \in SUBSET Identities /\ inherited' = [inherited EXCEPT ![c] = inherited[c]]
        BY <2>2, <1>f
    <2>11. /\ observed' \subseteq Contexts /\ cancelled' \subseteq Tokens
           /\ \A d \in observed' : context'[d].token \in cancelled' /\ "CANCELLED" \in context'[d].diags
                                   /\ Exists(d)'
        BY <2>2, <2>8, <2>9, <1>h DEF Exists
    <2> HIDE DEF state
    <2> QED BY <2>4, <2>5, <2>6, <2>10, <2>11, OneContextChanges
<1>6. ASSUME NEW c \in Contexts, SetCancellationToken(c) PROVE SessionInv'
    <2>1. PICK t \in Tokens \cup {None} : context' = [context EXCEPT ![c].token = t]
        BY <1>6 DEF SetCancellationToken
    <2>2. Exists(c) /\ UNCHANGED <<cancelled, handedOut, inherited>> /\ observed' = observed \ {c}
        BY <1>6 DEF SetCancellationToken
    <2> DEFINE state == [context[c] EXCEPT !.token = t]
    <2>3. context[c] \in States
        BY <2>2, ExistingAreStates
    <2>4. /\ state \in States /\ state.document = context[c].document
          /\ state.counter = context[c].counter /\ state.diags = context[c].diags
        BY <2>3 DEF States
    <2>5. context' = [context EXCEPT ![c] = state]
        BY <2>1, <2>3 DEF SessionInv
    <2>6. StateKept(state, handedOut[c], inherited[c])
        BY <2>2, <2>4, KeptOf DEF StateKept, States
    <2>7. \A d \in observed' : /\ context'[d] = context[d] /\ context[d] # None
                               /\ context[d].token \in cancelled' /\ "CANCELLED" \in context[d].diags
        BY <2>2, <2>4, <2>5, <1>g, <1>h, ObservedHold DEF Exists
    <2>8. /\ handedOut[c] \in SUBSET Identities /\ handedOut' = [handedOut EXCEPT ![c] = handedOut[c]]
           /\ inherited[c] \in SUBSET Identities /\ inherited' = [inherited EXCEPT ![c] = inherited[c]]
        BY <2>2, <1>f
    <2>9. /\ observed' \subseteq Contexts /\ cancelled' \subseteq Tokens
           /\ \A d \in observed' : context'[d].token \in cancelled' /\ "CANCELLED" \in context'[d].diags
                                   /\ Exists(d)'
        BY <2>2, <2>7, <1>0, <1>h DEF Exists
    <2> HIDE DEF state
    <2> QED BY <2>4, <2>5, <2>6, <2>8, <2>9, OneContextChanges
<1>7. ASSUME NEW t \in Tokens, CancelToken(t) PROVE SessionInv'
    BY <1>7 DEF CancelToken, SessionInv, SessionConsistent, SessionTypeOK, CloneContinues, CancelSticks, Exists
<1>8. ASSUME NEW c \in Contexts, CheckCancellation(c) PROVE SessionInv'
    <2> DEFINE state == [context[c] EXCEPT !.diags = @ \cup {"CANCELLED"}]
    <2>1. context[c] \in States /\ Exists(c)
        BY <1>8, ExistingAreStates DEF CheckCancellation
    <2>2. /\ state \in States /\ state.token = context[c].token
          /\ state.document = context[c].document /\ state.counter = context[c].counter
          /\ context[c].diags \subseteq state.diags /\ "CANCELLED" \in state.diags
        BY <2>1 DEF States
    <2>3. context' = [context EXCEPT ![c] = state]
        BY <1>8, <2>1 DEF CheckCancellation, SessionInv
    <2> QED BY <1>8, <1>m, <2>1, <2>2, <2>3 DEF CheckCancellation
<1>9. ASSUME NEW c \in Contexts, ReportProgress(c) \/ MutableSchemas(c) \/ FreezeSchemas(c) PROVE SessionInv'
    <2>1. context[c] \in States /\ Exists(c) /\ UNCHANGED <<cancelled, handedOut, inherited, observed>>
        BY <1>9, ExistingAreStates DEF ReportProgress, MutableSchemas, FreezeSchemas
    <2>2. PICK diags \in SUBSET {"other", "CANCELLED"}, frozen \in BOOLEAN :
              /\ context[c].diags \subseteq diags
              /\ context' = [context EXCEPT ![c] = [context[c] EXCEPT !.diags = diags, !.frozen = frozen]]
        <3>1. CASE ReportProgress(c)
            <4>1. context' = [context EXCEPT ![c] = [context[c] EXCEPT !.diags = context[c].diags \cup {"other"},
                                                                       !.frozen = context[c].frozen]]
                BY <2>1, <3>1 DEF ReportProgress, States, SessionInv
            <4> QED BY <4>1, <2>1 DEF States
        <3>2. CASE MutableSchemas(c)
            <4>1. context' = [context EXCEPT ![c] = [context[c] EXCEPT
                      !.diags = IF context[c].frozen THEN context[c].diags \cup {"other"} ELSE context[c].diags,
                      !.frozen = context[c].frozen]]
                BY <2>1, <3>2 DEF MutableSchemas, States, SessionInv
            <4> QED BY <4>1, <2>1 DEF States
        <3>3. CASE FreezeSchemas(c)
            <4>1. context' = [context EXCEPT ![c] = [context[c] EXCEPT !.diags = context[c].diags,
                                                                       !.frozen = TRUE]]
                BY <2>1, <3>3 DEF FreezeSchemas, States, SessionInv
            <4> QED BY <4>1, <2>1 DEF States
        <3> QED BY <1>9, <3>1, <3>2, <3>3
    <2> DEFINE state == [context[c] EXCEPT !.diags = diags, !.frozen = frozen]
    <2>3. /\ state \in States /\ state.token = context[c].token
          /\ state.document = context[c].document /\ state.counter = context[c].counter
          /\ context[c].diags \subseteq state.diags
        BY <2>1, <2>2 DEF States
    <2> HIDE DEF state
    <2> QED BY <1>m, <2>1, <2>2, <2>3 DEF state
<1>10. ASSUME NEW c \in Contexts, NextIdentity(c) PROVE SessionInv'
    <2> DEFINE state == [context[c] EXCEPT !.counter = @ + 1]
    <2> DEFINE id == <<context[c].document, context[c].counter + 1>>
    <2>1. context[c] \in States /\ Exists(c)
        BY <1>10, ExistingAreStates DEF NextIdentity
    <2>2. /\ state \in States /\ state.token = context[c].token /\ state.diags = context[c].diags
          /\ state.document = context[c].document /\ state.counter = context[c].counter + 1
          /\ context[c].counter \in Nat /\ id \in Identities
        BY <2>1 DEF States, Identities
    <2>3. /\ context' = [context EXCEPT ![c] = state]
          /\ handedOut' = [handedOut EXCEPT ![c] = handedOut[c] \cup {id}]
          /\ UNCHANGED <<cancelled, inherited, observed>>
        BY <1>10, <2>1 DEF NextIdentity, SessionInv
    <2>4. StateKept(context[c], handedOut[c], inherited[c])
        BY <2>1, KeptOf
    <2>5. id \notin inherited[c]
        BY <2>2, <2>4 DEF StateKept
    <2>6. \A i \in handedOut[c] \cup {id} \cup inherited[c] :
              i[1] = context[c].document /\ i[2] \in 1 .. context[c].counter + 1
        BY <2>2, <2>4 DEF StateKept
    <2>7. StateKept(state, handedOut[c] \cup {id}, inherited[c])
        BY <2>2, <2>4, <2>5, <2>6 DEF StateKept
    <2>8. \A d \in observed' : /\ d \in Contexts /\ context'[d] # None
                               /\ context'[d].token \in cancelled' /\ "CANCELLED" \in context'[d].diags
        <3> SUFFICES ASSUME NEW d \in observed
                     PROVE  /\ d \in Contexts /\ context'[d] # None
                            /\ context'[d].token \in cancelled /\ "CANCELLED" \in context'[d].diags
            BY <2>3
        <3>1. CASE d = c
            <4>1. context'[d] = state /\ state # None
                BY <2>2, <2>3, <3>1, <1>g, NoneApart
            <4> QED BY <4>1, <2>2, <3>1, ObservedHold
        <3>2. CASE d # c
            BY <3>2, <2>2, <2>3, <1>g, <1>h, ObservedHold DEF Exists
        <3> QED BY <3>1, <3>2
    <2>9. handedOut[c] \cup {id} \in SUBSET Identities
        BY <1>f, <2>2
    <2>10. inherited[c] \in SUBSET Identities /\ inherited' = [inherited EXCEPT ![c] = inherited[c]]
        BY <2>3, <1>f
    <2>11. /\ observed' \subseteq Contexts /\ cancelled' \subseteq Tokens
           /\ \A d \in observed' : context'[d].token \in cancelled' /\ "CANCELLED" \in context'[d].diags
                                   /\ Exists(d)'
        BY <2>3, <2>8, <1>0, <1>h DEF Exists
    <2> HIDE DEF state, id
    <2> QED BY <2>2, <2>3, <2>7, <2>9, <2>10, <2>11, OneContextChanges
<1>11. CASE UNCHANGED sessionVars
    BY <1>11 DEF sessionVars, SessionInv, SessionConsistent, SessionTypeOK, CloneContinues, CancelSticks, Exists
<1> QED BY <1>1, <1>2, <1>3, <1>4, <1>5, <1>6, <1>7, <1>8, <1>9, <1>10, <1>11 DEF SessionNext

(* However contexts of kernel_context.cpp are created, cloned, merged and  *)
(* reset and tokens shared: a clone never hands out what its origin had    *)
(* handed out, and a poll that saw a cancellation is never contradicted by *)
(* a later one without a reset.                                            *)
THEOREM SessionAlwaysConsistent == SessionSpec => []SessionConsistent
<1>1. SessionInv => SessionConsistent
    BY DEF SessionInv
<1> QED BY <1>1, InitHolds, StepHolds, PTL DEF SessionSpec

-----------------------------------------------------------------------------
(* Widths *)

LEMMA Widths ==
    /\ UInt32Max \in Nat /\ TwoTo32 \in Nat /\ TwoTo32 > 0
    /\ Int64Max \in Nat /\ UInt64Max \in Nat /\ UInt64Max = 2 * Int64Max + 1
    /\ Int32Max \in Nat /\ Int32Max > 0
    /\ Int32Max < Int64Max /\ UInt32Max <= Int64Max
    /\ TwoTo32 = UInt32Max + 1
    /\ UInt64Max = TwoTo32 * TwoTo32 - 1
<1> DEFINE k == Int32Max
<1>1. k \in Nat /\ k > 0
    BY WidthAssumption
<1>2. (k + 1) * (k + 1) = k * k + 2 * k + 1 /\ k * k \in Nat
    BY <1>1
<1>3. Int64Max = 2 * (k * k) + 4 * k + 1
    BY <1>1, <1>2 DEF Int64Max
<1>4. TwoTo32 * TwoTo32 = 4 * ((k + 1) * (k + 1))
    BY <1>1 DEF TwoTo32, UInt32Max
<1> QED BY <1>1, <1>2, <1>3, <1>4 DEF UInt32Max, TwoTo32, UInt64Max

(* A document's tag is an int64. *)
LEMMA EncodedType ==
    ASSUME NEW id \in ShapeIdentities, EncodableV1(id)
    PROVE  EncodeV1Scalar(id) \in Int64
<1> DEFINE low == Low32(id.documentId)
<1>1. /\ id.documentId \in Nat /\ id.counter \in Nat /\ id.counter > 0
    BY Widths DEF ShapeIdentities, UInt64, EncodableV1, IsValid
<1>2. CASE IsSingleDoc(id)
    BY <1>1, <1>2, Widths DEF EncodeV1Scalar, EncodableV1, Int64
<1>3. CASE ~IsSingleDoc(id)
    <2>1. low \in 0..(TwoTo32 - 1)
        BY <1>1, Widths DEF Low32
    <2>2. low * TwoTo32 <= (TwoTo32 - 1) * TwoTo32 /\ low * TwoTo32 \in Nat
        BY <2>1, Widths
    <2>3. (TwoTo32 - 1) * TwoTo32 = TwoTo32 * TwoTo32 - TwoTo32
        BY Widths
    <2>4. id.counter <= TwoTo32 - 1
        BY <1>3, Widths DEF EncodableV1
    <2> DEFINE u == low * TwoTo32 + id.counter
    <2>5. u \in Nat /\ u <= UInt64Max
        <3> HIDE DEF low
        <3> QED BY <1>1, <2>2, <2>3, <2>4, Widths
    <2>6. AsInt64(u) \in Int64
        <3> HIDE DEF u
        <3> QED BY <2>5, Widths DEF AsInt64, Int64
    <2> QED BY <1>3, <2>6 DEF EncodeV1Scalar
<1> QED BY <1>2, <1>3

-----------------------------------------------------------------------------
(* The invariant *)

(* Until the counter wraps, blocks come in ascending order and end at or   *)
(* before the counter, so that the next one is beyond them all.  The       *)
(* documents of the blocks play no part: a restore that changes the        *)
(* document keeps the counter from going back.                             *)
Ascending(list, last) ==
    /\ \A i \in DOMAIN list : list[i].last <= last
    /\ \A i, j \in DOMAIN list : i < j => list[i].last < list[j].first

CountersLead ==
    \A a \in Allocators \ overflowed : counter[a] >= 0 /\ Ascending(issued[a], counter[a])

AllocatorInv == TATypeOK /\ IssuedValid /\ CountersLead

(* The three parts by what they read *)
Numbers ==
    /\ live \subseteq Allocators
    /\ documentId \in [Allocators -> UInt64]
    /\ counter \in [Allocators -> Int64]
    /\ issued \in [Allocators -> Seq(Blocks)]
    /\ overflowed \subseteq Allocators

OcctTypes ==
    /\ occtTagMap \in [Allocators -> SUBSET (ShapeIdentities \X (1..Int32Max))]
    /\ answers \in [Allocators -> SUBSET (ShapeIdentities \X (1..Int32Max))]
    /\ nextOcctTag \in [Allocators -> (-Int32Max - 1)..Int32Max]

-----------------------------------------------------------------------------
(* Allocation *)

LEMMA AdvancedType ==
    ASSUME NEW c \in Int64, NEW n \in 1..Int64Max
    PROVE  Advanced(c, n) \in Int64
BY Widths DEF Advanced, Int64

LEMMA BlockNumbers ==
    ASSUME NEW list \in Seq(Blocks)
    PROVE  \A i \in DOMAIN list : list[i].first \in Int /\ list[i].last \in Int
<1>1. \A i \in DOMAIN list : list[i] \in Blocks
    OBVIOUS
<1> QED BY <1>1, Widths, SMTT(60) DEF Blocks, Int64

(* One block more, beyond the others *)
LEMMA AppendAscending ==
    ASSUME NEW list \in Seq(Blocks), NEW b \in Blocks, NEW last \in Int,
           Ascending(list, last), last < b.first, b.first <= b.last
    PROVE  Ascending(Append(list, b), b.last)
<1> DEFINE longer == Append(list, b)
           new == Len(list) + 1
<1>1. /\ DOMAIN longer = 1..new
      /\ \A i \in 1..Len(list) : longer[i] = list[i]
      /\ longer[new] = b
    BY AppendProperties
<1>2. \A i \in 1..Len(list) : list[i].last \in Int /\ list[i].last <= last
    BY BlockNumbers DEF Ascending
<1>3. b.first \in Int /\ b.last \in Int
    BY DEF Blocks, Int64
<1> HIDE DEF longer
<1>4. \A i \in DOMAIN longer : longer[i].last <= b.last
    BY <1>1, <1>2, <1>3
<1>5. ASSUME NEW i \in DOMAIN longer, NEW j \in DOMAIN longer, i < j
      PROVE  longer[i].last < longer[j].first
    <2>1. i \in 1..Len(list) /\ longer[i] = list[i]
        BY <1>1, <1>5
    <2>2. CASE j = new
        BY <1>1, <1>2, <1>3, <2>1, <2>2
    <2>3. CASE j # new
        BY <1>1, <1>5, <2>1, <2>3 DEF Ascending
    <2> QED BY <2>2, <2>3
<1> QED BY <1>4, <1>5 DEF Ascending, longer

(* What a call that allocates keeps, as long as it throws when it should. *)
LEMMA AdvanceKeeps ==
    ASSUME Numbers, IssuedValid, CountersLead,
           NEW a \in live, NEW n \in 1..Int64Max, NEW throws \in BOOLEAN,
           counter[a] < 0 \/ counter[a] + n > Int64Max => throws,
           Advance(a, n, throws)
    PROVE  Numbers' /\ IssuedValid' /\ CountersLead'
<1> DEFINE b == [documentId |-> documentId[a], first |-> counter[a] + 1, last |-> counter[a] + n]
<1>1. /\ a \in Allocators /\ counter[a] \in Int64 /\ issued[a] \in Seq(Blocks)
      /\ n \in Nat /\ n >= 1
    BY Widths DEF Numbers
<1>2. /\ counter' = [counter EXCEPT ![a] = Advanced(counter[a], n)]
      /\ overflowed' = overflowed \cup (IF counter[a] + n > Int64Max THEN {a} ELSE {})
      /\ issued' = [issued EXCEPT ![a] = IF throws THEN issued[a] ELSE Append(issued[a], b)]
      /\ UNCHANGED <<live, documentId>>
    BY Zenon DEF Advance
<1>3. ~throws => /\ b \in Blocks /\ 0 < b.first /\ b.first <= b.last
                 /\ b.first = counter[a] + 1
                 /\ counter[a] >= 0 /\ b.last = Advanced(counter[a], n)
    BY <1>1, Widths DEF Numbers, Blocks, Int64, Advanced
<1> HIDE DEF b
<1>4. issued'[a] \in Seq(Blocks)
    BY <1>1, <1>2, <1>3, AppendProperties DEF Numbers
<1>5. Numbers'
    BY <1>1, <1>2, <1>4, AdvancedType DEF Numbers
<1>6. IssuedValid'
    <2>1. SUFFICES ASSUME NEW x \in Allocators, NEW c \in ToSet(issued'[x])
                   PROVE  0 < c.first /\ c.first <= c.last
        BY DEF IssuedValid
    <2>2. CASE x = a /\ ~throws
        <3>1. issued'[a] = Append(issued[a], b)
            BY <1>1, <1>2, <2>2 DEF Numbers
        <3>2. c = b \/ c \in ToSet(issued[a])
            BY <1>1, <2>2, <3>1, <1>3, AppendProperties DEF ToSet
        <3> QED BY <1>1, <1>3, <2>2, <3>2 DEF IssuedValid
    <2>3. CASE ~(x = a /\ ~throws)
        <3>1. issued'[x] = issued[x]
            BY <1>1, <1>2, <2>3 DEF Numbers
        <3> QED BY <3>1 DEF IssuedValid
    <2> QED BY <2>2, <2>3
<1>7. CountersLead'
    <2>1. SUFFICES ASSUME NEW x \in Allocators \ overflowed'
                   PROVE  counter'[x] >= 0 /\ Ascending(issued'[x], counter'[x])
        BY DEF CountersLead
    <2>2. x \notin overflowed /\ (x = a => counter[a] + n <= Int64Max)
        <3>1. x \notin overflowed
            BY <1>2, <2>1
        <3>2. x = a => ~(counter[a] + n > Int64Max)
            BY <1>2, <2>1
        <3>3. counter[a] + n \in Int /\ Int64Max \in Int
            BY <1>1, Widths, SMTT(40) DEF Int64
        <3>4. PICK sum \in Int : sum = counter[a] + n
            BY <3>3
        <3> QED BY <3>1, <3>2, <3>3, <3>4
    <2>3. CASE x # a
        BY <1>1, <1>2, <2>2, <2>3 DEF Numbers, CountersLead
    <2>4. CASE x = a
        <3>1. counter[a] >= 0 /\ Ascending(issued[a], counter[a])
            BY <1>1, <2>2, <2>4 DEF CountersLead
        <3>2. counter'[a] = counter[a] + n /\ counter[a] \in Int
            BY <1>1, <1>2, <2>2, <2>4 DEF Numbers, Advanced, Int64
        <3>3. CASE throws
            <4>1. issued'[a] = issued[a]
                BY <1>1, <1>2, <3>3 DEF Numbers
            <4>2. \A i \in DOMAIN issued[a] : issued[a][i].last \in Int
                BY <1>1, BlockNumbers
            <4>3. Ascending(issued[a], counter[a] + n)
                BY <1>1, <3>1, <3>2, <4>2 DEF Ascending
            <4> QED BY <1>1, <2>4, <3>1, <3>2, <4>1, <4>3
        <3>4. CASE ~throws
            <4>1. issued'[a] = Append(issued[a], b)
                BY <1>1, <1>2, <3>4 DEF Numbers
            <4>2. b.last = counter'[a]
                BY <1>1, <1>2, <1>3, <3>4 DEF Numbers
            <4>3. Ascending(issued'[a], b.last)
                BY <1>1, <1>3, <3>1, <3>2, <3>4, <4>1, AppendAscending
            <4> QED BY <1>1, <2>4, <3>1, <3>2, <4>2, <4>3
        <3> QED BY <3>3, <3>4
    <2> QED BY <2>3, <2>4
<1> QED BY <1>5, <1>6, <1>7

(* What is known of an identity that was handed out. *)
LEMMA KnownType ==
    ASSUME Numbers, IssuedValid
    PROVE  Known \subseteq ShapeIdentities
<1>1. Foreign \subseteq ShapeIdentities
    BY AllocatorAssumption
<1>2. ASSUME NEW a \in Allocators
      PROVE  HandedOut(a) \subseteq ShapeIdentities
    <2>1. SUFFICES ASSUME NEW b \in ToSet(issued[a]), NEW c \in b.first..b.last
                   PROVE  Identity(b.documentId, c) \in ShapeIdentities
        BY DEF HandedOut
    <2>2. b \in Blocks
        BY DEF Numbers, ToSet
    <2>3. 0 < b.first /\ b.first <= b.last
        BY DEF IssuedValid
    <2>4. c \in UInt64
        BY <2>2, <2>3, Widths DEF Blocks, Int64, UInt64
    <2> QED BY <2>2, <2>4 DEF Identity, ShapeIdentities, Blocks
<1> QED BY <1>1, <1>2 DEF Known

-----------------------------------------------------------------------------
(* The invariant, step by step *)

(* The rest of TATypeOK *)
Records ==
    /\ registry \subseteq UInt64 \ {0}
    /\ snapshots \subseteq [counter : 0..Int64Max, documentId : UInt64]
    /\ tags \subseteq Int64 \X ShapeIdentities

Kept == Numbers /\ OcctTypes /\ Records /\ IssuedValid /\ CountersLead

LEMMA KeptIsIInv == AllocatorInv <=> Kept /\ calls \in 0..MaxCalls
BY DEF AllocatorInv, Kept, TATypeOK, Numbers, OcctTypes, Records

LEMMA InitKept == TAInit => AllocatorInv
<1> SUFFICES ASSUME TAInit PROVE AllocatorInv
    OBVIOUS
<1> USE DEF TAInit
<1>1. Numbers
    <2>1. 0 \in UInt64 /\ 0 \in Int64
        BY Widths DEF UInt64, Int64
    <2>2. <<>> \in Seq(Blocks)
        OBVIOUS
    <2> QED BY <2>1, <2>2 DEF Numbers
<1>2. OcctTypes
    BY Widths DEF OcctTypes
<1>3. Records
    BY AllocatorAssumption DEF Records
<1>4. IssuedValid /\ CountersLead
    BY Widths DEF IssuedValid, CountersLead, Ascending, ToSet
<1>5. calls \in 0..MaxCalls
    BY AllocatorAssumption
<1> QED BY <1>1, <1>2, <1>3, <1>4, <1>5, KeptIsIInv DEF Kept

(* Any change of an allocator that empties its history and leaves the      *)
(* counter at a number that is not negative *)
LEMMA FreshKeeps ==
    ASSUME IssuedValid, CountersLead, Numbers,
           NEW a \in Allocators, NEW start \in 0..Int64Max, NEW id \in UInt64,
           live' \subseteq Allocators,
           documentId' = [documentId EXCEPT ![a] = id],
           counter' = [counter EXCEPT ![a] = start],
           issued' = [issued EXCEPT ![a] = <<>>],
           overflowed' = overflowed \ {a}
    PROVE  Numbers' /\ IssuedValid' /\ CountersLead'
<1>1. start \in Int64 /\ start \in Nat
    BY Widths DEF Int64
<1>2. Numbers'
    BY <1>1 DEF Numbers
<1>3. /\ issued'[a] = <<>> /\ counter'[a] = start
      /\ \A x \in Allocators \ {a} : issued'[x] = issued[x] /\ counter'[x] = counter[x]
    BY DEF Numbers
<1>4. IssuedValid'
    BY <1>3 DEF IssuedValid, ToSet
<1>5. Ascending(issued'[a], counter'[a]) /\ counter'[a] >= 0
    BY <1>1, <1>3 DEF Ascending
<1>6. CountersLead'
    BY <1>3, <1>5 DEF CountersLead
<1> QED BY <1>2, <1>4, <1>6

LEMMA CreateKeeps ==
    ASSUME Kept, NEW a \in Allocators, NEW id \in UInt64, NEW start \in 0..Int64Max,
           Create(a, id, start)
    PROVE  Kept'
<1> USE DEF Create
<1>1. Numbers' /\ IssuedValid' /\ CountersLead'
    BY FreshKeeps DEF Kept, Numbers
<1>2. OcctTypes'
    BY Widths DEF Kept, OcctTypes
<1>3. Records'
    BY DEF Kept, Records, Registered
<1> QED BY <1>1, <1>2, <1>3 DEF Kept

(* A call that allocates *)
LEMMA AllocationKeeps ==
    ASSUME Kept, NEW a \in live, NEW n \in 1..Int64Max, NEW throws \in BOOLEAN,
           counter[a] < 0 \/ counter[a] + n > Int64Max => throws,
           Advance(a, n, throws)
    PROVE  /\ Numbers' /\ IssuedValid' /\ CountersLead' /\ OcctTypes'
           /\ UNCHANGED <<registry, snapshots>>
<1>1. Numbers' /\ IssuedValid' /\ CountersLead'
    BY AdvanceKeeps DEF Kept
<1>2. UNCHANGED <<occtTagMap, nextOcctTag, registry, snapshots, answers>>
    BY DEF Advance
<1>3. OcctTypes'
    BY <1>2 DEF Kept, OcctTypes
<1> QED BY <1>1, <1>2, <1>3

(* A later counter, under whichever document, keeps the blocks behind it. *)
LEMMA LaterCounterKeeps ==
    ASSUME Numbers, IssuedValid, CountersLead,
           NEW a \in Allocators, NEW later \in 0..Int64Max, NEW id \in UInt64,
           counter[a] <= later,
           documentId' = [documentId EXCEPT ![a] = id],
           counter' = [counter EXCEPT ![a] = later],
           UNCHANGED <<live, issued, overflowed>>
    PROVE  Numbers' /\ IssuedValid' /\ CountersLead'
<1>1. later \in Int64 /\ later \in Nat /\ counter[a] \in Int
    BY Widths DEF Int64, Numbers
<1>2. Numbers' /\ IssuedValid'
    BY <1>1 DEF Numbers, IssuedValid
<1>3. CountersLead'
    <2>1. SUFFICES ASSUME NEW x \in Allocators \ overflowed
                   PROVE  counter'[x] >= 0 /\ Ascending(issued[x], counter'[x])
        BY DEF CountersLead
    <2>2. counter[x] >= 0 /\ Ascending(issued[x], counter[x])
        BY DEF CountersLead
    <2>3. CASE x # a
        BY <2>2, <2>3 DEF Numbers
    <2>4. CASE x = a
        <3>1. counter'[a] = later
            BY DEF Numbers
        <3>2. \A i \in DOMAIN issued[a] : issued[a][i].last \in Int
            BY BlockNumbers DEF Numbers
        <3>3. Ascending(issued[a], later)
            BY <1>1, <2>2, <2>4, <3>2 DEF Ascending
        <3> QED BY <1>1, <2>4, <3>1, <3>3
    <2> QED BY <2>3, <2>4
<1> QED BY <1>2, <1>3

(* The three ways to answer with an OCCT tag *)
LEMMA PassedTag ==
    ASSUME NEW id \in ShapeIdentities, IsValid(id), PassesThrough(id)
    PROVE  id.counter \in 1..Int32Max
BY Widths DEF ShapeIdentities, UInt64, IsValid, PassesThrough

LEMMA AnswersType ==
    ASSUME OcctTypes, NEW a \in Allocators, NEW id \in ShapeIdentities,
           NEW tag \in 1..Int32Max, Answer(a, id, tag)
    PROVE  answers' \in [Allocators -> SUBSET (ShapeIdentities \X (1..Int32Max))]
<1> DEFINE T == ShapeIdentities \X (1..Int32Max)
<1>1. answers \in [Allocators -> SUBSET T]
    BY DEF OcctTypes
<1>2. <<id, tag>> \in T
    OBVIOUS
<1> HIDE DEF T
<1>3. answers' = [answers EXCEPT ![a] = answers[a] \cup {<<id, tag>>}]
    BY DEF Answer
<1>4. answers[a] \cup {<<id, tag>>} \in SUBSET T
    BY <1>1, <1>2
<1>5. answers' \in [Allocators -> SUBSET T]
    BY <1>1, <1>3, <1>4
<1> QED BY <1>5 DEF T

LEMMA AnswerKeeps ==
    ASSUME OcctTypes, NEW a \in Allocators, NEW id \in ShapeIdentities,
           NEW tag \in 1..Int32Max, Answer(a, id, tag),
           UNCHANGED <<occtTagMap, nextOcctTag>>
    PROVE  OcctTypes'
<1>1. answers' \in [Allocators -> SUBSET (ShapeIdentities \X (1..Int32Max))]
    BY AnswersType
<1> QED BY <1>1 DEF OcctTypes

LEMMA HandleKeeps ==
    ASSUME OcctTypes, NEW a \in Allocators, NEW id \in ShapeIdentities, NewHandle(a, id)
    PROVE  OcctTypes'
<1> DEFINE handle == nextOcctTag[a]
           T == ShapeIdentities \X (1..Int32Max)
<1>1. handle \in (-Int32Max - 1)..Int32Max
    BY DEF OcctTypes
<1>2. nextOcctTag' = [nextOcctTag EXCEPT ![a] =
                         IF handle = Int32Max THEN -Int32Max - 1 ELSE handle + 1]
    BY DEF NewHandle
<1>3. nextOcctTag' \in [Allocators -> (-Int32Max - 1)..Int32Max]
    BY <1>1, <1>2, Widths DEF OcctTypes
<1>4. CASE handle > 0
    <2>1. handle \in 1..Int32Max /\ Answer(a, id, handle)
        BY <1>1, <1>4, Widths DEF NewHandle
    <2>2. occtTagMap' = [occtTagMap EXCEPT ![a] = occtTagMap[a] \cup {<<id, handle>>}]
        BY <1>4 DEF NewHandle
    <2>3. occtTagMap \in [Allocators -> SUBSET T] /\ <<id, handle>> \in T
        BY <2>1 DEF OcctTypes
    <2>4. answers' \in [Allocators -> SUBSET T]
        BY <2>1, AnswersType
    <2> HIDE DEF T, handle
    <2>5. occtTagMap[a] \cup {<<id, handle>>} \in SUBSET T
        BY <2>3
    <2>6. occtTagMap' \in [Allocators -> SUBSET T]
        BY <2>2, <2>3, <2>5
    <2> QED BY <1>3, <2>4, <2>6 DEF OcctTypes, T
<1>5. CASE ~(handle > 0)
    <2>1. UNCHANGED <<occtTagMap, answers>>
        BY <1>5 DEF NewHandle
    <2> QED BY <1>3, <2>1 DEF OcctTypes
<1> QED BY <1>4, <1>5

LEMMA StepKept ==
    ASSUME AllocatorInv, [TANext]_taVars
    PROVE  Kept'
<1>1. /\ Kept /\ Numbers /\ OcctTypes /\ Records /\ IssuedValid /\ CountersLead
    BY KeptIsIInv DEF Kept
<1>2. live \subseteq Allocators
    BY <1>1 DEF Numbers
<1>3. CASE CreateAllocator
    <2>1. PICK a \in Allocators, id \in DocumentIds, start \in Seeds : Create(a, id, start)
        BY <1>3 DEF CreateAllocator
    <2>2. id \in UInt64 /\ start \in 0..Int64Max
        BY AllocatorAssumption
    <2> QED BY <1>1, <2>1, <2>2, CreateKeeps
<1>4. CASE CloneAllocator
    <2>1. PICK a \in live, copy \in Allocators :
              Create(copy, documentId[a], IF counter[a] < 0 THEN 0 ELSE counter[a])
        BY <1>4 DEF CloneAllocator
    <2>2. documentId[a] \in UInt64 /\ (IF counter[a] < 0 THEN 0 ELSE counter[a]) \in 0..Int64Max
        BY <1>1, <1>2, Widths DEF Numbers, Int64
    <2> HIDE DEF CloneAllocator
    <2> QED BY <1>1, <2>1, <2>2, CreateKeeps
<1>5. CASE DestroyContext
    BY <1>1, <1>5 DEF DestroyContext, Kept, Numbers, OcctTypes, Records, IssuedValid,
       CountersLead, history
<1>6. CASE NextShapeIdentity
    <2>1. PICK a \in live : Advance(a, 1, NextOverflows(a))
        BY <1>6 DEF NextShapeIdentity
    <2>2. /\ 1 \in 1..Int64Max /\ NextOverflows(a) \in BOOLEAN
          /\ counter[a] < 0 \/ counter[a] + 1 > Int64Max => NextOverflows(a)
        BY <1>1, <1>2, Widths DEF NextOverflows, Numbers, Int64
    <2>3. UNCHANGED tags
        BY <1>6 DEF NextShapeIdentity
    <2> QED BY <1>1, <2>1, <2>2, <2>3, AllocationKeeps DEF Kept, Records
<1>7. CASE AllocateRangeV2
    <2>1. PICK a \in live, n \in RangeSizes : Advance(a, n, RangeOverflows(a, n))
        BY <1>7 DEF AllocateRangeV2
    <2>2. n \in 1..Int64Max
        BY AllocatorAssumption
    <2>3. /\ RangeOverflows(a, n) \in BOOLEAN
          /\ counter[a] < 0 \/ counter[a] + n > Int64Max => RangeOverflows(a, n)
        BY <1>1, <1>2, <2>2, Widths DEF RangeOverflows, Numbers, Int64
    <2>4. UNCHANGED tags
        BY <1>7 DEF AllocateRangeV2
    <2> QED BY <1>1, <2>1, <2>2, <2>3, <2>4, AllocationKeeps DEF Kept, Records
<1>8. CASE AllocateRange
    <2>1. PICK a \in live, n \in RangeSizes : Advance(a, n, V1RangeOverflows(a, n))
        BY <1>8 DEF AllocateRange
    <2>2. n \in 1..Int64Max
        BY AllocatorAssumption
    <2>3. /\ V1RangeOverflows(a, n) \in BOOLEAN
          /\ counter[a] < 0 \/ counter[a] + n > Int64Max => V1RangeOverflows(a, n)
        <3>1. counter[a] < 0 \/ counter[a] + n > Int64Max => RangeOverflows(a, n)
            BY <1>1, <1>2, <2>2, Widths DEF RangeOverflows, Numbers, Int64
        <3>2. V1RangeOverflows(a, n) \in BOOLEAN
            BY Zenon DEF V1RangeOverflows, RangeOverflows
        <3>3. RangeOverflows(a, n) => V1RangeOverflows(a, n)
            BY <1>1, <1>2, <2>2, Widths DEF V1RangeOverflows, RangeOverflows, Numbers, Int64
        <3> QED BY <3>1, <3>2, <3>3
    <2>4. UNCHANGED tags
        BY <1>8 DEF AllocateRange
    <2> QED BY <1>1, <2>1, <2>2, <2>3, <2>4, AllocationKeeps DEF Kept, Records
<1>9. CASE NextTag
    <2>1. PICK a \in live :
             LET id == Identity(documentId[a], counter[a] + 1)
             IN  IF NextOverflows(a) \/ ~EncodableV1(id)
                 THEN Advance(a, 1, TRUE) /\ UNCHANGED tags
                 ELSE /\ Advance(a, 1, FALSE)
                      /\ tags' = tags \cup {<<EncodeV1Scalar(id), id>>}
        BY <1>9 DEF NextTag
    <2> DEFINE id == Identity(documentId[a], counter[a] + 1)
    <2>2. 1 \in 1..Int64Max
        BY Widths
    <2>3. CASE NextOverflows(a) \/ ~EncodableV1(id)
        <3>1. Advance(a, 1, TRUE) /\ UNCHANGED tags
            BY <2>1, <2>3
        <3> QED BY <1>1, <2>2, <3>1, AllocationKeeps DEF Kept, Records
    <2>4. CASE ~(NextOverflows(a) \/ ~EncodableV1(id))
        <3>1. Advance(a, 1, FALSE) /\ tags' = tags \cup {<<EncodeV1Scalar(id), id>>}
            BY <2>1, <2>4
        <3>2. ~(counter[a] < 0 \/ counter[a] + 1 > Int64Max)
            BY <1>1, <1>2, <2>4, Widths DEF NextOverflows, Numbers, Int64
        <3>3. id \in ShapeIdentities
            BY <1>1, <1>2, <3>2, Widths DEF Numbers, Int64, UInt64, Identity, ShapeIdentities
        <3> HIDE DEF id
        <3>4. EncodeV1Scalar(id) \in Int64
            BY <2>4, <3>3, EncodedType
        <3>5. Numbers' /\ IssuedValid' /\ CountersLead' /\ OcctTypes'
              /\ UNCHANGED <<registry, snapshots>>
            BY <1>1, <2>2, <3>1, <3>2, AllocationKeeps
        <3> QED BY <1>1, <3>1, <3>3, <3>4, <3>5 DEF Kept, Records
    <2> QED BY <2>3, <2>4
<1>10. CASE Reset
    <2>1. PICK a \in live :
              /\ counter' = [counter EXCEPT ![a] = 0]
              /\ documentId' = [documentId EXCEPT ![a] = 0]
              /\ occtTagMap' = [occtTagMap EXCEPT ![a] = {}]
              /\ nextOcctTag' = [nextOcctTag EXCEPT ![a] = 1]
              /\ answers' = [answers EXCEPT ![a] = {}]
              /\ Discarded(a)
        BY <1>10 DEF Reset
    <2>2. UNCHANGED <<live, registry, snapshots, tags>>
        BY <1>10 DEF Reset
    <2>3. 0 \in 0..Int64Max /\ 0 \in UInt64
        BY Widths DEF UInt64
    <2>4. Numbers' /\ IssuedValid' /\ CountersLead'
        BY <1>1, <1>2, <2>1, <2>2, <2>3, FreshKeeps DEF Discarded
    <2>5. OcctTypes'
        <3>1. /\ occtTagMap' \in [Allocators -> SUBSET (ShapeIdentities \X (1..Int32Max))]
              /\ answers' \in [Allocators -> SUBSET (ShapeIdentities \X (1..Int32Max))]
            <4> DEFINE T == ShapeIdentities \X (1..Int32Max)
            <4>1. {} \in SUBSET T
                OBVIOUS
            <4> HIDE DEF T
            <4>2. occtTagMap \in [Allocators -> SUBSET T] /\ answers \in [Allocators -> SUBSET T]
                BY <1>1 DEF OcctTypes, T
            <4>3. occtTagMap' \in [Allocators -> SUBSET T]
                BY <1>2, <2>1, <4>1, <4>2
            <4>4. answers' \in [Allocators -> SUBSET T]
                BY <1>2, <2>1, <4>1, <4>2
            <4> QED BY <4>3, <4>4 DEF T
        <3>2. nextOcctTag' \in [Allocators -> (-Int32Max - 1)..Int32Max]
            BY <1>1, <1>2, <2>1, Widths DEF OcctTypes
        <3> QED BY <3>1, <3>2 DEF OcctTypes
    <2> QED BY <1>1, <2>2, <2>4, <2>5 DEF Kept, Records
<1>11. CASE ResetCounterOnly
    <2>1. PICK a \in live : counter' = [counter EXCEPT ![a] = 0] /\ Discarded(a)
        BY <1>11 DEF ResetCounterOnly
    <2>2. UNCHANGED <<live, documentId, occtTagMap, nextOcctTag, registry, snapshots, tags, answers>>
        BY <1>11 DEF ResetCounterOnly
    <2>3. 0 \in 0..Int64Max /\ documentId[a] \in UInt64
          /\ documentId' = [documentId EXCEPT ![a] = documentId[a]]
        BY <1>1, <1>2, <2>2, Widths DEF Numbers
    <2>4. Numbers' /\ IssuedValid' /\ CountersLead'
        BY <1>1, <1>2, <2>1, <2>2, <2>3, FreshKeeps DEF Discarded
    <2>5. OcctTypes'
        BY <1>1, <2>2 DEF OcctTypes
    <2> QED BY <1>1, <2>2, <2>4, <2>5 DEF Kept, Records
<1>12. CASE Seed
    <2>1. PICK a \in live, start \in Seeds :
              MaySeed(a) /\ counter' = [counter EXCEPT ![a] = start]
        BY <1>12 DEF Seed
    <2>2. UNCHANGED <<live, documentId, occtTagMap, nextOcctTag, registry, snapshots,
                      issued, overflowed, tags, answers>>
        BY <1>12 DEF Seed, history
    <2>3. start \in 0..Int64Max /\ counter[a] <= start
        BY <2>1, AllocatorAssumption, Widths DEF MaySeed
    <2>4. documentId[a] \in UInt64 /\ documentId' = [documentId EXCEPT ![a] = documentId[a]]
        BY <1>1, <1>2, <2>2 DEF Numbers
    <2>5. Numbers' /\ IssuedValid' /\ CountersLead'
        BY <1>1, <1>2, <2>1, <2>2, <2>3, <2>4, LaterCounterKeeps
    <2>6. OcctTypes'
        BY <1>1, <2>2 DEF OcctTypes
    <2> QED BY <1>1, <2>2, <2>5, <2>6 DEF Kept, Records
<1>13. CASE SetDocumentId
    <2>1. PICK a \in live, id \in DocumentIds :
              Registered(id) /\ documentId' = [documentId EXCEPT ![a] = id]
        BY <1>13 DEF SetDocumentId
    <2>2. UNCHANGED <<live, counter, occtTagMap, nextOcctTag, snapshots,
                      issued, overflowed, tags, answers>>
        BY <1>13 DEF SetDocumentId, history
    <2>3. id \in UInt64
        BY AllocatorAssumption
    <2>4. Numbers' /\ IssuedValid' /\ CountersLead'
        BY <1>1, <2>1, <2>2, <2>3 DEF Numbers, IssuedValid, CountersLead
    <2>5. OcctTypes'
        BY <1>1, <2>2 DEF OcctTypes
    <2>6. Records'
        BY <1>1, <2>1, <2>2, <2>3 DEF Records, Registered
    <2> QED BY <2>4, <2>5, <2>6 DEF Kept
<1>14. CASE SnapshotV2
    <2>1. PICK a \in live :
              /\ counter[a] >= 0
              /\ snapshots' = snapshots \cup {[counter |-> counter[a], documentId |-> documentId[a]]}
        BY <1>14 DEF SnapshotV2
    <2>2. counter[a] \in 0..Int64Max /\ documentId[a] \in UInt64
        BY <1>1, <1>2, <2>1, Widths DEF Numbers, Int64
    <2>3. Records'
        BY <1>1, <1>14, <2>1, <2>2 DEF Records, SnapshotV2, history
    <2>4. Numbers' /\ IssuedValid' /\ CountersLead' /\ OcctTypes'
        BY <1>1, <1>14 DEF SnapshotV2, allocator, history, Numbers, IssuedValid, CountersLead,
           OcctTypes
    <2> QED BY <2>3, <2>4 DEF Kept
<1>15. CASE RestoreV2
    <2>1. PICK a \in live, snap \in snapshots, force \in BOOLEAN :
              /\ MayRestore(a, snap, force)
              /\ counter' = [counter EXCEPT ![a] = snap.counter]
              /\ documentId' = [documentId EXCEPT ![a] = snap.documentId]
              /\ IF force THEN Discarded(a) ELSE UNCHANGED <<issued, overflowed>>
        BY <1>15 DEF RestoreV2
    <2>2. UNCHANGED <<live, occtTagMap, nextOcctTag, registry, snapshots, tags, answers>>
        BY <1>15 DEF RestoreV2
    <2> DEFINE start == snap.counter
               id == snap.documentId
    <2>3. start \in 0..Int64Max /\ id \in UInt64
        BY <1>1 DEF Records
    <2>4. a \in Allocators /\ live' \subseteq Allocators
        BY <1>2, <2>2
    <2>5. /\ documentId' = [documentId EXCEPT ![a] = id]
          /\ counter' = [counter EXCEPT ![a] = start]
        BY <2>1
    <2>6. \/ issued' = [issued EXCEPT ![a] = <<>>] /\ overflowed' = overflowed \ {a}
          \/ counter[a] <= start /\ UNCHANGED <<issued, overflowed>>
        BY <2>1 DEF Discarded, MayRestore
    <2> HIDE DEF start, id
    <2>7. Numbers' /\ IssuedValid' /\ CountersLead'
        <3>1. CASE issued' = [issued EXCEPT ![a] = <<>>] /\ overflowed' = overflowed \ {a}
            BY <1>1, <2>3, <2>4, <2>5, <3>1, FreshKeeps
        <3>2. CASE counter[a] <= start /\ UNCHANGED <<issued, overflowed>>
            BY <1>1, <2>2, <2>3, <2>4, <2>5, <3>2, LaterCounterKeeps
        <3> QED BY <2>6, <3>1, <3>2
    <2>8. OcctTypes'
        BY <1>1, <2>2 DEF OcctTypes
    <2> QED BY <1>1, <2>2, <2>7, <2>8 DEF Kept, Records
<1>16. CASE ToOcctTag
    <2>1. PICK a \in live, id \in Known :
              /\ IsValid(id)
              /\ \/ /\ PassesThrough(id)
                    /\ Answer(a, id, id.counter)
                    /\ UNCHANGED <<occtTagMap, nextOcctTag>>
                 \/ /\ ~PassesThrough(id)
                    /\ \E tag \in Handles(a, id) : Answer(a, id, tag)
                    /\ UNCHANGED <<occtTagMap, nextOcctTag>>
                 \/ /\ ~PassesThrough(id) /\ Handles(a, id) = {}
                    /\ NewHandle(a, id)
        BY <1>16 DEF ToOcctTag
    <2>2. UNCHANGED <<live, documentId, counter, registry, snapshots, issued, overflowed, tags>>
        BY <1>16 DEF ToOcctTag
    <2>3. id \in ShapeIdentities
        BY <1>1, KnownType
    <2>4. OcctTypes'
        <3>1. CASE PassesThrough(id) /\ Answer(a, id, id.counter) /\ UNCHANGED <<occtTagMap, nextOcctTag>>
            BY <1>1, <1>2, <2>1, <2>3, <3>1, AnswerKeeps, PassedTag
        <3>2. CASE /\ \E tag \in Handles(a, id) : Answer(a, id, tag)
                   /\ UNCHANGED <<occtTagMap, nextOcctTag>>
            <4>1. PICK tag \in Handles(a, id) : Answer(a, id, tag)
                BY <3>2
            <4>2. tag \in 1..Int32Max
                BY <1>1, <1>2, <4>1 DEF OcctTypes, Handles
            <4> QED BY <1>1, <1>2, <2>3, <3>2, <4>1, <4>2, AnswerKeeps
        <3>3. CASE NewHandle(a, id)
            BY <1>1, <1>2, <2>3, <3>3, HandleKeeps
        <3> QED BY <2>1, <3>1, <3>2, <3>3
    <2>5. Numbers' /\ IssuedValid' /\ CountersLead' /\ Records'
        BY <1>1, <2>2 DEF Numbers, IssuedValid, CountersLead, Records
    <2> QED BY <2>4, <2>5 DEF Kept
<1>17. CASE UNCHANGED taVars
    BY <1>1, <1>17 DEF taVars, allocator, history, Kept, Numbers, OcctTypes, Records, IssuedValid,
       CountersLead
<1> QED BY <1>3, <1>4, <1>5, <1>6, <1>7, <1>8, <1>9, <1>10, <1>11, <1>12, <1>13, <1>14, <1>15,
        <1>16, <1>17 DEF TANext

LEMMA StepIInv == AllocatorInv /\ [TANext]_taVars => AllocatorInv'
<1> SUFFICES ASSUME AllocatorInv, [TANext]_taVars PROVE AllocatorInv'
    OBVIOUS
<1>1. Kept'
    BY StepKept
<1>2. calls \in 0..MaxCalls
    BY KeptIsIInv
<1>3. calls' = calls \/ Call
    BY DEF TANext, taVars, CreateAllocator, CloneAllocator, DestroyContext, NextShapeIdentity,
       AllocateRangeV2, AllocateRange, NextTag, Reset, ResetCounterOnly, Seed, SetDocumentId,
       SnapshotV2, RestoreV2, ToOcctTag
<1>4. calls' \in 0..MaxCalls
    BY <1>2, <1>3, AllocatorAssumption DEF Call
<1>5. (AllocatorInv <=> Kept /\ calls \in 0..MaxCalls)'
    BY KeptIsIInv, PTL
<1> QED BY <1>1, <1>4, <1>5

THEOREM AllocatorInvariant == TASpec => []AllocatorInv
BY InitKept, StepIInv, PTL DEF TASpec

-----------------------------------------------------------------------------
(* What follows from the invariant *)

(* AllocatorTypeCorrect: whatever a process calls, counters stay 64-bit and handles *)
(* 32-bit two's complement integers, tags int64 and document ids unsigned. *)
THEOREM AllocatorTypeCorrect == TASpec => []TATypeOK
<1>1. AllocatorInv => TATypeOK
    BY DEF AllocatorInv
<1> QED BY <1>1, AllocatorInvariant, PTL

(* AlwaysIssuedValid: no identity that is handed out has a counter that is *)
(* 0 or negative.                                                          *)
THEOREM AlwaysIssuedValid == TASpec => []IssuedValid
<1>1. AllocatorInv => IssuedValid
    BY DEF AllocatorInv
<1> QED BY <1>1, AllocatorInvariant, PTL

(* AlwaysIssuedOnce: until its counter wraps or its caller discards what   *)
(* it handed out, an allocator hands out no identity twice.                *)
THEOREM AlwaysIssuedOnce == TASpec => []IssuedOnce
<1>1. ASSUME AllocatorInv
      PROVE  IssuedOnce
    <2>1. SUFFICES ASSUME NEW a \in Allocators \ overflowed,
                          NEW i \in DOMAIN issued[a], NEW j \in DOMAIN issued[a], i # j
                   PROVE  Disjoint(issued[a][i], issued[a][j])
        BY DEF IssuedOnce
    <2>2. issued[a] \in Seq(Blocks)
        BY <1>1 DEF AllocatorInv, TATypeOK
    <2>3. i \in Nat /\ j \in Nat
        BY <2>2
    <2>4. \A k, l \in DOMAIN issued[a] : k < l => issued[a][k].last < issued[a][l].first
        BY <1>1 DEF AllocatorInv, CountersLead, Ascending
    <2>5. i < j \/ j < i
        BY <2>1, <2>3
    <2> QED BY <2>4, <2>5 DEF Disjoint
<1> QED BY <1>1, AllocatorInvariant, PTL

(* What the runs check as AllocatorConsistent: types, valid identities and *)
(* no identity handed out twice by a TagAllocator.                         *)
THEOREM AllocatorAlwaysConsistent == TASpec => []AllocatorConsistent
<1>1. TATypeOK /\ IssuedValid /\ IssuedOnce => AllocatorConsistent
    BY DEF AllocatorConsistent
<1> QED BY <1>1, AllocatorTypeCorrect, AlwaysIssuedValid, AlwaysIssuedOnce, PTL

-----------------------------------------------------------------------------
(* The v1 tags of documents *)

(* Two digits of a positional number are read off again.                   *)
LEMMA TwoDigits ==
    ASSUME NEW base \in Nat, base > 0, NEW p \in Nat, NEW q \in Nat, NEW c \in Nat, NEW d \in Nat,
           c < base, d < base, p * base + c = q * base + d
    PROVE  p = q /\ c = d
<1>1. ASSUME NEW x \in Nat, NEW y \in Nat, x < y PROVE y * base >= x * base + base
    <2>1. PICK k \in Nat : y = x + 1 + k
        <3>1. y - x - 1 \in Nat /\ y = x + 1 + (y - x - 1)
            BY <1>1
        <3> QED BY <3>1
    <2>2. y * base = x * base + base + k * base /\ k * base \in Nat
        BY <2>1
    <2>3. x * base \in Nat
        OBVIOUS
    <2> QED BY <2>2, <2>3
<1>2. p * base \in Nat /\ q * base \in Nat
    OBVIOUS
<1>3. ~(p < q)
    <2> SUFFICES ASSUME p < q PROVE FALSE
        OBVIOUS
    <2>1. q * base >= p * base + base
        BY <1>1
    <2> QED BY <1>2, <2>1
<1>4. ~(q < p)
    <2> SUFFICES ASSUME q < p PROVE FALSE
        OBVIOUS
    <2>1. p * base >= q * base + base
        BY <1>1
    <2> QED BY <1>2, <2>1
<1>5. p = q
    BY <1>3, <1>4
<1> QED BY <1>2, <1>5

(* The halves of a number of 64 bits.                                      *)
LEMMA Halves ==
    ASSUME NEW high \in Nat, NEW low \in Nat, low < TwoTo32
    PROVE  /\ High32(high * TwoTo32 + low) = high
           /\ Low32(high * TwoTo32 + low) = low
<1> DEFINE u == high * TwoTo32 + low
           q == u \div TwoTo32
           r == u % TwoTo32
<1>1. u \in Nat
    <2>1. high * TwoTo32 \in Nat
        BY Widths
    <2> QED BY <2>1
<1>2. q \in Nat /\ r \in Nat /\ r < TwoTo32 /\ u = TwoTo32 * q + r
    <2> HIDE DEF u
    <2> QED BY <1>1, Widths
<1>3. q * TwoTo32 + r = high * TwoTo32 + low
    <2>1. TwoTo32 * q = q * TwoTo32
        <3> HIDE DEF q
        <3> QED BY <1>2, Widths
    <2> QED BY <1>2, <2>1
<1>4. q = high /\ r = low
    <2> HIDE DEF q, r, u
    <2> QED BY <1>2, <1>3, Widths, TwoDigits
<1> QED BY <1>4 DEF High32, Low32

LEMMA CastsBack == \A u \in UInt64 : AsUInt64(AsInt64(u)) = u /\ AsInt64(u) \in Int
BY Widths DEF UInt64, AsUInt64, AsInt64

(* A tag of a document is a number of two halves.                          *)
LEMMA TagHalves ==
    ASSUME NEW id \in ShapeIdentities, EncodableV1(id), ~IsSingleDoc(id)
    PROVE  LET low == Low32(id.documentId)
               u == low * TwoTo32 + id.counter
           IN  /\ low \in Nat /\ id.counter \in Nat /\ id.counter < TwoTo32
               /\ u \in UInt64 /\ EncodeV1Scalar(id) = AsInt64(u)
<1> DEFINE low == Low32(id.documentId)
           u == low * TwoTo32 + id.counter
<1>1. id.documentId \in Nat /\ id.counter \in Nat /\ id.counter <= TwoTo32 - 1 /\ id.counter < TwoTo32
    BY Widths DEF ShapeIdentities, UInt64, EncodableV1
<1>2. low \in 0..(TwoTo32 - 1)
    BY <1>1, Widths DEF Low32
<1>3. low * TwoTo32 <= (TwoTo32 - 1) * TwoTo32 /\ low * TwoTo32 \in Nat
    BY <1>2, Widths
<1>4. (TwoTo32 - 1) * TwoTo32 = TwoTo32 * TwoTo32 - TwoTo32
    BY Widths
<1>5. u \in UInt64
    <2> HIDE DEF low
    <2> QED BY <1>1, <1>3, <1>4, Widths DEF UInt64
<1>6. EncodeV1Scalar(id) = AsInt64(u)
    BY DEF EncodeV1Scalar
<1>7. low \in Nat
    BY <1>2, Widths
<1> HIDE DEF low, u
<1> QED BY <1>1, <1>5, <1>6, <1>7 DEF low, u

(* Two documents whose ids differ in their lower halves share no tag.      *)
LEMMA TagsTellDocuments ==
    ASSUME NEW id \in ShapeIdentities, EncodableV1(id), ~IsSingleDoc(id),
           NEW other \in ShapeIdentities, EncodableV1(other), ~IsSingleDoc(other),
           EncodeV1Scalar(id) = EncodeV1Scalar(other)
    PROVE  Low32(id.documentId) = Low32(other.documentId) /\ id.counter = other.counter
<1> DEFINE low == Low32(id.documentId)
           otherLow == Low32(other.documentId)
           u == low * TwoTo32 + id.counter
           v == otherLow * TwoTo32 + other.counter
<1>1. /\ low \in Nat /\ id.counter \in Nat /\ id.counter < TwoTo32
      /\ u \in UInt64 /\ EncodeV1Scalar(id) = AsInt64(u)
    BY TagHalves
<1>2. /\ otherLow \in Nat /\ other.counter \in Nat /\ other.counter < TwoTo32
      /\ v \in UInt64 /\ EncodeV1Scalar(other) = AsInt64(v)
    BY TagHalves
<1>3. u = v
    <2>1. AsInt64(u) = AsInt64(v)
        BY <1>1, <1>2
    <2> HIDE DEF u, v
    <2>2. AsUInt64(AsInt64(u)) = u /\ AsUInt64(AsInt64(v)) = v
        BY <1>1, <1>2, CastsBack
    <2> QED BY <2>1, <2>2
<1>4. low = otherLow /\ id.counter = other.counter
    <2> HIDE DEF low, otherLow
    <2> QED BY <1>1, <1>2, <1>3, Widths, TwoDigits
<1> QED BY <1>4

(* A tag of a document is read back, given the document.                   *)
LEMMA TagReadBack ==
    ASSUME NEW id \in ShapeIdentities, EncodableV1(id), ~IsSingleDoc(id)
    PROVE  /\ ~HintMismatch(EncodeV1Scalar(id), id.documentId)
           /\ DecodeV1Scalar(EncodeV1Scalar(id), id.documentId) = id
<1> DEFINE low == Low32(id.documentId)
           u == low * TwoTo32 + id.counter
<1>1. /\ low \in Nat /\ id.counter \in Nat /\ id.counter < TwoTo32
      /\ u \in UInt64 /\ EncodeV1Scalar(id) = AsInt64(u)
    BY TagHalves
<1>2. High32(u) = low /\ Low32(u) = id.counter
    <2> HIDE DEF low
    <2> QED BY <1>1, Halves
<1>3. AsUInt64(EncodeV1Scalar(id)) = u
    <2> HIDE DEF u
    <2> QED BY <1>1, CastsBack
<1>4. ~HintMismatch(EncodeV1Scalar(id), id.documentId)
    <2> HIDE DEF u
    <2> QED BY <1>2, <1>3 DEF HintMismatch
<1>5. id.documentId # 0
    BY DEF IsSingleDoc
<1>6. id = Identity(id.documentId, id.counter)
    BY DEF ShapeIdentities, Identity
<1>7. low = 0 => u = id.counter
    BY <1>1, Widths
<1>8. DecodeV1Scalar(EncodeV1Scalar(id), id.documentId) = id
    <2> HIDE DEF u, low
    <2> QED BY <1>2, <1>3, <1>5, <1>6, <1>7 DEF DecodeV1Scalar
<1> QED BY <1>4, <1>8

-----------------------------------------------------------------------------
(* Documents and OCCT tags *)

RestoredIds == {snap.documentId : snap \in Persisted}

(* The documents of the files that are read share no lower half with any   *)
(* other document: restoreV2 does not ask the registry.                    *)
RestoredApart ==
    \A d \in RestoredIds, e \in RestoredIds \cup DocumentIds :
        d # 0 /\ e # 0 /\ Low32(d) = Low32(e) => d = e

(* The documents whose lower halves are known to differ.                   *)
Named == registry \cup RestoredIds

NamedApart == \A d, e \in Named : d # 0 /\ e # 0 /\ Low32(d) = Low32(e) => d = e

(* Every document an allocator can name is one of these.                   *)
DocumentsNamed ==
    /\ registry \subseteq DocumentIds \cup RestoredIds
    /\ NamedApart
    /\ \A a \in Allocators : documentId[a] \in Named \cup {0}
    /\ \A snap \in snapshots : snap.documentId \in Named \cup {0}

TagsMade ==
    \A t \in tags : /\ EncodableV1(t[2]) /\ t[1] = EncodeV1Scalar(t[2])
                    /\ t[2].documentId \in Named \cup {0}

(* An OCCT tag is the identity's counter or the one handle of its entry.   *)
OneHandle(a) == \A g, h \in occtTagMap[a] : g[1] = h[1] => g[2] = h[2]

AnswersLookedUp(a) ==
    \A x \in answers[a] : IF PassesThrough(x[1]) THEN x[2] = x[1].counter ELSE x \in occtTagMap[a]

HandlesAgree == \A a \in Allocators : OneHandle(a) /\ AnswersLookedUp(a)

TagsInv == DocumentsNamed /\ TagsMade /\ HandlesAgree

LEMMA TagsInvSuffices ==
    ASSUME Records, TagsInv
    PROVE  TagsNameOneIdentity
<1>1. \A t \in MultiDocTags : /\ t[2] \in ShapeIdentities /\ EncodableV1(t[2]) /\ ~IsSingleDoc(t[2])
                              /\ t[1] = EncodeV1Scalar(t[2])
                              /\ t[2].documentId \in Named /\ t[2].documentId # 0
    <2> SUFFICES ASSUME NEW t \in MultiDocTags
                 PROVE  /\ t[2] \in ShapeIdentities /\ EncodableV1(t[2]) /\ ~IsSingleDoc(t[2])
                        /\ t[1] = EncodeV1Scalar(t[2])
                        /\ t[2].documentId \in Named /\ t[2].documentId # 0
        OBVIOUS
    <2>1. t \in tags /\ ~IsSingleDoc(t[2])
        BY DEF MultiDocTags
    <2>2. t[2] \in ShapeIdentities
        BY <2>1 DEF Records
    <2> QED BY <2>1, <2>2 DEF TagsInv, TagsMade, IsSingleDoc
<1>2. MultiDocTagsDecode
    BY <1>1, TagReadBack DEF MultiDocTagsDecode
<1>3. MultiDocTagsDistinct
    <2> SUFFICES ASSUME NEW t \in MultiDocTags, NEW u \in MultiDocTags, t[1] = u[1]
                 PROVE  t[2] = u[2]
        BY DEF MultiDocTagsDistinct
    <2>1. Low32(t[2].documentId) = Low32(u[2].documentId) /\ t[2].counter = u[2].counter
        BY <1>1, TagsTellDocuments
    <2>2. t[2].documentId = u[2].documentId
        BY <1>1, <2>1 DEF TagsInv, DocumentsNamed, NamedApart
    <2>3. t[2] \in ShapeIdentities /\ u[2] \in ShapeIdentities
        BY <1>1
    <2> QED BY <2>1, <2>2, <2>3 DEF ShapeIdentities
<1>4. OcctTagsStable
    BY DEF TagsInv, HandlesAgree, OneHandle, AnswersLookedUp, OcctTagsStable
<1> QED BY <1>2, <1>3, <1>4 DEF TagsNameOneIdentity

LEMMA TagsInvInitially ==
    ASSUME RestoredApart, TAInit
    PROVE  TagsInv
<1>1. Named = RestoredIds
    BY DEF TAInit, Named
<1>2. NamedApart
    BY <1>1 DEF RestoredApart, NamedApart
<1>3. DocumentsNamed
    BY <1>2 DEF TAInit, DocumentsNamed, Named, RestoredIds
<1>4. TagsMade /\ HandlesAgree
    BY DEF TAInit, TagsMade, HandlesAgree, OneHandle, AnswersLookedUp
<1> QED BY <1>3, <1>4 DEF TagsInv

(* A document is registered unless its lower half is taken.                *)
LEMMA RegistrationKeeps ==
    ASSUME RestoredApart, DocumentsNamed, NEW id \in DocumentIds \cup RestoredIds \cup {0},
           id = 0 \/ Registrable(id), Registered(id)
    PROVE  /\ registry' \subseteq DocumentIds \cup RestoredIds
           /\ NamedApart' /\ Named \subseteq Named' /\ id \in Named' \cup {0}
<1>1. registry' = registry \cup (IF id = 0 THEN {} ELSE {id})
    BY DEF Registered
<1>2. registry' \subseteq DocumentIds \cup RestoredIds
    BY <1>1 DEF DocumentsNamed
<1>3. Named' = Named \cup (IF id = 0 THEN {} ELSE {id})
    BY <1>1 DEF Named, RestoredIds
<1>4. ASSUME NEW d \in Named', NEW e \in Named', d # 0, e # 0, Low32(d) = Low32(e)
      PROVE  d = e
    <2>1. CASE d \in Named /\ e \in Named
        BY <1>4, <2>1 DEF DocumentsNamed, NamedApart
    <2>2. CASE d = id /\ e \in Named
        BY <1>4, <2>2 DEF Named, Registrable, RestoredApart
    <2>3. CASE e = id /\ d \in Named
        BY <1>4, <2>3 DEF Named, Registrable, RestoredApart
    <2> QED BY <1>3, <2>1, <2>2, <2>3
<1>5. NamedApart'
    BY <1>4 DEF NamedApart
<1> QED BY <1>2, <1>3, <1>5

(* A step after which no document is forgotten keeps the tags' documents.  *)
LEMMA TagsStay ==
    ASSUME TagsMade, UNCHANGED tags, Named \subseteq Named'
    PROVE  TagsMade'
BY DEF TagsMade

LEMMA DocumentsStay ==
    ASSUME DocumentsNamed, TagsMade, UNCHANGED <<registry, documentId, snapshots, tags>>
    PROVE  DocumentsNamed' /\ TagsMade'
BY DEF DocumentsNamed, NamedApart, Named, TagsMade

LEMMA HandlesStay ==
    ASSUME HandlesAgree, UNCHANGED <<occtTagMap, answers>>
    PROVE  HandlesAgree'
BY DEF HandlesAgree, OneHandle, AnswersLookedUp

(* A new allocator, and one that was reset, has answered nothing.          *)
LEMMA HandlesForgotten ==
    ASSUME OcctTypes, HandlesAgree, NEW a \in Allocators,
           occtTagMap' = [occtTagMap EXCEPT ![a] = {}], answers' = [answers EXCEPT ![a] = {}]
    PROVE  HandlesAgree'
<1>1. occtTagMap'[a] = {} /\ answers'[a] = {}
    BY DEF OcctTypes
<1>2. \A b \in Allocators : b # a => occtTagMap'[b] = occtTagMap[b] /\ answers'[b] = answers[b]
    BY DEF OcctTypes
<1> QED BY <1>1, <1>2 DEF HandlesAgree, OneHandle, AnswersLookedUp

LEMMA CreateKeepsTags ==
    ASSUME RestoredApart, Numbers, OcctTypes, TagsInv, NEW a \in Allocators,
           NEW id \in DocumentIds \cup RestoredIds \cup {0}, NEW start, Create(a, id, start)
    PROVE  TagsInv'
<1>1. /\ registry' \subseteq DocumentIds \cup RestoredIds
      /\ NamedApart' /\ Named \subseteq Named' /\ id \in Named' \cup {0}
    BY RegistrationKeeps DEF Create, TagsInv
<1>2. \A b \in Allocators : documentId'[b] \in {documentId[b], id}
    BY DEF Create, Numbers
<1>3. DocumentsNamed'
    BY <1>1, <1>2 DEF TagsInv, DocumentsNamed, Create
<1>4. TagsMade'
    BY <1>1, TagsStay DEF TagsInv, Create
<1>5. HandlesAgree'
    BY HandlesForgotten DEF TagsInv, Create
<1> QED BY <1>3, <1>4, <1>5 DEF TagsInv

(* An answer that is looked up, and one that is made.                      *)
LEMMA AnswerKeepsTags ==
    ASSUME OcctTypes, HandlesAgree, NEW a \in Allocators, NEW id, NEW tag, Answer(a, id, tag),
           UNCHANGED occtTagMap,
           IF PassesThrough(id) THEN tag = id.counter ELSE <<id, tag>> \in occtTagMap[a]
    PROVE  HandlesAgree'
<1>1. answers'[a] = answers[a] \cup {<<id, tag>>}
    BY DEF OcctTypes, Answer
<1>2. \A b \in Allocators : b # a => answers'[b] = answers[b]
    BY DEF OcctTypes, Answer
<1>3. \A b \in Allocators : occtTagMap'[b] = occtTagMap[b]
    OBVIOUS
<1>4. AnswersLookedUp(a)'
    BY <1>1, <1>3 DEF HandlesAgree, AnswersLookedUp
<1>5. \A b \in Allocators : AnswersLookedUp(b)'
    BY <1>2, <1>3, <1>4 DEF HandlesAgree, AnswersLookedUp
<1>6. \A b \in Allocators : OneHandle(b)'
    BY <1>3 DEF HandlesAgree, OneHandle
<1> QED BY <1>5, <1>6 DEF HandlesAgree

LEMMA HandleKeepsTags ==
    ASSUME OcctTypes, HandlesAgree, NEW a \in Allocators, NEW id \in ShapeIdentities,
           ~PassesThrough(id), Handles(a, id) = {}, NewHandle(a, id)
    PROVE  HandlesAgree'
<1> DEFINE handle == nextOcctTag[a]
<1>1. CASE ~(handle > 0)
    BY <1>1, HandlesStay DEF NewHandle
<1>2. CASE handle > 0
    <2>1. /\ occtTagMap'[a] = occtTagMap[a] \cup {<<id, handle>>}
          /\ answers'[a] = answers[a] \cup {<<id, handle>>}
        BY <1>2 DEF NewHandle, Answer, OcctTypes
    <2>2. \A b \in Allocators : b # a => occtTagMap'[b] = occtTagMap[b] /\ answers'[b] = answers[b]
        BY <1>2 DEF NewHandle, Answer, OcctTypes
    <2>3. \A g \in occtTagMap[a] : g[1] # id
        BY DEF Handles
    <2> HIDE DEF handle
    <2>4. OneHandle(a)'
        BY <2>1, <2>3 DEF HandlesAgree, OneHandle
    <2>5. AnswersLookedUp(a)'
        BY <2>1 DEF HandlesAgree, AnswersLookedUp
    <2>6. \A b \in Allocators : b # a => OneHandle(b)' /\ AnswersLookedUp(b)'
        BY <2>2 DEF HandlesAgree, OneHandle, AnswersLookedUp
    <2> QED BY <2>4, <2>5, <2>6 DEF HandlesAgree
<1> QED BY <1>1, <1>2

LEMMA TagsInvKept ==
    ASSUME RestoredApart, AllocatorInv, TagsInv, [TANext]_taVars
    PROVE  TagsInv'
<1>1. /\ Kept /\ Numbers /\ OcctTypes /\ Records /\ IssuedValid
    BY KeptIsIInv DEF Kept
<1>2. DocumentsNamed /\ TagsMade /\ HandlesAgree
    BY DEF TagsInv
<1>3. live \subseteq Allocators
    BY <1>1 DEF Numbers
<1>4. CASE CreateAllocator
    <2>1. PICK a \in Allocators, id \in DocumentIds, start \in Seeds : Create(a, id, start)
        BY <1>4 DEF CreateAllocator
    <2> QED BY <1>1, <2>1, CreateKeepsTags
<1>5. CASE CloneAllocator
    <2>1. PICK a \in live, copy \in Allocators :
              Create(copy, documentId[a], IF counter[a] < 0 THEN 0 ELSE counter[a])
        BY <1>5 DEF CloneAllocator
    <2>2. documentId[a] \in DocumentIds \cup RestoredIds \cup {0}
        BY <1>2, <1>3 DEF DocumentsNamed, Named
    <2> QED BY <1>1, <2>1, <2>2, CreateKeepsTags
<1>6. CASE DestroyContext \/ NextShapeIdentity \/ AllocateRangeV2 \/ AllocateRange \/ ResetCounterOnly \/ Seed
    <2>1. UNCHANGED <<registry, documentId, snapshots, tags>> /\ UNCHANGED <<occtTagMap, answers>>
        BY <1>6 DEF DestroyContext, NextShapeIdentity, AllocateRangeV2, AllocateRange, ResetCounterOnly, Seed,
           Advance, history
    <2> QED BY <1>2, <2>1, DocumentsStay, HandlesStay DEF TagsInv
<1>7. CASE NextTag
    <2>1. PICK a \in live :
             LET id == Identity(documentId[a], counter[a] + 1)
             IN  IF NextOverflows(a) \/ ~EncodableV1(id)
                 THEN Advance(a, 1, TRUE) /\ UNCHANGED tags
                 ELSE /\ Advance(a, 1, FALSE)
                      /\ tags' = tags \cup {<<EncodeV1Scalar(id), id>>}
        BY <1>7 DEF NextTag
    <2>2. UNCHANGED <<registry, documentId, snapshots, occtTagMap, answers>>
        BY <2>1 DEF Advance
    <2>3. DocumentsNamed' /\ HandlesAgree' /\ Named' = Named
        BY <1>2, <2>2, HandlesStay DEF DocumentsNamed, NamedApart, Named
    <2>4. PICK id : id = Identity(documentId[a], counter[a] + 1)
        OBVIOUS
    <2>5. id.documentId \in Named \cup {0}
        BY <1>2, <1>3, <2>4 DEF DocumentsNamed, Identity
    <2>6. \A t \in tags' : t \in tags \/ (EncodableV1(id) /\ t = <<EncodeV1Scalar(id), id>>)
        BY <2>1, <2>4
    <2>7. TagsMade'
        BY <1>2, <2>3, <2>5, <2>6 DEF TagsMade
    <2> QED BY <2>3, <2>7 DEF TagsInv
<1>8. CASE Reset
    <2>1. PICK a \in live : /\ documentId' = [documentId EXCEPT ![a] = 0]
                            /\ occtTagMap' = [occtTagMap EXCEPT ![a] = {}]
                            /\ answers' = [answers EXCEPT ![a] = {}]
        BY <1>8 DEF Reset
    <2>2. UNCHANGED <<registry, snapshots, tags>>
        BY <1>8 DEF Reset
    <2>3. \A b \in Allocators : documentId'[b] \in {documentId[b], 0}
        BY <1>1, <2>1 DEF Numbers
    <2>4. DocumentsNamed' /\ TagsMade'
        BY <1>2, <2>2, <2>3 DEF DocumentsNamed, NamedApart, Named, TagsMade
    <2>5. HandlesAgree'
        BY <1>1, <1>2, <1>3, <2>1, HandlesForgotten
    <2> QED BY <2>4, <2>5 DEF TagsInv
<1>9. CASE SetDocumentId
    <2>1. PICK a \in live, id \in DocumentIds :
              /\ id = 0 \/ Registrable(id)
              /\ Registered(id)
              /\ documentId' = [documentId EXCEPT ![a] = id]
        BY <1>9 DEF SetDocumentId
    <2>2. UNCHANGED <<snapshots, tags, occtTagMap, answers>>
        BY <1>9 DEF SetDocumentId, history
    <2>3. /\ registry' \subseteq DocumentIds \cup RestoredIds
          /\ NamedApart' /\ Named \subseteq Named' /\ id \in Named' \cup {0}
        BY <1>2, <2>1, RegistrationKeeps
    <2>4. \A b \in Allocators : documentId'[b] \in {documentId[b], id}
        BY <1>1, <2>1 DEF Numbers
    <2>5. DocumentsNamed'
        BY <1>2, <2>2, <2>3, <2>4 DEF DocumentsNamed
    <2> QED BY <1>2, <2>2, <2>3, <2>5, TagsStay, HandlesStay DEF TagsInv
<1>10. CASE SnapshotV2
    <2>1. PICK a \in live :
              snapshots' = snapshots \cup {[counter |-> counter[a], documentId |-> documentId[a]]}
        BY <1>10 DEF SnapshotV2
    <2>2. UNCHANGED <<registry, documentId, tags, occtTagMap, answers>>
        BY <1>10 DEF SnapshotV2, allocator, history
    <2>3. \A snap \in snapshots' : snap \in snapshots \/ snap.documentId = documentId[a]
        BY <2>1
    <2>4. DocumentsNamed' /\ TagsMade'
        BY <1>2, <1>3, <2>2, <2>3 DEF DocumentsNamed, NamedApart, Named, TagsMade
    <2> QED BY <1>2, <2>2, <2>4, HandlesStay DEF TagsInv
<1>11. CASE RestoreV2
    <2>1. PICK a \in live, snap \in snapshots : documentId' = [documentId EXCEPT ![a] = snap.documentId]
        BY <1>11 DEF RestoreV2
    <2>2. UNCHANGED <<registry, snapshots, tags, occtTagMap, answers>>
        BY <1>11 DEF RestoreV2
    <2>3. \A b \in Allocators : documentId'[b] \in {documentId[b], snap.documentId}
        BY <1>1, <2>1 DEF Numbers
    <2>4. DocumentsNamed' /\ TagsMade'
        BY <1>2, <2>2, <2>3 DEF DocumentsNamed, NamedApart, Named, TagsMade
    <2> QED BY <1>2, <2>2, <2>4, HandlesStay DEF TagsInv
<1>12. CASE ToOcctTag
    <2>1. PICK a \in live, id \in Known :
              \/ /\ PassesThrough(id)
                 /\ Answer(a, id, id.counter)
                 /\ UNCHANGED <<occtTagMap, nextOcctTag>>
              \/ /\ ~PassesThrough(id)
                 /\ \E tag \in Handles(a, id) : Answer(a, id, tag)
                 /\ UNCHANGED <<occtTagMap, nextOcctTag>>
              \/ /\ ~PassesThrough(id) /\ Handles(a, id) = {}
                 /\ NewHandle(a, id)
        BY <1>12 DEF ToOcctTag
    <2>2. UNCHANGED <<registry, documentId, snapshots, tags>>
        BY <1>12 DEF ToOcctTag
    <2>3. id \in ShapeIdentities
        BY <1>1, KnownType
    <2>4. \A tag \in Handles(a, id) : <<id, tag>> \in occtTagMap[a]
        <3> SUFFICES ASSUME NEW tag \in Handles(a, id) PROVE <<id, tag>> \in occtTagMap[a]
            OBVIOUS
        <3>1. PICK g \in occtTagMap[a] : g[1] = id /\ g[2] = tag
            BY DEF Handles
        <3>2. g \in ShapeIdentities \X (1..Int32Max)
            BY <1>1, <1>3 DEF OcctTypes
        <3> QED BY <3>1, <3>2
    <2>5. HandlesAgree'
        <3>1. CASE PassesThrough(id)
            BY <1>1, <1>2, <1>3, <2>1, <3>1, AnswerKeepsTags
        <3>2. CASE ~PassesThrough(id) /\ \E tag \in Handles(a, id) : Answer(a, id, tag) /\ UNCHANGED occtTagMap
            BY <1>1, <1>2, <1>3, <2>4, <3>2, AnswerKeepsTags
        <3>3. CASE ~PassesThrough(id) /\ Handles(a, id) = {} /\ NewHandle(a, id)
            BY <1>1, <1>2, <1>3, <2>3, <3>3, HandleKeepsTags
        <3> QED BY <2>1, <3>1, <3>2, <3>3
    <2> QED BY <1>2, <2>2, <2>5, DocumentsStay DEF TagsInv
<1>13. CASE UNCHANGED taVars
    <2>1. UNCHANGED <<registry, documentId, snapshots, tags>> /\ UNCHANGED <<occtTagMap, answers>>
        BY <1>13 DEF taVars, allocator, history
    <2> QED BY <1>2, <2>1, DocumentsStay, HandlesStay DEF TagsInv
<1> QED BY <1>4, <1>5, <1>6, <1>7, <1>8, <1>9, <1>10, <1>11, <1>12, <1>13 DEF TANext

(* The tags of documents name one identity each and are read back to it,   *)
(* and OCCT is answered alike about an identity, whatever contexts are     *)
(* created, cloned, reset and restored, as long as no file brings in a     *)
(* document that the registry would have refused.                          *)
THEOREM TagsAlwaysNameOneIdentity ==
    ASSUME RestoredApart
    PROVE  TASpec => []TagsNameOneIdentity
<1>1. RestoredApart
    OBVIOUS
<1>2. TAInit => TagsInv
    BY <1>1, TagsInvInitially
<1>3. AllocatorInv /\ TagsInv /\ [TANext]_taVars => TagsInv'
    BY <1>1, TagsInvKept
<1>4. AllocatorInv /\ TagsInv => TagsNameOneIdentity
    BY KeptIsIInv, TagsInvSuffices DEF Kept
<1> QED BY <1>2, <1>3, <1>4, AllocatorInvariant, PTL DEF TASpec

-----------------------------------------------------------------------------
(* Counting *)

LEMMA CountType ==
    ASSUME NEW list \in Seq(Diagnostic), NEW severity
    PROVE  CountOf(list, severity) \in Nat
<1> DEFINE S == {i \in DOMAIN list : list[i].severity = severity}
<1>1. IsFiniteSet(1..Len(list))
    BY FS_Interval
<1>2. S \in SUBSET (1..Len(list))
    OBVIOUS
<1>3. IsFiniteSet(S)
    BY <1>1, <1>2, FS_Subset
<1>4. Cardinality(S) \in Nat
    BY <1>3, FS_CardinalityType
<1> QED BY <1>4 DEF CountOf

LEMMA CountAppend ==
    ASSUME NEW list \in Seq(Diagnostic), NEW d \in Diagnostic, NEW severity
    PROVE  CountOf(Append(list, d), severity)
             = IF d.severity = severity THEN CountOf(list, severity) + 1
                                        ELSE CountOf(list, severity)
<1> DEFINE longer == Append(list, d)
           S == {i \in DOMAIN list : list[i].severity = severity}
           T == {i \in DOMAIN longer : longer[i].severity = severity}
           new == Len(list) + 1
<1>1. IsFiniteSet(1..Len(list))
    BY FS_Interval
<1>2. S \in SUBSET (1..Len(list))
    OBVIOUS
<1>3. IsFiniteSet(S)
    BY <1>1, <1>2, FS_Subset
<1>4. /\ DOMAIN longer = 1..new
      /\ \A i \in 1..Len(list) : longer[i] = list[i]
      /\ longer[new] = d
    BY AppendProperties
<1>5. new \notin S
    OBVIOUS
<1>6. CASE d.severity = severity
    <2>1. T = S \cup {new}
        <3> HIDE DEF longer
        <3> QED BY <1>4, <1>6
    <2>2. Cardinality(T) = Cardinality(S) + 1
        <3> HIDE DEF S, T, new
        <3> QED BY <1>3, <1>5, <2>1, FS_AddElement
    <2> QED BY <1>6, <2>2 DEF CountOf
<1>7. CASE d.severity # severity
    <2>1. T = S
        <3> HIDE DEF longer
        <3> QED BY <1>4, <1>7
    <2> QED BY <1>7, <2>1 DEF CountOf
<1> QED BY <1>6, <1>7

LEMMA CountEmpty ==
    ASSUME NEW severity
    PROVE  CountOf(<<>>, severity) = 0
<1>1. {i \in DOMAIN <<>> : <<>>[i].severity = severity} = {}
    OBVIOUS
<1> QED BY <1>1, FS_EmptySet, Zenon DEF CountOf

-----------------------------------------------------------------------------
(* The collector keeps its type and its counters. *)

(* What every operation of the collector keeps. *)
Sound(c) == c \in Collectors /\ c = Recounted(c)

(* The counters of a collector are the recount of its vector. *)
CountersOf(c) ==
    /\ c.errorCount = CountOf(c.diagnostics, "Error")
    /\ c.warningCount = CountOf(c.diagnostics, "Warning")
    /\ c.fatalCount = CountOf(c.diagnostics, "Fatal")
    /\ c.geometryDegraded = \E i \in DOMAIN c.diagnostics : c.diagnostics[i].geometryDegraded
    /\ c.namingDegraded = \E i \in DOMAIN c.diagnostics : c.diagnostics[i].namingDegraded

LEMMA SoundCounters ==
    ASSUME NEW c \in Collectors
    PROVE  Sound(c) <=> CountersOf(c)
<1> DEFINE r == Recounted(c)
<1>1. /\ r.errorCount = CountOf(c.diagnostics, "Error")
      /\ r.warningCount = CountOf(c.diagnostics, "Warning")
      /\ r.fatalCount = CountOf(c.diagnostics, "Fatal")
      /\ r.geometryDegraded = \E i \in DOMAIN c.diagnostics : c.diagnostics[i].geometryDegraded
      /\ r.namingDegraded = \E i \in DOMAIN c.diagnostics : c.diagnostics[i].namingDegraded
    BY DEF Recounted, Collectors
<1>2. CountersOf(c) => c = r
    BY DEF CountersOf, Recounted, Collectors
<1> HIDE DEF r
<1>3. c = r => CountersOf(c)
    BY <1>1 DEF CountersOf
<1> QED BY <1>2, <1>3 DEF Sound, r

LEMMA RecountedSound ==
    ASSUME NEW c \in Collectors
    PROVE  /\ Sound(Recounted(c))
           /\ Recounted(c).diagnostics = c.diagnostics
           /\ Recounted(c).generation = c.generation
           /\ Recounted(c).maxDiagnostics = c.maxDiagnostics
<1> DEFINE list == c.diagnostics
<1>1. list \in Seq(Diagnostic)
    BY DEF Collectors
<1>2. /\ CountOf(list, "Error") \in Nat
      /\ CountOf(list, "Warning") \in Nat
      /\ CountOf(list, "Fatal") \in Nat
    BY <1>1, CountType
<1>3. Recounted(c) \in Collectors
    BY <1>2 DEF Recounted, Collectors
<1>4. Recounted(Recounted(c)) = Recounted(c)
    <2>1. Recounted(c).diagnostics = c.diagnostics
        BY DEF Recounted, Collectors
    <2> QED BY <2>1, ZenonT(40) DEF Recounted, Collectors
<1>5. /\ Recounted(c).diagnostics = c.diagnostics
      /\ Recounted(c).generation = c.generation
      /\ Recounted(c).maxDiagnostics = c.maxDiagnostics
    BY DEF Recounted, Collectors
<1> QED BY <1>3, <1>4, <1>5 DEF Sound

LEMMA EntryType ==
    ASSUME NEW severity \in Severities, NEW code \in Codes
    PROVE  Entry(severity, code) \in Diagnostic
  BY DEF Entry, Diagnostic

LEMMA MarkerType == Marker \in Diagnostic
  BY EntryType DEF Marker, Severities, Codes

LEMMA MarkedSound ==
    ASSUME NEW c \in Collectors, Sound(c)
    PROVE  /\ Sound(Marked(c))
           /\ Marked(c).generation = c.generation
           /\ Marked(c).maxDiagnostics = c.maxDiagnostics
           /\ Len(Marked(c).diagnostics) = Len(c.diagnostics)
<1>1. CASE c.diagnostics = <<>>
    BY <1>1 DEF Marked
<1>2. CASE c.diagnostics # <<>>
    <2> DEFINE n == Len(c.diagnostics)
               list == [c.diagnostics EXCEPT ![n] = Marker]
               m == [c EXCEPT !.diagnostics = list]
    <2>1. c.diagnostics \in Seq(Diagnostic)
        BY DEF Collectors
    <2>2. list \in Seq(Diagnostic) /\ Len(list) = n
        BY <1>2, <2>1, MarkerType
    <2>3. /\ m \in Collectors
          /\ m.diagnostics = list
          /\ m.generation = c.generation
          /\ m.maxDiagnostics = c.maxDiagnostics
        <3> HIDE DEF list
        <3> QED BY <2>2 DEF Collectors
    <2>4. Marked(c) = Recounted(m)
        BY <1>2 DEF Marked, Collectors
    <2> HIDE DEF m
    <2> QED BY <2>2, <2>3, <2>4, RecountedSound
<1> QED BY <1>1, <1>2

LEMMA OverflowedSound ==
    ASSUME NEW c \in Collectors, Sound(c)
    PROVE  /\ Sound(Overflowed(c))
           /\ Overflowed(c).generation = c.generation
           /\ Overflowed(c).maxDiagnostics = c.maxDiagnostics
           /\ Len(Overflowed(c).diagnostics) = Len(c.diagnostics)
<1> DEFINE counted == [c EXCEPT !.overflowCount = @ + 1]
           flagged == [counted EXCEPT !.truncated = TRUE]
<1>a. counted \in Collectors /\ flagged \in Collectors
    <2>1. c.overflowCount + 1 \in Nat
        BY DEF Collectors
    <2>2. counted \in Collectors
        BY <2>1 DEF Collectors
    <2>3. flagged \in Collectors
        <3> HIDE DEF counted
        <3> QED BY <2>2 DEF Collectors
    <2> QED BY <2>2, <2>3
<1>b. /\ counted.generation = c.generation /\ flagged.generation = c.generation
      /\ counted.maxDiagnostics = c.maxDiagnostics
      /\ flagged.maxDiagnostics = c.maxDiagnostics
      /\ counted.diagnostics = c.diagnostics /\ flagged.diagnostics = c.diagnostics
    BY DEF Collectors
<1>c. CountersOf(counted) /\ CountersOf(flagged)
    <2>1. CountersOf(c)
        BY SoundCounters
    <2> QED BY <2>1 DEF CountersOf, Collectors
<1>1. Sound(counted) /\ Sound(flagged)
    <2> HIDE DEF counted, flagged
    <2> QED BY <1>a, <1>c, SoundCounters
<1>2. Overflowed(c) = IF c.truncated THEN counted ELSE Marked(flagged)
    BY DEF Overflowed
<1>3. /\ Sound(Marked(flagged))
      /\ Marked(flagged).generation = c.generation
      /\ Marked(flagged).maxDiagnostics = c.maxDiagnostics
      /\ Len(Marked(flagged).diagnostics) = Len(c.diagnostics)
    <2> HIDE DEF flagged
    <2> QED BY <1>1, <1>a, <1>b, MarkedSound
<1> HIDE DEF counted, flagged
<1> QED BY <1>1, <1>b, <1>2, <1>3

LEMMA BumpedSound ==
    ASSUME NEW c \in Collectors, Sound(c), NEW d \in Diagnostic
    PROVE  LET pushed == Bumped([c EXCEPT !.diagnostics = Append(@, d)], d)
           IN  /\ Sound(pushed)
               /\ pushed.generation = c.generation
               /\ pushed.maxDiagnostics = c.maxDiagnostics
               /\ pushed.diagnostics = Append(c.diagnostics, d)
<1> DEFINE list == Append(c.diagnostics, d)
           m == [c EXCEPT !.diagnostics = list]
           pushed == Bumped(m, d)
<1>1. c.diagnostics \in Seq(Diagnostic)
    BY DEF Collectors
<1>2. /\ list \in Seq(Diagnostic)
      /\ Len(list) = Len(c.diagnostics) + 1
      /\ \A i \in 1..Len(c.diagnostics) : list[i] = c.diagnostics[i]
      /\ list[Len(c.diagnostics) + 1] = d
    BY <1>1, AppendProperties
<1>3. CountersOf(c)
    BY SoundCounters
<1>4. \A s : CountOf(list, s) = IF d.severity = s THEN CountOf(c.diagnostics, s) + 1
                                                 ELSE CountOf(c.diagnostics, s)
    BY <1>1, CountAppend
<1>5. /\ d.severity \in Severities
      /\ d.geometryDegraded \in BOOLEAN /\ d.namingDegraded \in BOOLEAN
    BY DEF Diagnostic
<1> HIDE DEF list
<1>6. /\ m \in Collectors
      /\ m.diagnostics = list
      /\ m.generation = c.generation /\ m.maxDiagnostics = c.maxDiagnostics
      /\ m.errorCount = c.errorCount /\ m.warningCount = c.warningCount
      /\ m.fatalCount = c.fatalCount
      /\ m.geometryDegraded = c.geometryDegraded
      /\ m.namingDegraded = c.namingDegraded
    BY <1>2 DEF Collectors
<1> HIDE DEF m
<1>7. /\ pushed \in Collectors
      /\ pushed.diagnostics = list
      /\ pushed.generation = c.generation /\ pushed.maxDiagnostics = c.maxDiagnostics
      /\ pushed.errorCount = IF d.severity = "Error" THEN c.errorCount + 1 ELSE c.errorCount
      /\ pushed.warningCount = IF d.severity = "Warning" THEN c.warningCount + 1
                                                         ELSE c.warningCount
      /\ pushed.fatalCount = IF d.severity = "Fatal" THEN c.fatalCount + 1 ELSE c.fatalCount
      /\ pushed.geometryDegraded = (c.geometryDegraded \/ d.geometryDegraded)
      /\ pushed.namingDegraded = (c.namingDegraded \/ d.namingDegraded)
    <2> DEFINE errors == IF d.severity = "Error" THEN m.errorCount + 1 ELSE m.errorCount
               warnings == IF d.severity = "Warning" THEN m.warningCount + 1
                                                     ELSE m.warningCount
               fatals == IF d.severity = "Fatal" THEN m.fatalCount + 1 ELSE m.fatalCount
               geometry == m.geometryDegraded \/ d.geometryDegraded
               naming == m.namingDegraded \/ d.namingDegraded
    <2>1. errors \in Nat /\ warnings \in Nat /\ fatals \in Nat
        BY <1>6 DEF Collectors
    <2>2. geometry \in BOOLEAN /\ naming \in BOOLEAN
        OBVIOUS
    <2>3. pushed = [m EXCEPT !.errorCount = errors, !.warningCount = warnings,
                             !.fatalCount = fatals, !.geometryDegraded = geometry,
                             !.namingDegraded = naming]
        BY <1>6 DEF Bumped, Collectors
    <2> HIDE DEF errors, warnings, fatals, geometry, naming
    <2>4. /\ pushed \in Collectors
          /\ pushed.diagnostics = list
          /\ pushed.generation = c.generation /\ pushed.maxDiagnostics = c.maxDiagnostics
          /\ pushed.errorCount = errors /\ pushed.warningCount = warnings
          /\ pushed.fatalCount = fatals
          /\ pushed.geometryDegraded = geometry /\ pushed.namingDegraded = naming
        BY <1>6, <2>1, <2>2, <2>3 DEF Collectors
    <2> QED BY <1>6, <2>4 DEF errors, warnings, fatals, geometry, naming
<1> HIDE DEF pushed
<1>8. DOMAIN list = 1..(Len(c.diagnostics) + 1) /\ DOMAIN c.diagnostics = 1..Len(c.diagnostics)
    BY <1>1, <1>2
<1>9. (\E i \in DOMAIN list : list[i].geometryDegraded)
        <=> ((\E i \in DOMAIN c.diagnostics : c.diagnostics[i].geometryDegraded)
                \/ d.geometryDegraded)
    BY <1>1, <1>2, <1>8
<1>10. (\E i \in DOMAIN list : list[i].namingDegraded)
        <=> ((\E i \in DOMAIN c.diagnostics : c.diagnostics[i].namingDegraded)
                \/ d.namingDegraded)
    BY <1>1, <1>2, <1>8
<1>11. CountersOf(pushed)
    <2>1. /\ pushed.errorCount = CountOf(pushed.diagnostics, "Error")
          /\ pushed.warningCount = CountOf(pushed.diagnostics, "Warning")
          /\ pushed.fatalCount = CountOf(pushed.diagnostics, "Fatal")
        BY <1>3, <1>4, <1>7 DEF CountersOf
    <2>2. pushed.geometryDegraded
            = \E i \in DOMAIN pushed.diagnostics : pushed.diagnostics[i].geometryDegraded
        BY <1>3, <1>7, <1>9 DEF CountersOf
    <2>3. pushed.namingDegraded
            = \E i \in DOMAIN pushed.diagnostics : pushed.diagnostics[i].namingDegraded
        BY <1>3, <1>7, <1>10 DEF CountersOf
    <2> QED BY <2>1, <2>2, <2>3, Zenon DEF CountersOf
<1>12. Sound(pushed)
    BY <1>7, <1>11, SoundCounters
<1> QED BY <1>7, <1>12 DEF pushed, m, list

(* report() keeps the counters, the generation and the cap; it grows the   *)
(* vector by at most one, and not at the cap.                              *)
LEMMA ReportedSound ==
    ASSUME NEW c \in Collectors, Sound(c), NEW d \in Diagnostic
    PROVE  /\ Sound(Reported(c, d))
           /\ Reported(c, d).generation = c.generation
           /\ Reported(c, d).maxDiagnostics = c.maxDiagnostics
           /\ Len(Reported(c, d).diagnostics) >= Len(c.diagnostics)
           /\ \/ Len(Reported(c, d).diagnostics) = Len(c.diagnostics)
              \/ Len(Reported(c, d).diagnostics) <= c.maxDiagnostics
<1> DEFINE pushed == Bumped([c EXCEPT !.diagnostics = Append(@, d)], d)
<1>1. c.diagnostics \in Seq(Diagnostic) /\ c.maxDiagnostics \in Nat
    BY DEF Collectors
<1>2. Len(Append(c.diagnostics, d)) = Len(c.diagnostics) + 1
    BY <1>1
<1>3. CASE Len(c.diagnostics) >= c.maxDiagnostics
    BY <1>1, <1>3, OverflowedSound DEF Reported
<1>4. CASE ~(Len(c.diagnostics) >= c.maxDiagnostics)
    <2>1. Reported(c, d) = pushed
        BY <1>4 DEF Reported
    <2>2. /\ Sound(pushed)
          /\ pushed.generation = c.generation
          /\ pushed.maxDiagnostics = c.maxDiagnostics
          /\ pushed.diagnostics = Append(c.diagnostics, d)
        BY BumpedSound
    <2> HIDE DEF pushed
    <2> QED BY <1>1, <1>2, <1>4, <2>1, <2>2
<1> QED BY <1>3, <1>4

LEMMA EmptyCounters ==
    ASSUME NEW c, c.diagnostics = <<>>,
           c.errorCount = 0, c.warningCount = 0, c.fatalCount = 0,
           c.geometryDegraded = FALSE, c.namingDegraded = FALSE
    PROVE  CountersOf(c)
<1>1. DOMAIN c.diagnostics = {}
    OBVIOUS
<1>2. /\ (\E i \in DOMAIN c.diagnostics : c.diagnostics[i].geometryDegraded) = FALSE
      /\ (\E i \in DOMAIN c.diagnostics : c.diagnostics[i].namingDegraded) = FALSE
    BY <1>1, Zenon
<1>3. /\ c.errorCount = CountOf(c.diagnostics, "Error")
      /\ c.warningCount = CountOf(c.diagnostics, "Warning")
      /\ c.fatalCount = CountOf(c.diagnostics, "Fatal")
    BY CountEmpty
<1> QED BY <1>2, <1>3, Zenon DEF CountersOf

LEMMA ClearedSound ==
    ASSUME NEW c \in Collectors
    PROVE  /\ Sound(Cleared(c))
           /\ Cleared(c).generation = c.generation + 1
           /\ Cleared(c).diagnostics = <<>>
           /\ Cleared(c).maxDiagnostics = c.maxDiagnostics
<1>1. /\ Cleared(c) \in Collectors
      /\ Cleared(c).generation = c.generation + 1
      /\ Cleared(c).diagnostics = <<>>
      /\ Cleared(c).maxDiagnostics = c.maxDiagnostics
      /\ Cleared(c).errorCount = 0 /\ Cleared(c).warningCount = 0
      /\ Cleared(c).fatalCount = 0
      /\ Cleared(c).geometryDegraded = FALSE /\ Cleared(c).namingDegraded = FALSE
    <2>1. c.generation + 1 \in Nat /\ <<>> \in Seq(Diagnostic)
        BY DEF Collectors
    <2> DEFINE m == [c EXCEPT !.diagnostics = <<>>, !.errorCount = 0, !.warningCount = 0,
                              !.fatalCount = 0, !.geometryDegraded = FALSE,
                              !.namingDegraded = FALSE, !.truncated = FALSE]
    <2>2. /\ m \in Collectors
          /\ m.generation = c.generation
          /\ m.diagnostics = <<>>
          /\ m.maxDiagnostics = c.maxDiagnostics
          /\ m.errorCount = 0 /\ m.warningCount = 0 /\ m.fatalCount = 0
          /\ m.geometryDegraded = FALSE /\ m.namingDegraded = FALSE
        BY <2>1 DEF Collectors
    <2>3. Cleared(c) = [m EXCEPT !.generation = @ + 1]
        BY DEF Cleared
    <2> HIDE DEF m
    <2> QED BY <2>1, <2>2, <2>3 DEF Collectors
<1>2. CountersOf(Cleared(c))
    BY <1>1, EmptyCounters
<1> QED BY <1>1, <1>2, SoundCounters

LEMMA EffectiveCapType ==
    ASSUME NEW cap \in Caps PROVE EffectiveCap(cap) \in Nat \ {0}
  BY DiagnosticsAssumption DEF DiagnosticsAssumption, EffectiveCap

LEMMA NewCollectorSound ==
    ASSUME NEW cap \in Caps
    PROVE  /\ Sound(NewCollector(cap))
           /\ NewCollector(cap).diagnostics = <<>>
           /\ NewCollector(cap).maxDiagnostics \in Nat \ {0}
<1>1. <<>> \in Seq(Diagnostic) /\ EffectiveCap(cap) \in Nat \ {0}
    BY EffectiveCapType
<1>2. /\ NewCollector(cap) \in Collectors
      /\ NewCollector(cap).diagnostics = <<>>
      /\ NewCollector(cap).maxDiagnostics = EffectiveCap(cap)
      /\ NewCollector(cap).errorCount = 0 /\ NewCollector(cap).warningCount = 0
      /\ NewCollector(cap).fatalCount = 0
      /\ NewCollector(cap).geometryDegraded = FALSE
      /\ NewCollector(cap).namingDegraded = FALSE
    BY <1>1 DEF NewCollector, Collectors
<1>3. CountersOf(NewCollector(cap))
    BY <1>2, EmptyCounters
<1> QED BY <1>1, <1>2, <1>3, SoundCounters

-----------------------------------------------------------------------------
(* The scopes stay nested. *)

(* ScopesNest, and no scope is of a generation yet to come: without that   *)
(* a clear could make a stale scope current again.                         *)
NestIn(list, c) ==
    /\ \A i \in DOMAIN list : list[i].generation <= c.generation
    /\ \A i, j \in DOMAIN list :
          i <= j /\ ~Stale(list[i], c) /\ ~Stale(list[j], c) =>
            /\ list[i].startIndex <= list[j].startIndex
            /\ list[j].startIndex <= Len(c.diagnostics)

(* Scopes that keep what they remember stay nested while the vector grows. *)
LEMMA NestCarried ==
    ASSUME NEW c \in Collectors, NEW e \in Collectors,
           e.generation = c.generation, Len(e.diagnostics) >= Len(c.diagnostics),
           NEW old \in Seq(Scopes), NEW new \in Seq(Scopes),
           Len(new) <= Len(old),
           \A i \in DOMAIN new : /\ new[i].startIndex = old[i].startIndex
                                 /\ new[i].generation = old[i].generation,
           NestIn(old, c)
    PROVE  NestIn(new, e)
<1>1. \A i \in DOMAIN new : i \in DOMAIN old
    OBVIOUS
<1>2. \A i \in DOMAIN new : Stale(new[i], e) <=> Stale(old[i], c)
    BY DEF Stale
<1>3. \A i \in DOMAIN new : new[i].generation <= e.generation
    BY <1>1 DEF NestIn
<1>4. /\ Len(c.diagnostics) \in Nat /\ Len(e.diagnostics) \in Nat
      /\ \A i \in DOMAIN old : old[i].startIndex \in Nat
    <2>1. c.diagnostics \in Seq(Diagnostic) /\ e.diagnostics \in Seq(Diagnostic)
        BY DEF Collectors
    <2>2. \A i \in DOMAIN old : old[i] \in Scopes
        OBVIOUS
    <2>3. \A scope \in Scopes : scope.startIndex \in Nat
        BY DEF Scopes
    <2> QED BY <2>1, <2>2, <2>3
<1>5. ASSUME NEW i \in DOMAIN new, NEW j \in DOMAIN new,
             i <= j, ~Stale(new[i], e), ~Stale(new[j], e)
      PROVE  /\ new[i].startIndex <= new[j].startIndex
             /\ new[j].startIndex <= Len(e.diagnostics)
    <2>1. /\ old[i].startIndex <= old[j].startIndex
          /\ old[j].startIndex <= Len(c.diagnostics)
        BY <1>1, <1>2, <1>5 DEF NestIn
    <2> QED BY <1>1, <1>4, <2>1
<1> QED BY <1>3, <1>5 DEF NestIn

-----------------------------------------------------------------------------
(* The inductive invariant *)

CollectorInv ==
    /\ DGTypeOK
    /\ Sound(collector)
    /\ NestIn(scopes, collector)

LEMMA ResultType ==
    ASSUME NEW kind \in {"none", "makeResult", "makeFailure"}, NEW ok \in BOOLEAN,
           NEW scope \in Scopes, NEW c, NEW told
    PROVE  ResultOf(kind, ok, scope, c, told)
             \in [kind : {"none", "makeResult", "makeFailure"}, ok : BOOLEAN,
                  hasErrors : BOOLEAN, erred : BOOLEAN, lost : BOOLEAN]
<1>1. HasErrors(Extracted(scope, c)) \in BOOLEAN
    BY DEF HasErrors
<1>2. Erred(scope, told) \in BOOLEAN
    BY DEF Erred
<1>3. LostTo(scope, c) \in BOOLEAN
    BY DEF LostTo
<1> QED BY <1>1, <1>2, <1>3 DEF ResultOf

LEMMA NoResultType ==
    NoResult \in [kind : {"none", "makeResult", "makeFailure"}, ok : BOOLEAN,
                  hasErrors : BOOLEAN, erred : BOOLEAN, lost : BOOLEAN]
  BY DEF NoResult

LEMMA InitIInv == DGInit => CollectorInv
<1> SUFFICES ASSUME DGInit PROVE CollectorInv
    OBVIOUS
<1>1. PICK cap \in Caps : collector = NewCollector(cap)
    BY DEF DGInit
<1>2. Sound(collector)
    BY <1>1, NewCollectorSound
<1>3. DGTypeOK
    BY <1>2, NoResultType DEF DGTypeOK, DGInit, Sound
<1>4. NestIn(scopes, collector)
    BY DEF NestIn, DGInit
<1> QED BY <1>2, <1>3, <1>4 DEF CollectorInv

(* The top scope, observed, remembers what it remembered. *)
LEMMA ObservedTop ==
    ASSUME DGTypeOK, Live, NEW c
    PROVE  LET new == WithTop(Observed(Top, c))
           IN  /\ Top \in Scopes
               /\ new \in Seq(Scopes)
               /\ Len(new) = Len(scopes)
               /\ \A i \in DOMAIN new : /\ new[i].startIndex = scopes[i].startIndex
                                        /\ new[i].generation = scopes[i].generation
<1> DEFINE o == Observed(Top, c)
<1>1. scopes \in Seq(Scopes) /\ scopes # <<>>
    BY DEF DGTypeOK, Live
<1>2. Len(scopes) \in 1..Len(scopes)
    BY <1>1
<1>3. Top \in Scopes
    BY <1>1, <1>2 DEF Top
<1>4. (Top.poisoned \/ Stale(Top, c)) \in BOOLEAN
    OBVIOUS
<1>5. /\ o \in Scopes
      /\ o.startIndex = Top.startIndex
      /\ o.generation = Top.generation
    <2> DEFINE p == Top.poisoned \/ Stale(Top, c)
    <2>1. o = [Top EXCEPT !.extracted = TRUE, !.poisoned = p]
        BY <1>3 DEF Observed, Scopes
    <2> HIDE DEF p
    <2> QED BY <1>3, <1>4, <2>1 DEF Scopes, p
<1> HIDE DEF o
<1>6. WithTop(o) = [scopes EXCEPT ![Len(scopes)] = o]
    BY DEF WithTop
<1>7. /\ WithTop(o) \in Seq(Scopes)
      /\ Len(WithTop(o)) = Len(scopes)
      /\ \A i \in 1..Len(scopes) : WithTop(o)[i] = IF i = Len(scopes) THEN o ELSE scopes[i]
    BY <1>1, <1>2, <1>5, <1>6
<1>8. Top = scopes[Len(scopes)]
    BY DEF Top
<1> HIDE DEF Top
<1>9. DOMAIN WithTop(o) = 1..Len(scopes)
    BY <1>7
<1>10. \A i \in DOMAIN WithTop(o) : /\ WithTop(o)[i].startIndex = scopes[i].startIndex
                                    /\ WithTop(o)[i].generation = scopes[i].generation
    BY <1>5, <1>7, <1>8, <1>9
<1> QED BY <1>3, <1>7, <1>10 DEF o

LEMMA TypeFacts ==
    ASSUME DGTypeOK
    PROVE  /\ collector \in Collectors
           /\ collector.diagnostics \in Seq(Diagnostic)
           /\ collector.generation \in Nat
           /\ collector.maxDiagnostics \in Nat \ {0}
           /\ collector.overflowCount \in Nat
           /\ scopes \in Seq(Scopes)
           /\ reported \in Seq(Diagnostic)
  BY DEF DGTypeOK, Collectors

(* report() under live scopes. *)
LEMMA ReportStep ==
    ASSUME CollectorInv, NEW d \in Diagnostic,
           collector' = Reported(collector, d),
           reported' = Append(reported, d),
           scopes' \in Seq(Scopes), Len(scopes') <= Len(scopes),
           \A i \in DOMAIN scopes' : /\ scopes'[i].startIndex = scopes[i].startIndex
                                    /\ scopes'[i].generation = scopes[i].generation,
           result' \in [kind : {"none", "makeResult", "makeFailure"}, ok : BOOLEAN,
                        hasErrors : BOOLEAN, erred : BOOLEAN, lost : BOOLEAN]
    PROVE  CollectorInv'
<1>1. DGTypeOK /\ Sound(collector) /\ NestIn(scopes, collector)
    BY DEF CollectorInv
<1>2. collector \in Collectors /\ scopes \in Seq(Scopes) /\ reported \in Seq(Diagnostic)
    BY <1>1, TypeFacts
<1>3. /\ Sound(collector')
      /\ collector'.generation = collector.generation
      /\ Len(collector'.diagnostics) >= Len(collector.diagnostics)
    BY <1>1, <1>2, ReportedSound
<1>4. collector' \in Collectors
    BY <1>3 DEF Sound
<1>5. NestIn(scopes', collector')
    BY <1>1, <1>2, <1>3, <1>4, NestCarried
<1>6. reported' \in Seq(Diagnostic)
    BY <1>2
<1>7. DGTypeOK'
    BY <1>4, <1>6 DEF DGTypeOK
<1> QED BY <1>3, <1>5, <1>7 DEF CollectorInv

LEMMA StepReport ==
    ASSUME CollectorInv, NEW d \in Reportable, Report(d) PROVE CollectorInv'
<1>1. d \in Diagnostic
    BY DiagnosticsAssumption DEF DiagnosticsAssumption
<1>2. scopes \in Seq(Scopes)
    BY TypeFacts DEF CollectorInv
<1> QED BY <1>1, <1>2, ReportStep, NoResultType DEF Report

LEMMA StepReportOutOfMemory ==
    ASSUME CollectorInv, NEW d \in Reportable, ReportOutOfMemory(d) PROVE CollectorInv'
<1>1. d \in Diagnostic
    BY DiagnosticsAssumption DEF DiagnosticsAssumption
<1>2. /\ collector \in Collectors /\ Sound(collector) /\ NestIn(scopes, collector)
      /\ scopes \in Seq(Scopes) /\ reported \in Seq(Diagnostic)
    BY TypeFacts DEF CollectorInv
<1> DEFINE counted == [collector EXCEPT !.overflowCount = @ + 1]
<1>3. CASE Len(collector.diagnostics) >= collector.maxDiagnostics
    <2>1. collector' = Reported(collector, d)
        BY <1>3 DEF ReportOutOfMemory, ReportedWithoutMemory, Reported
    <2> QED BY <1>1, <1>2, <2>1, ReportStep, NoResultType DEF ReportOutOfMemory
<1>4. CASE ~(Len(collector.diagnostics) >= collector.maxDiagnostics)
    <2>1. collector' = counted
        BY <1>4 DEF ReportOutOfMemory, ReportedWithoutMemory
    <2>2. /\ counted \in Collectors
          /\ counted.generation = collector.generation
          /\ counted.diagnostics = collector.diagnostics
          /\ CountersOf(counted)
        <3>1. CountersOf(collector)
            BY <1>2, SoundCounters
        <3>2. collector.overflowCount + 1 \in Nat
            BY <1>2 DEF Collectors
        <3> QED BY <1>2, <3>1, <3>2 DEF Collectors, CountersOf
    <2> HIDE DEF counted
    <2>3. Sound(collector')
        BY <2>1, <2>2, SoundCounters
    <2>4. scopes' = scopes
        BY DEF ReportOutOfMemory
    <2>5. Len(collector.diagnostics) \in Nat
        BY TypeFacts DEF CollectorInv
    <2>6. Len(counted.diagnostics) >= Len(collector.diagnostics)
        BY <2>2, <2>5
    <2>7. Len(scopes) <= Len(scopes)
        BY <1>2
    <2>8. NestIn(scopes', collector')
        BY <1>2, <2>1, <2>2, <2>4, <2>6, <2>7, NestCarried
    <2>9. DGTypeOK'
        BY <1>1, <1>2, <2>1, <2>2, NoResultType DEF DGTypeOK, ReportOutOfMemory
    <2> QED BY <2>3, <2>8, <2>9 DEF CollectorInv
<1> QED BY <1>3, <1>4

LEMMA StepMakeFailure ==
    ASSUME CollectorInv, NEW d \in Reportable, MakeFailure(d) PROVE CollectorInv'
<1>1. d \in Diagnostic
    BY DiagnosticsAssumption DEF DiagnosticsAssumption
<1>2. DGTypeOK /\ Live
    BY DEF CollectorInv, MakeFailure
<1>3. scopes \in Seq(Scopes)
    BY <1>2, TypeFacts
<1> DEFINE new == WithTop(Observed(Top, collector'))
<1>4. /\ Top \in Scopes
      /\ new \in Seq(Scopes)
      /\ Len(new) = Len(scopes)
      /\ \A i \in DOMAIN new : /\ new[i].startIndex = scopes[i].startIndex
                               /\ new[i].generation = scopes[i].generation
    BY <1>2, ObservedTop
<1>5. /\ scopes' = new
      /\ collector' = Reported(collector, d)
      /\ reported' = Append(reported, d)
      /\ result' = ResultOf("makeFailure", FALSE, Top, collector', reported')
    BY DEF MakeFailure
<1>6. result' \in [kind : {"none", "makeResult", "makeFailure"}, ok : BOOLEAN,
                   hasErrors : BOOLEAN, erred : BOOLEAN, lost : BOOLEAN]
    BY <1>4, <1>5, ResultType
<1> HIDE DEF new
<1>7. Len(scopes') <= Len(scopes)
    BY <1>3, <1>4, <1>5
<1> QED BY <1>1, <1>4, <1>5, <1>6, <1>7, ReportStep

LEMMA StepMakeResult ==
    ASSUME CollectorInv, MakeResult PROVE CollectorInv'
<1>1. /\ DGTypeOK /\ Live /\ Sound(collector) /\ NestIn(scopes, collector)
      /\ UNCHANGED <<collector, reported>>
    BY DEF CollectorInv, MakeResult
<1>2. /\ collector \in Collectors /\ scopes \in Seq(Scopes)
      /\ Len(collector.diagnostics) \in Nat
    BY <1>1, TypeFacts
<1> DEFINE new == WithTop(Observed(Top, collector))
<1>3. /\ Top \in Scopes
      /\ new \in Seq(Scopes)
      /\ Len(new) = Len(scopes)
      /\ \A i \in DOMAIN new : /\ new[i].startIndex = scopes[i].startIndex
                               /\ new[i].generation = scopes[i].generation
    BY <1>1, ObservedTop
<1>4. scopes' = new
    BY DEF MakeResult
<1>5. (~HasErrors(Extracted(Top, collector))) \in BOOLEAN
    OBVIOUS
<1>6. result' \in [kind : {"none", "makeResult", "makeFailure"}, ok : BOOLEAN,
                   hasErrors : BOOLEAN, erred : BOOLEAN, lost : BOOLEAN]
    BY <1>3, <1>5, ResultType DEF MakeResult
<1> HIDE DEF new
<1>7. Len(new) <= Len(scopes) /\ Len(collector.diagnostics) >= Len(collector.diagnostics)
    BY <1>2, <1>3
<1>8. NestIn(scopes', collector)
    BY <1>1, <1>2, <1>3, <1>4, <1>7, NestCarried
<1>9. DGTypeOK'
    BY <1>1, <1>3, <1>4, <1>6 DEF DGTypeOK
<1>10. Sound(collector') /\ NestIn(scopes', collector')
    BY <1>1, <1>8
<1> QED BY <1>9, <1>10 DEF CollectorInv

LEMMA MovedScope ==
    ASSUME NEW scope \in Scopes, NEW flag \in BOOLEAN
    PROVE  /\ [scope EXCEPT !.erred = flag, !.from = 0] \in Scopes
           /\ [scope EXCEPT !.erred = flag, !.from = 0].generation = scope.generation
  BY DEF Scopes

LEMMA StepClear ==
    ASSUME CollectorInv, Clear PROVE CollectorInv'
<1>1. /\ collector \in Collectors /\ scopes \in Seq(Scopes)
      /\ collector.generation \in Nat
    BY TypeFacts DEF CollectorInv
<1>2. /\ Sound(collector')
      /\ collector'.generation = collector.generation + 1
    BY <1>1, ClearedSound DEF Clear
<1> DEFINE moved == [i \in DOMAIN scopes |->
                        [scopes[i] EXCEPT !.erred = Erred(scopes[i], reported), !.from = 0]]
<1>3. scopes' = moved
    BY DEF Clear
<1>4. ASSUME NEW i \in DOMAIN scopes
      PROVE  moved[i] \in Scopes /\ moved[i].generation = scopes[i].generation
    <2> DEFINE erred == Erred(scopes[i], reported)
    <2>1. erred \in BOOLEAN
        BY DEF Erred
    <2>2. scopes[i] \in Scopes
        BY <1>1
    <2> QED BY <2>1, <2>2, MovedScope
<1>5. DOMAIN moved = 1..Len(scopes)
    BY <1>1
<1> HIDE DEF moved
<1>6. DOMAIN scopes = 1..Len(scopes) /\ Len(scopes) \in Nat
    BY <1>1
<1>7. moved \in Seq(Scopes)
    <2>1. moved = [i \in 1..Len(scopes) |-> moved[i]]
        BY <1>6 DEF moved
    <2>2. \A i \in 1..Len(scopes) : moved[i] \in Scopes
        BY <1>4, <1>6
    <2> QED BY <1>6, <2>1, <2>2, IsASeq
<1>8. \A i \in DOMAIN moved : /\ moved[i].generation <= collector.generation
                              /\ moved[i].generation \in Nat
    <2>1. \A i \in DOMAIN scopes : scopes[i].generation <= collector.generation
        BY DEF CollectorInv, NestIn
    <2>2. \A scope \in Scopes : scope.generation \in Nat
        BY DEF Scopes
    <2> QED BY <1>4, <1>5, <1>6, <2>1, <2>2
<1>9. NestIn(moved, collector')
    <2>1. \A i \in DOMAIN moved : Stale(moved[i], collector')
        BY <1>1, <1>2, <1>8 DEF Stale
    <2>2. \A i \in DOMAIN moved : moved[i].generation <= collector'.generation
        BY <1>1, <1>2, <1>8
    <2> QED BY <2>1, <2>2 DEF NestIn
<1>10. DGTypeOK'
    <2>1. collector' \in Collectors
        BY <1>2 DEF Sound
    <2>2. scopes' \in Seq(Scopes)
        BY <1>3, <1>7
    <2>3. reported' = <<>> /\ result' = NoResult
        BY DEF Clear
    <2> QED BY <2>1, <2>2, <2>3, NoResultType DEF DGTypeOK
<1> QED BY <1>2, <1>3, <1>9, <1>10 DEF CollectorInv

LEMMA StepSetMaxDiagnostics ==
    ASSUME CollectorInv, NEW cap \in Caps, SetMaxDiagnostics(cap) PROVE CollectorInv'
<1>1. /\ collector \in Collectors /\ scopes \in Seq(Scopes)
      /\ Len(collector.diagnostics) \in Nat
      /\ Sound(collector) /\ NestIn(scopes, collector) /\ DGTypeOK
    BY TypeFacts DEF CollectorInv
<1> DEFINE limit == EffectiveCap(cap)
<1>2. limit \in Nat \ {0}
    BY EffectiveCapType
<1>3. collector' = [collector EXCEPT !.maxDiagnostics = limit]
    BY DEF SetMaxDiagnostics
<1> HIDE DEF limit
<1>4. CountersOf(collector)
    BY <1>1, SoundCounters
<1>5. /\ collector' \in Collectors
      /\ collector'.generation = collector.generation
      /\ collector'.diagnostics = collector.diagnostics
      /\ CountersOf(collector')
    BY <1>1, <1>2, <1>3, <1>4 DEF Collectors, CountersOf
<1>6. Sound(collector')
    BY <1>5, SoundCounters
<1>7. scopes' = scopes /\ reported' = reported /\ result' = NoResult
    BY DEF SetMaxDiagnostics
<1>8. NestIn(scopes', collector')
    BY <1>1, <1>5, <1>7 DEF NestIn, Stale
<1>9. DGTypeOK'
    BY <1>1, <1>5, <1>7, NoResultType DEF DGTypeOK
<1> QED BY <1>6, <1>8, <1>9 DEF CollectorInv

LEMMA StepOpenScope ==
    ASSUME CollectorInv, OpenScope PROVE CollectorInv'
<1>1. /\ collector \in Collectors /\ scopes \in Seq(Scopes)
      /\ collector.generation \in Nat /\ collector.overflowCount \in Nat
      /\ Len(collector.diagnostics) \in Nat /\ Len(reported) \in Nat
      /\ Sound(collector) /\ NestIn(scopes, collector) /\ DGTypeOK
    BY TypeFacts DEF CollectorInv
<1> DEFINE scope == [startIndex |-> Len(collector.diagnostics),
                     generation |-> collector.generation,
                     extracted |-> FALSE, poisoned |-> FALSE, erred |-> FALSE,
                     from |-> Len(reported), overflowCount |-> collector.overflowCount]
           n == Len(scopes)
<1>2. /\ scope \in Scopes
      /\ scope.startIndex = Len(collector.diagnostics)
      /\ scope.generation = collector.generation
    BY <1>1 DEF Scopes
<1>3. scopes' = Append(scopes, scope)
    BY DEF OpenScope
<1> HIDE DEF scope
<1>4. /\ scopes' \in Seq(Scopes)
      /\ n \in Nat
      /\ DOMAIN scopes = 1..n
      /\ DOMAIN scopes' = 1..(n + 1)
      /\ \A i \in 1..n : scopes'[i] = scopes[i]
      /\ scopes'[n + 1] = scope
    BY <1>1, <1>2, <1>3, AppendProperties
<1> HIDE DEF n
<1>5. \A i \in DOMAIN scopes' : scopes'[i].generation <= collector.generation
    BY <1>1, <1>2, <1>4 DEF NestIn
<1>6. ASSUME NEW i \in DOMAIN scopes', NEW j \in DOMAIN scopes', i <= j,
             ~Stale(scopes'[i], collector), ~Stale(scopes'[j], collector)
      PROVE  /\ scopes'[i].startIndex <= scopes'[j].startIndex
             /\ scopes'[j].startIndex <= Len(collector.diagnostics)
    <2>1. CASE j \in 1..n
        <3>1. i \in 1..n
            BY <1>4, <1>6, <2>1
        <3> QED BY <1>1, <1>4, <1>6, <2>1, <3>1 DEF NestIn
    <2>2. CASE j = n + 1 /\ i \in 1..n
        <3>1. scopes[i].startIndex <= Len(collector.diagnostics)
            BY <1>1, <1>4, <1>6, <2>2 DEF NestIn
        <3> QED BY <1>1, <1>2, <1>4, <2>2, <3>1
    <2>3. CASE j = n + 1 /\ i = n + 1
        BY <1>1, <1>2, <1>4, <2>3
    <2> QED BY <1>4, <1>6, <2>1, <2>2, <2>3
<1>7. NestIn(scopes', collector)
    BY <1>5, <1>6 DEF NestIn
<1>8. collector' = collector /\ reported' = reported /\ result' = NoResult
    BY DEF OpenScope
<1>9. DGTypeOK'
    BY <1>1, <1>4, <1>8, NoResultType DEF DGTypeOK
<1> QED BY <1>1, <1>7, <1>8, <1>9 DEF CollectorInv

LEMMA StepCloseScope ==
    ASSUME CollectorInv, CloseScope PROVE CollectorInv'
<1>1. /\ collector \in Collectors /\ scopes \in Seq(Scopes)
      /\ Len(collector.diagnostics) \in Nat
      /\ scopes # <<>>
      /\ Sound(collector) /\ NestIn(scopes, collector) /\ DGTypeOK
    BY TypeFacts DEF CollectorInv, CloseScope, Live
<1>2. scopes' = SubSeq(scopes, 1, Len(scopes) - 1) /\ result' = NoResult
    BY DEF CloseScope
<1>3. Len(scopes) \in Nat /\ Len(scopes) > 0
    BY <1>1
<1>4. /\ scopes' \in Seq(Scopes)
      /\ Len(scopes') = Len(scopes) - 1
      /\ \A i \in 1..(Len(scopes) - 1) : scopes'[i] = scopes[i]
    <2> DEFINE n == Len(scopes) - 1
    <2>1. n \in Nat /\ 1 \in Int /\ n \in Int
        BY <1>3
    <2>2. \A i \in 1..n : scopes[i] \in Scopes
        BY <1>1
    <2>3. scopes' = SubSeq(scopes, 1, n)
        BY <1>2
    <2> HIDE DEF n
    <2>4. /\ SubSeq(scopes, 1, n) \in Seq(Scopes)
          /\ Len(SubSeq(scopes, 1, n)) = IF 1 <= n THEN n - 1 + 1 ELSE 0
          /\ \A i \in 1..(n - 1 + 1) : SubSeq(scopes, 1, n)[i] = scopes[1 + i - 1]
        BY <2>1, <2>2, SubSeqProperties
    <2>5. /\ Len(scopes') = n
          /\ \A i \in 1..n : scopes'[i] = scopes[i]
        BY <2>1, <2>3, <2>4
    <2> QED BY <2>3, <2>4, <2>5 DEF n
<1>5. /\ Len(scopes') <= Len(scopes)
      /\ \A i \in DOMAIN scopes' : /\ scopes'[i].startIndex = scopes[i].startIndex
                                   /\ scopes'[i].generation = scopes[i].generation
    BY <1>3, <1>4
<1>6. CASE UNCHANGED <<collector, reported>>
    <2>1. Len(collector.diagnostics) >= Len(collector.diagnostics)
        BY <1>1
    <2>2. NestIn(scopes', collector)
        BY <1>1, <1>4, <1>5, <2>1, NestCarried
    <2>3. DGTypeOK'
        BY <1>1, <1>2, <1>4, <1>6, NoResultType DEF DGTypeOK
    <2> QED BY <1>1, <1>6, <2>2, <2>3 DEF CollectorInv
<1>7. CASE /\ collector' = Reported(collector, Entry("Warning", "REPORTED"))
           /\ reported' = Append(reported, Entry("Warning", "REPORTED"))
    <2>1. Entry("Warning", "REPORTED") \in Diagnostic
        BY EntryType DEF Severities, Codes
    <2> QED BY <1>2, <1>4, <1>5, <1>7, <2>1, ReportStep, NoResultType
<1> QED BY <1>6, <1>7 DEF CloseScope

LEMMA NextIInv == CollectorInv /\ [DGNext]_dgVars => CollectorInv'
<1> SUFFICES ASSUME CollectorInv, [DGNext]_dgVars PROVE CollectorInv'
    OBVIOUS
<1>1. CASE \E d \in Reportable : Report(d) \/ ReportOutOfMemory(d) \/ MakeFailure(d)
    BY <1>1, StepReport, StepReportOutOfMemory, StepMakeFailure
<1>2. CASE Clear
    BY <1>2, StepClear
<1>3. CASE \E cap \in Caps : SetMaxDiagnostics(cap)
    BY <1>3, StepSetMaxDiagnostics
<1>4. CASE OpenScope
    BY <1>4, StepOpenScope
<1>5. CASE MakeResult
    BY <1>5, StepMakeResult
<1>6. CASE CloseScope
    BY <1>6, StepCloseScope
<1>7. CASE UNCHANGED dgVars
    BY <1>7 DEF CollectorInv, DGTypeOK, dgVars
<1> QED BY <1>1, <1>2, <1>3, <1>4, <1>5, <1>6, <1>7 DEF DGNext

LEMMA IInvAlways == DGSpec => []CollectorInv
<1> QED BY InitIInv, NextIInv, PTL DEF DGSpec

-----------------------------------------------------------------------------
(* The collector, its scopes and its results stay well typed.              *)
THEOREM CollectorTypeCorrect == DGSpec => []DGTypeOK
<1>1. CollectorInv => DGTypeOK
    BY DEF CollectorInv
<1> QED BY <1>1, IInvAlways, PTL

(* However reports, drops, markers, clears and cap changes follow each     *)
(* other, the incremental counters of diagnostic.h say what a recount of   *)
(* the vector says.                                                        *)
THEOREM CountersAlwaysMatch == DGSpec => []CountersMatch
<1>1. CollectorInv => CountersMatch
    BY DEF CollectorInv, Sound, CountersMatch
<1> QED BY <1>1, IInvAlways, PTL

(* At any depth of nesting and after any clears, a scope that is not       *)
(* poisoned starts inside the vector and not before an outer one.          *)
THEOREM ScopesAlwaysNest == DGSpec => []ScopesNest
<1>1. CollectorInv => ScopesNest
    BY DEF CollectorInv, NestIn, ScopesNest
<1> QED BY <1>1, IInvAlways, PTL

-----------------------------------------------------------------------------
(* What a step of the collector does to the vector *)
LEMMA ReportedKeeps ==
    ASSUME NEW c \in Collectors, Sound(c), NEW d \in Diagnostic
    PROVE  WithinCap(c, Reported(c, d)) /\ Keeps(c, Reported(c, d))
<1> DEFINE r == Reported(c, d)
<1>1. /\ c.diagnostics \in Seq(Diagnostic) /\ c.maxDiagnostics \in Nat
      /\ Len(c.diagnostics) \in Nat
    BY DEF Collectors
<1>2. WithinCap(c, r)
    BY <1>1, ReportedSound DEF WithinCap
<1>3. Len(r.diagnostics) >= Len(c.diagnostics)
    BY ReportedSound
<1>4. ASSUME NEW i \in DOMAIN c.diagnostics
      PROVE  \/ r.diagnostics[i] = c.diagnostics[i]
             \/ i = Len(c.diagnostics) /\ r.truncated /\ ~c.truncated
    <2>1. CASE Len(c.diagnostics) >= c.maxDiagnostics
        <3> DEFINE counted == [c EXCEPT !.overflowCount = @ + 1]
        <3>1. r = Overflowed(c)
            BY <2>1 DEF Reported
        <3>2. CASE c.truncated
            BY <3>1, <3>2 DEF Overflowed, Collectors
        <3>3. CASE ~c.truncated
            <4> DEFINE t == [counted EXCEPT !.truncated = TRUE]
            <4>1. r = Marked(t)
                BY <3>1, <3>3 DEF Overflowed
            <4>2. t.diagnostics = c.diagnostics /\ t.truncated /\ t \in Collectors
                <5>1. counted \in Collectors /\ counted.diagnostics = c.diagnostics
                    BY DEF Collectors
                <5> HIDE DEF counted
                <5> QED BY <5>1 DEF Collectors
            <4> HIDE DEF t
            <4>3. CASE t.diagnostics = <<>>
                <5>1. r = t
                    BY <4>1, <4>3 DEF Marked
                <5> QED BY <4>2, <5>1
            <4>4. CASE t.diagnostics # <<>>
                <5>1. /\ r.diagnostics = [t.diagnostics EXCEPT ![Len(t.diagnostics)] = Marker]
                      /\ r.truncated
                    BY <4>1, <4>2, <4>4 DEF Marked, Recounted, Collectors
                <5> QED BY <1>1, <3>3, <4>2, <5>1
            <4> QED BY <4>3, <4>4
        <3> QED BY <3>2, <3>3
    <2>2. CASE ~(Len(c.diagnostics) >= c.maxDiagnostics)
        <3>1. r.diagnostics = Append(c.diagnostics, d)
            BY <2>2 DEF Reported, Bumped, Collectors
        <3> QED BY <1>1, <3>1
    <2> QED BY <2>1, <2>2
<1> HIDE DEF r
<1>5. Keeps(c, r)
    BY <1>3, <1>4 DEF Keeps
<1> QED BY <1>2, <1>5 DEF r

LEMMA SameKept ==
    ASSUME NEW c \in Collectors, NEW e, e.diagnostics = c.diagnostics
    PROVE  WithinCap(c, e) /\ Keeps(c, e)
<1>1. c.diagnostics \in Seq(Diagnostic) /\ Len(c.diagnostics) \in Nat
    BY DEF Collectors
<1> QED BY <1>1 DEF WithinCap, Keeps

LEMMA StepKeeps ==
    ASSUME CollectorInv, [DGNext]_dgVars
    PROVE  WithinCap(collector, collector') /\ Keeps(collector, collector')
<1>1. collector \in Collectors /\ Sound(collector)
    BY TypeFacts DEF CollectorInv
<1>2. ASSUME NEW d \in Diagnostic, collector' = Reported(collector, d)
      PROVE  WithinCap(collector, collector') /\ Keeps(collector, collector')
    BY <1>1, <1>2, ReportedKeeps
<1>3. Reportable \subseteq Diagnostic
    BY DiagnosticsAssumption DEF DiagnosticsAssumption
<1>4. CASE \E d \in Reportable : Report(d) \/ MakeFailure(d)
    BY <1>2, <1>3, <1>4 DEF Report, MakeFailure
<1>5. CASE \E d \in Reportable : ReportOutOfMemory(d)
    <2>1. PICK d \in Reportable : ReportOutOfMemory(d)
        BY <1>5
    <2>2. CASE Len(collector.diagnostics) >= collector.maxDiagnostics
        BY <1>2, <1>3, <2>1, <2>2 DEF ReportOutOfMemory, ReportedWithoutMemory, Reported
    <2>3. CASE ~(Len(collector.diagnostics) >= collector.maxDiagnostics)
        <3>1. collector' = [collector EXCEPT !.overflowCount = @ + 1]
            BY <2>1, <2>3 DEF ReportOutOfMemory, ReportedWithoutMemory
        <3>2. collector'.diagnostics = collector.diagnostics
            BY <1>1, <3>1 DEF Collectors
        <3> QED BY <1>1, <3>2, SameKept
    <2> QED BY <2>2, <2>3
<1>6. CASE Clear
    <2>1. /\ collector'.diagnostics = <<>>
          /\ collector'.generation = collector.generation + 1
          /\ collector.generation \in Nat /\ Len(collector.diagnostics) \in Nat
        <3>1. collector.diagnostics \in Seq(Diagnostic) /\ collector.generation \in Nat
            BY <1>1 DEF Collectors
        <3>2. Len(collector.diagnostics) \in Nat
            BY <3>1
        <3>3. collector' = Cleared(collector)
            BY <1>6 DEF Clear
        <3> QED BY <1>1, <3>1, <3>2, <3>3 DEF Cleared, Collectors
    <2>2. Len(collector'.diagnostics) = 0
        BY <2>1
    <2>3. WithinCap(collector, collector')
        BY <2>1, <2>2 DEF WithinCap
    <2>4. Keeps(collector, collector')
        BY <2>1 DEF Keeps
    <2> QED BY <2>3, <2>4
<1>7. CASE \E cap \in Caps : SetMaxDiagnostics(cap)
    <2>1. collector'.diagnostics = collector.diagnostics
        BY <1>1, <1>7 DEF SetMaxDiagnostics, Collectors
    <2> QED BY <1>1, <2>1, SameKept
<1>8. CASE CloseScope
    <2>1. Entry("Warning", "REPORTED") \in Diagnostic
        BY EntryType DEF Severities, Codes
    <2>2. \/ collector' = collector
          \/ collector' = Reported(collector, Entry("Warning", "REPORTED"))
        BY <1>8 DEF CloseScope
    <2> QED BY <1>1, <1>2, <2>1, <2>2, SameKept
<1>9. CASE OpenScope \/ MakeResult \/ UNCHANGED dgVars
    <2>1. collector' = collector
        BY <1>9 DEF OpenScope, MakeResult, dgVars
    <2> QED BY <1>1, <2>1, SameKept
<1> QED BY <1>4, <1>5, <1>6, <1>7, <1>8, <1>9 DEF DGNext

(* "diagnostics_.size() must never exceed maxDiagnostics_" (diagnostic.cpp)*)
(* holds of whatever is added, whichever caps are set in between.          *)
THEOREM CapAlwaysRespected == DGSpec => CapRespected
<1>1. CollectorInv /\ [DGNext]_dgVars => [WithinCap(collector, collector')]_dgVars
    BY StepKeeps
<1> QED BY <1>1, IInvAlways, PTL DEF DGSpec, CapRespected

(* Until a clear no report displaces what was kept before it, but for the  *)
(* one marker.                                                             *)
THEOREM FirstReportsKept == DGSpec => FirstReportedKept
<1>1. CollectorInv /\ [DGNext]_dgVars => [Keeps(collector, collector')]_dgVars
    BY StepKeeps
<1> QED BY <1>1, IInvAlways, PTL DEF DGSpec, FirstReportedKept

(* What the runs check as CollectorConsistent: types, counters equal to a  *)
(* recount of the vector, and scopes that nest (diagnostic.h).             *)
THEOREM CollectorAlwaysConsistent == DGSpec => []CollectorConsistent
<1>1. DGTypeOK /\ CountersMatch /\ ScopesNest => CollectorConsistent
    BY DEF CollectorConsistent
<1> QED BY <1>1, CollectorTypeCorrect, CountersAlwaysMatch, ScopesAlwaysNest, PTL

(* What the runs check as KeptUpToCap: the vector of DiagnosticCollector   *)
(* stays within the cap and keeps what was reported first.                 *)
THEOREM AlwaysKeptUpToCap == DGSpec => KeptUpToCap
<1> QED BY CapAlwaysRespected, FirstReportsKept, PTL DEF KeptUpToCap

-----------------------------------------------------------------------------
(* The marker *)

IsMarker(d) == d.code = "DIAG_TRUNCATED"

(* A truncated collector holds one marker, any other none.                 *)
OneMarker(c) ==
    IF c.truncated
    THEN \E k \in DOMAIN c.diagnostics : \A i \in DOMAIN c.diagnostics : IsMarker(c.diagnostics[i]) <=> i = k
    ELSE \A i \in DOMAIN c.diagnostics : ~IsMarker(c.diagnostics[i])

LEMMA MarkersCounted ==
    ASSUME OneMarker(collector)
    PROVE  TruncationMarked
<1> DEFINE list == collector.diagnostics
           S == {i \in DOMAIN list : list[i].code = "DIAG_TRUNCATED"}
<1>1. CASE collector.truncated
    <2>1. PICK k \in DOMAIN list : \A i \in DOMAIN list : IsMarker(list[i]) <=> i = k
        BY <1>1 DEF OneMarker
    <2>2. S = {k}
        BY <2>1 DEF IsMarker
    <2>3. Cardinality(S) = 1
        <3> HIDE DEF S
        <3> QED BY <2>2, FS_Singleton
    <2> QED BY <1>1, <2>3 DEF TruncationMarked
<1>2. CASE ~collector.truncated
    <2>1. S = {}
        BY <1>2 DEF OneMarker, IsMarker
    <2>2. Cardinality(S) = 0
        <3> HIDE DEF S
        <3> QED BY <2>1, FS_EmptySet
    <2> QED BY <1>2, <2>2 DEF TruncationMarked
<1> QED BY <1>1, <1>2

(* A report is appended, or it is counted as lost.                         *)
LEMMA ReportedTakes ==
    ASSUME NEW c \in Collectors, Sound(c), OneMarker(c), NEW d \in Diagnostic, ~IsMarker(d)
    PROVE  LET e == Reported(c, d)
           IN  /\ OneMarker(e) /\ e.generation = c.generation
               /\ \/ e.overflowCount = c.overflowCount /\ e.diagnostics = Append(c.diagnostics, d)
                  \/ e.overflowCount = c.overflowCount + 1
<1> DEFINE r == Reported(c, d)
<1>1. /\ c.diagnostics \in Seq(Diagnostic) /\ c.maxDiagnostics \in Nat \ {0}
      /\ Len(c.diagnostics) \in Nat /\ c.overflowCount \in Nat
    BY DEF Collectors
<1>2. r.generation = c.generation
    BY ReportedSound
<1>3. CASE Len(c.diagnostics) >= c.maxDiagnostics
    <2> DEFINE counted == [c EXCEPT !.overflowCount = @ + 1]
    <2>1. r = Overflowed(c)
        BY <1>3 DEF Reported
    <2>2. CASE c.truncated
        <3>1. r = counted
            BY <2>1, <2>2 DEF Overflowed
        <3>2. r.overflowCount = c.overflowCount + 1 /\ r.diagnostics = c.diagnostics /\ r.truncated = c.truncated
            BY <3>1 DEF Collectors
        <3>3. OneMarker(r)
            <4> HIDE DEF r
            <4> QED BY <3>2 DEF OneMarker
        <3> HIDE DEF r
        <3> QED BY <1>2, <3>2, <3>3 DEF r
    <2>3. CASE ~c.truncated
        <3> DEFINE t == [counted EXCEPT !.truncated = TRUE]
        <3>1. r = Marked(t)
            BY <2>1, <2>3 DEF Overflowed
        <3>2. /\ t.diagnostics = c.diagnostics /\ t.truncated /\ t \in Collectors
              /\ t.overflowCount = c.overflowCount + 1
            <4>1. /\ counted \in Collectors /\ counted.diagnostics = c.diagnostics
                  /\ counted.overflowCount = c.overflowCount + 1
                BY DEF Collectors
            <4> HIDE DEF counted
            <4> QED BY <4>1 DEF Collectors
        <3> HIDE DEF t
        <3>3. Len(c.diagnostics) > 0 /\ c.diagnostics # <<>>
            BY <1>1, <1>3
        <3>4. /\ r.diagnostics = [t.diagnostics EXCEPT ![Len(t.diagnostics)] = Marker]
              /\ r.truncated /\ r.overflowCount = t.overflowCount
            BY <3>1, <3>2, <3>3 DEF Marked, Recounted, Collectors
        <3> DEFINE n == Len(c.diagnostics)
        <3> HIDE DEF r
        <3>5. /\ n \in 1..n /\ DOMAIN r.diagnostics = 1..n /\ DOMAIN c.diagnostics = 1..n
              /\ r.diagnostics[n] = Marker
              /\ \A i \in 1..n : i # n => r.diagnostics[i] = c.diagnostics[i]
            BY <1>1, <3>2, <3>3, <3>4
        <3>6. IsMarker(Marker) /\ \A i \in DOMAIN c.diagnostics : ~IsMarker(c.diagnostics[i])
            BY <2>3 DEF OneMarker, Marker, Entry, IsMarker
        <3> HIDE DEF n
        <3>7. \A i \in DOMAIN r.diagnostics : IsMarker(r.diagnostics[i]) <=> i = n
            BY <3>5, <3>6
        <3>8. OneMarker(r)
            BY <3>4, <3>5, <3>7 DEF OneMarker
        <3> QED BY <1>2, <3>2, <3>4, <3>8 DEF r
    <2> QED BY <2>2, <2>3
<1>4. CASE ~(Len(c.diagnostics) >= c.maxDiagnostics)
    <2>1. /\ r.diagnostics = Append(c.diagnostics, d)
          /\ r.overflowCount = c.overflowCount /\ r.truncated = c.truncated
        BY <1>4 DEF Reported, Bumped, Collectors
    <2> HIDE DEF r
    <2> DEFINE n == Len(c.diagnostics)
    <2>2. /\ n \in Nat /\ DOMAIN c.diagnostics = 1..n /\ DOMAIN r.diagnostics = 1..(n + 1)
          /\ r.diagnostics[n + 1] = d /\ \A i \in 1..n : r.diagnostics[i] = c.diagnostics[i]
        BY <1>1, <2>1
    <2> HIDE DEF n
    <2>3. \A i \in DOMAIN r.diagnostics : i \in DOMAIN c.diagnostics \/ i = n + 1
        BY <2>2
    <2>4. n + 1 \notin DOMAIN c.diagnostics
        BY <2>2
    <2>5. OneMarker(r)
        <3>1. CASE c.truncated
            <4>1. PICK k \in DOMAIN c.diagnostics :
                      \A i \in DOMAIN c.diagnostics : IsMarker(c.diagnostics[i]) <=> i = k
                BY <3>1 DEF OneMarker
            <4>2. k \in DOMAIN r.diagnostics /\ k # n + 1
                BY <2>2, <2>4, <4>1
            <4>3. \A i \in DOMAIN r.diagnostics : IsMarker(r.diagnostics[i]) <=> i = k
                BY <2>2, <2>3, <4>1, <4>2
            <4> QED BY <2>1, <3>1, <4>2, <4>3 DEF OneMarker
        <3>2. CASE ~c.truncated
            BY <2>1, <2>2, <2>3, <3>2 DEF OneMarker
        <3> QED BY <3>1, <3>2
    <2> QED BY <1>2, <2>1, <2>5 DEF r
<1> QED BY <1>3, <1>4

-----------------------------------------------------------------------------
(* What a scope sees *)

(* Unless something was lost to it, a scope sees what was reported since   *)
(* it opened, in order.                                                    *)
Sees(scope, c, told) ==
    \/ LostTo(scope, c)
    \/ /\ ~scope.erred
       /\ scope.startIndex <= Len(c.diagnostics)
       /\ scope.from <= Len(told)
       /\ Len(c.diagnostics) - scope.startIndex = Len(told) - scope.from
       /\ \A i \in 1..(Len(told) - scope.from) :
             c.diagnostics[scope.startIndex + i] = told[scope.from + i]

SameView(scope, other) ==
    /\ other.startIndex = scope.startIndex /\ other.generation = scope.generation
    /\ other.erred = scope.erred /\ other.from = scope.from /\ other.overflowCount = scope.overflowCount

(* Then it tells whether an error was reported.                            *)
LEMMA SeesErrors ==
    ASSUME NEW scope \in Scopes, NEW c \in Collectors, NEW told \in Seq(Diagnostic),
           Sees(scope, c, told), ~LostTo(scope, c)
    PROVE  HasErrors(Extracted(scope, c)) <=> Erred(scope, told)
<1>1. /\ c.diagnostics \in Seq(Diagnostic) /\ scope.startIndex \in Nat /\ scope.from \in Nat
      /\ Len(c.diagnostics) \in Nat /\ Len(told) \in Nat
    BY DEF Scopes, Collectors
<1> DEFINE start == scope.startIndex
           n == Len(c.diagnostics)
           list == SubSeq(c.diagnostics, start + 1, n)
<1>2. Extracted(scope, c) = list
    BY DEF Extracted, LostTo
<1>3. /\ ~scope.erred /\ start <= n /\ scope.from <= Len(told)
      /\ n - start = Len(told) - scope.from
      /\ \A i \in 1..(Len(told) - scope.from) : c.diagnostics[start + i] = told[scope.from + i]
    BY DEF Sees
<1>4. DOMAIN list = 1..(n - start) /\ \A i \in 1..(n - start) : list[i] = c.diagnostics[start + i]
    BY <1>1, <1>3, SMTT(60)
<1> HIDE DEF list
<1>5. \A i \in 1..(n - start) : list[i] = told[scope.from + i]
    BY <1>3, <1>4
<1>6. ASSUME NEW i \in DOMAIN list, IsError(list[i])
      PROVE  \E j \in DOMAIN told : j > scope.from /\ IsError(told[j])
    <2>1. scope.from + i \in DOMAIN told /\ scope.from + i > scope.from
        BY <1>1, <1>3, <1>4
    <2> QED BY <1>4, <1>5, <1>6, <2>1
<1>7. ASSUME NEW j \in DOMAIN told, j > scope.from, IsError(told[j])
      PROVE  \E i \in DOMAIN list : IsError(list[i])
    <2>1. j - scope.from \in DOMAIN list /\ scope.from + (j - scope.from) = j
        BY <1>1, <1>3, <1>4, <1>7
    <2>2. list[j - scope.from] = told[j]
        BY <1>4, <1>5, <2>1
    <2> QED BY <1>7, <2>1, <2>2
<1> QED BY <1>2, <1>3, <1>6, <1>7 DEF HasErrors, Erred

(* A step that adds a report, to the vector or to the lost ones, and one   *)
(* that loses a report without touching the vector.                        *)
LEMMA SeesReport ==
    ASSUME NEW scope \in Scopes, NEW other \in Scopes, SameView(scope, other),
           NEW c \in Collectors, NEW e \in Collectors, NEW told \in Seq(Diagnostic), NEW d \in Diagnostic,
           scope.overflowCount <= c.overflowCount, Sees(scope, c, told),
           e.generation = c.generation,
           \/ e.overflowCount = c.overflowCount /\ e.diagnostics = Append(c.diagnostics, d)
           \/ e.overflowCount = c.overflowCount + 1
    PROVE  other.overflowCount <= e.overflowCount /\ Sees(other, e, Append(told, d))
<1>1. /\ c.diagnostics \in Seq(Diagnostic) /\ scope.startIndex \in Nat /\ scope.from \in Nat
      /\ Len(c.diagnostics) \in Nat /\ Len(told) \in Nat
      /\ c.overflowCount \in Nat /\ scope.overflowCount \in Nat
    <2>1. scope.startIndex \in Nat /\ scope.from \in Nat /\ scope.overflowCount \in Nat
        BY DEF Scopes
    <2>2. c.diagnostics \in Seq(Diagnostic) /\ c.overflowCount \in Nat
        BY DEF Collectors
    <2>3. Len(c.diagnostics) \in Nat /\ Len(told) \in Nat
        BY <2>2
    <2> QED BY <2>1, <2>2, <2>3
<1>2. CASE e.overflowCount = c.overflowCount + 1
    BY <1>1, <1>2 DEF SameView, Sees, LostTo
<1>3. CASE e.overflowCount = c.overflowCount /\ e.diagnostics = Append(c.diagnostics, d)
    <2>1. LostTo(scope, c) => LostTo(other, e)
        BY <1>3 DEF SameView, LostTo, Stale
    <2>2. CASE ~LostTo(scope, c)
        <3> DEFINE start == scope.startIndex
                   from == scope.from
                   n == Len(c.diagnostics)
                   m == Len(told)
        <3>1. /\ ~scope.erred /\ start <= n /\ from <= m /\ n - start = m - from
              /\ \A i \in 1..(m - from) : c.diagnostics[start + i] = told[from + i]
            BY <2>2 DEF Sees
        <3>2. /\ Len(e.diagnostics) = n + 1 /\ e.diagnostics[n + 1] = d
              /\ \A i \in 1..n : e.diagnostics[i] = c.diagnostics[i]
            BY <1>1, <1>3
        <3>3. /\ Len(Append(told, d)) = m + 1 /\ Append(told, d)[m + 1] = d
              /\ \A i \in 1..m : Append(told, d)[i] = told[i]
            BY <1>1
        <3>4. start \in Nat /\ from \in Nat /\ n \in Nat /\ m \in Nat
            BY <1>1
        <3>5. other.startIndex = start /\ other.from = from /\ other.erred = scope.erred
            BY DEF SameView
        <3> HIDE DEF start, from, n, m
        <3>6. ASSUME NEW i \in 1..(m + 1 - from)
              PROVE  e.diagnostics[start + i] = Append(told, d)[from + i]
            <4>1. CASE i \in 1..(m - from)
                <5>1. start + i \in 1..n /\ from + i \in 1..m
                    BY <3>1, <3>4, <4>1
                <5> QED BY <3>1, <3>2, <3>3, <4>1, <5>1
            <4>2. CASE i = m + 1 - from
                <5>1. start + i = n + 1 /\ from + i = m + 1
                    BY <3>1, <3>4, <4>2, SMTT(60)
                <5> QED BY <3>2, <3>3, <5>1, SMTT(60)
            <4>3. i \in 1..(m - from) \/ i = m + 1 - from
                BY <3>1, <3>4
            <4> QED BY <4>1, <4>2, <4>3
        <3>7. start <= n + 1 /\ from <= m + 1 /\ n + 1 - start = m + 1 - from
            BY <3>1, <3>4
        <3>8. Sees(other, e, Append(told, d))
            <4>1. PICK longer : longer = Append(told, d)
                OBVIOUS
            <4>2. PICK length : length = Len(longer) /\ length = m + 1
                BY <3>3, <4>1
            <4>3. PICK size : size = Len(e.diagnostics) /\ size = n + 1
                BY <3>2
            <4>4. ~other.erred
                BY <3>1, <3>5, Zenon
            <4>5. other.startIndex <= size /\ other.from <= length /\ size - other.startIndex = length - other.from
                BY <3>4, <3>5, <3>7, <4>2, <4>3
            <4>6. ASSUME NEW i \in 1..(length - other.from)
                  PROVE  e.diagnostics[other.startIndex + i] = longer[other.from + i]
                <5>1. i \in 1..(m + 1 - from)
                    BY <3>4, <3>5, <4>2
                <5>2. e.diagnostics[start + i] = Append(told, d)[from + i]
                    BY <3>6, <5>1
                <5> QED BY <3>5, <4>1, <5>2
            <4>7. Sees(other, e, longer)
                BY <4>2, <4>3, <4>4, <4>5, <4>6 DEF Sees
            <4> QED BY <4>1, <4>7
        <3> QED BY <1>3, <3>8 DEF SameView
    <2> QED BY <1>3, <2>1, <2>2 DEF SameView, Sees
<1> QED BY <1>2, <1>3

-----------------------------------------------------------------------------
(* Results *)

(* Every open scope sees what it can.                                      *)
WatchInv ==
    \A i \in DOMAIN scopes : /\ scopes[i].overflowCount <= collector.overflowCount
                             /\ Sees(scopes[i], collector, reported)

TruthInv == WatchInv /\ OneMarker(collector) /\ ResultsTellErrors /\ FailuresExplained

LEMMA ObservedViews ==
    ASSUME DGTypeOK, Live, NEW c
    PROVE  LET new == WithTop(Observed(Top, c))
           IN  \A i \in DOMAIN new : SameView(scopes[i], new[i])
<1> DEFINE o == Observed(Top, c)
<1>1. scopes \in Seq(Scopes) /\ scopes # <<>>
    BY DEF DGTypeOK, Live
<1>2. Len(scopes) \in 1..Len(scopes)
    BY <1>1
<1>3. Top \in Scopes
    BY <1>1, <1>2 DEF Top
<1>4. o \in Scopes /\ SameView(Top, o)
    <2> DEFINE p == Top.poisoned \/ Stale(Top, c)
    <2>1. o = [Top EXCEPT !.extracted = TRUE, !.poisoned = p]
        BY <1>3 DEF Observed, Scopes
    <2>2. p \in BOOLEAN
        OBVIOUS
    <2> HIDE DEF p
    <2> QED BY <1>3, <2>1, <2>2 DEF Scopes, SameView
<1> HIDE DEF o
<1>5. WithTop(o) = [scopes EXCEPT ![Len(scopes)] = o]
    BY DEF WithTop
<1>6. /\ DOMAIN WithTop(o) = 1..Len(scopes)
      /\ \A i \in 1..Len(scopes) : WithTop(o)[i] = IF i = Len(scopes) THEN o ELSE scopes[i]
    BY <1>1, <1>2, <1>4, <1>5
<1>7. Top = scopes[Len(scopes)]
    BY DEF Top
<1> HIDE DEF Top
<1>8. ASSUME NEW i \in DOMAIN WithTop(o) PROVE SameView(scopes[i], WithTop(o)[i])
    <2>1. CASE i = Len(scopes)
        BY <1>4, <1>6, <1>7, <2>1
    <2>2. CASE i # Len(scopes)
        BY <1>6, <2>2 DEF SameView
    <2> QED BY <2>1, <2>2
<1> QED BY <1>8 DEF o

(* A report under live scopes.                                             *)
LEMMA ReportWatched ==
    ASSUME DGTypeOK, WatchInv, NEW d \in Diagnostic,
           collector' \in Collectors, collector'.generation = collector.generation,
           \/ collector'.overflowCount = collector.overflowCount
              /\ collector'.diagnostics = Append(collector.diagnostics, d)
           \/ collector'.overflowCount = collector.overflowCount + 1,
           reported' = Append(reported, d),
           scopes' \in Seq(Scopes), Len(scopes') <= Len(scopes),
           \A i \in DOMAIN scopes' : SameView(scopes[i], scopes'[i])
    PROVE  WatchInv'
<1>1. collector \in Collectors /\ scopes \in Seq(Scopes) /\ reported \in Seq(Diagnostic)
    BY TypeFacts
<1>2. ASSUME NEW i \in DOMAIN scopes'
      PROVE  /\ scopes'[i].overflowCount <= collector'.overflowCount
             /\ Sees(scopes'[i], collector', Append(reported, d))
    <2>1. i \in DOMAIN scopes
        BY <1>1
    <2>2. PICK scope \in Scopes : scope = scopes[i]
        BY <1>1, <2>1
    <2>3. PICK other \in Scopes : other = scopes'[i]
        OBVIOUS
    <2>4. scope.overflowCount <= collector.overflowCount /\ Sees(scope, collector, reported)
        BY <2>1, <2>2 DEF WatchInv
    <2>5. SameView(scope, other)
        BY <2>2, <2>3
    <2>6. other.overflowCount <= collector'.overflowCount /\ Sees(other, collector', Append(reported, d))
        BY <1>1, <2>4, <2>5, SeesReport
    <2> QED BY <2>3, <2>6
<1> QED BY <1>2 DEF WatchInv, Sees, LostTo, Stale

LEMMA ReportTold ==
    ASSUME CollectorInv, WatchInv, OneMarker(collector), NEW d \in Diagnostic, d.code = "REPORTED",
           collector' = Reported(collector, d), reported' = Append(reported, d),
           scopes' \in Seq(Scopes), Len(scopes') <= Len(scopes),
           \A i \in DOMAIN scopes' : SameView(scopes[i], scopes'[i])
    PROVE  WatchInv' /\ OneMarker(collector')
<1>1. /\ collector \in Collectors /\ Sound(collector) /\ DGTypeOK
    BY TypeFacts DEF CollectorInv
<1>2. ~IsMarker(d)
    BY DEF IsMarker
<1>3. /\ OneMarker(collector') /\ collector'.generation = collector.generation
      /\ \/ /\ collector'.overflowCount = collector.overflowCount
            /\ collector'.diagnostics = Append(collector.diagnostics, d)
         \/ collector'.overflowCount = collector.overflowCount + 1
    BY <1>1, <1>2, ReportedTakes
<1>4. collector' \in Collectors
    BY <1>1, ReportedSound DEF Sound
<1> QED BY <1>1, <1>3, <1>4, ReportWatched

(* What a result says.                                                     *)
LEMMA ResultTells ==
    ASSUME NEW scope \in Scopes, NEW c \in Collectors, NEW told \in Seq(Diagnostic),
           Sees(scope, c, told)
    PROVE  LET r == ResultOf("makeResult", ~HasErrors(Extracted(scope, c)), scope, c, told)
           IN  /\ ~r.lost => (r.ok <=> ~r.erred)
               /\ ~r.ok => r.hasErrors
<1>1. PICK errors \in BOOLEAN : errors = HasErrors(Extracted(scope, c))
    BY DEF HasErrors
<1>2. PICK erred \in BOOLEAN : erred <=> Erred(scope, told)
    OBVIOUS
<1>3. PICK lost \in BOOLEAN : lost <=> LostTo(scope, c)
    OBVIOUS
<1>4. ~lost => (errors <=> erred)
    BY <1>1, <1>2, <1>3, SeesErrors
<1> QED BY <1>1, <1>2, <1>3, <1>4 DEF ResultOf

(* A step that makes no result has nothing to tell.                        *)
LEMMA NothingTold ==
    ASSUME result' = NoResult
    PROVE  ResultsTellErrors' /\ FailuresExplained'
  BY DEF NoResult, ResultsTellErrors, FailuresExplained

LEMMA InitTruth == DGInit => TruthInv
<1> SUFFICES ASSUME DGInit PROVE TruthInv
    OBVIOUS
<1>1. PICK cap \in Caps : collector = NewCollector(cap)
    BY DEF DGInit
<1>2. collector.diagnostics = <<>> /\ collector.truncated = FALSE
    BY <1>1 DEF NewCollector
<1>3. OneMarker(collector)
    BY <1>2 DEF OneMarker
<1>4. WatchInv
    BY DEF DGInit, WatchInv
<1>5. ResultsTellErrors /\ FailuresExplained
    BY DEF DGInit, NoResult, ResultsTellErrors, FailuresExplained
<1> QED BY <1>3, <1>4, <1>5 DEF TruthInv

LEMMA TruthReport ==
    ASSUME CollectorInv, TruthInv, NEW d \in Reportable, Report(d) PROVE TruthInv'
<1>1. d \in Diagnostic /\ d.code = "REPORTED"
    BY DiagnosticsAssumption DEF DiagnosticsAssumption
<1>2. /\ scopes \in Seq(Scopes) /\ scopes' = scopes /\ result' = NoResult
      /\ collector' = Reported(collector, d) /\ reported' = Append(reported, d)
    BY TypeFacts DEF CollectorInv, Report
<1>3. /\ Len(scopes') <= Len(scopes) /\ scopes' \in Seq(Scopes)
      /\ \A i \in DOMAIN scopes' : SameView(scopes[i], scopes'[i])
    BY <1>2 DEF SameView
<1>4. WatchInv' /\ OneMarker(collector')
    BY <1>1, <1>2, <1>3, ReportTold DEF TruthInv
<1> QED BY <1>2, <1>4, NothingTold DEF TruthInv

LEMMA TruthReportOutOfMemory ==
    ASSUME CollectorInv, TruthInv, NEW d \in Reportable, ReportOutOfMemory(d) PROVE TruthInv'
<1>1. d \in Diagnostic /\ d.code = "REPORTED"
    BY DiagnosticsAssumption DEF DiagnosticsAssumption
<1>2. /\ collector \in Collectors /\ scopes \in Seq(Scopes) /\ scopes' = scopes
      /\ result' = NoResult /\ reported' = Append(reported, d) /\ DGTypeOK
      /\ collector' = ReportedWithoutMemory(collector, d)
    BY TypeFacts DEF CollectorInv, ReportOutOfMemory
<1>3. /\ Len(scopes') <= Len(scopes) /\ scopes' \in Seq(Scopes)
      /\ \A i \in DOMAIN scopes' : SameView(scopes[i], scopes'[i])
    BY <1>2 DEF SameView
<1>4. CASE Len(collector.diagnostics) >= collector.maxDiagnostics
    <2>1. collector' = Reported(collector, d)
        BY <1>2, <1>4 DEF ReportedWithoutMemory, Reported
    <2>2. WatchInv' /\ OneMarker(collector')
        BY <1>1, <1>2, <1>3, <2>1, ReportTold DEF TruthInv
    <2> QED BY <1>2, <2>2, NothingTold DEF TruthInv
<1>5. CASE ~(Len(collector.diagnostics) >= collector.maxDiagnostics)
    <2>1. collector' = [collector EXCEPT !.overflowCount = @ + 1]
        BY <1>2, <1>5 DEF ReportedWithoutMemory
    <2>2. /\ collector'.generation = collector.generation
          /\ collector'.overflowCount = collector.overflowCount + 1
          /\ collector'.diagnostics = collector.diagnostics
          /\ collector'.truncated = collector.truncated
        BY <1>2, <2>1 DEF Collectors
    <2>3. collector' \in Collectors
        BY StepReportOutOfMemory DEF CollectorInv, DGTypeOK
    <2>4. WatchInv'
        BY <1>1, <1>2, <1>3, <2>2, <2>3, ReportWatched DEF TruthInv
    <2>5. OneMarker(collector')
        BY <2>2 DEF TruthInv, OneMarker
    <2> QED BY <1>2, <2>4, <2>5, NothingTold DEF TruthInv
<1> QED BY <1>4, <1>5

(* A failure is among what its scope sees, unless it was lost to it.       *)
LEMMA FailureSeen ==
    ASSUME NEW scope \in Scopes, NEW c \in Collectors, NEW e \in Collectors,
           NEW told \in Seq(Diagnostic), NEW d \in Diagnostic, IsError(d),
           scope.overflowCount <= c.overflowCount, Sees(scope, c, told),
           e.generation = c.generation,
           \/ e.overflowCount = c.overflowCount /\ e.diagnostics = Append(c.diagnostics, d)
           \/ e.overflowCount = c.overflowCount + 1,
           ~LostTo(scope, e)
    PROVE  HasErrors(Extracted(scope, e))
<1>1. SameView(scope, scope)
    BY DEF SameView
<1>2. Sees(scope, e, Append(told, d))
    BY <1>1, SeesReport
<1>3. scope.from \in Nat /\ scope.overflowCount \in Nat /\ c.overflowCount \in Nat /\ Len(told) \in Nat
    BY DEF Scopes, Collectors
<1>4. ~LostTo(scope, c)
    BY <1>3 DEF LostTo, Stale
<1>5. scope.from <= Len(told)
    BY <1>4 DEF Sees
<1>6. PICK longer \in Seq(Diagnostic) :
          /\ longer = Append(told, d)
          /\ Len(told) + 1 \in DOMAIN longer /\ longer[Len(told) + 1] = d
    <2>1. Append(told, d) \in Seq(Diagnostic)
        OBVIOUS
    <2>2. Len(Append(told, d)) = Len(told) + 1 /\ Append(told, d)[Len(told) + 1] = d
        OBVIOUS
    <2>3. Len(told) + 1 \in DOMAIN Append(told, d)
        BY <1>3, <2>1, <2>2
    <2> QED BY <2>1, <2>2, <2>3
<1>7. Len(told) + 1 > scope.from
    BY <1>3, <1>5
<1>8. Erred(scope, longer)
    BY <1>6, <1>7 DEF Erred
<1>9. Sees(scope, e, longer)
    BY <1>2, <1>6
<1> QED BY <1>8, <1>9, SeesErrors

LEMMA TruthMakeFailure ==
    ASSUME CollectorInv, TruthInv, NEW d \in Reportable, MakeFailure(d) PROVE TruthInv'
<1>1. d \in Diagnostic /\ d.code = "REPORTED" /\ IsError(d)
    BY DiagnosticsAssumption DEF DiagnosticsAssumption, MakeFailure
<1> DEFINE new == WithTop(Observed(Top, collector'))
<1>2. /\ collector \in Collectors /\ Sound(collector) /\ reported \in Seq(Diagnostic)
      /\ scopes \in Seq(Scopes) /\ scopes # <<>> /\ Live /\ DGTypeOK
    BY TypeFacts DEF CollectorInv, MakeFailure, Live
<1>3. /\ scopes' = new
      /\ collector' = Reported(collector, d) /\ reported' = Append(reported, d)
      /\ result' = ResultOf("makeFailure", FALSE, Top, collector', reported')
    BY DEF MakeFailure
<1>4. Top \in Scopes /\ new \in Seq(Scopes) /\ Len(new) = Len(scopes)
    BY <1>2, ObservedTop
<1>5. \A i \in DOMAIN new : SameView(scopes[i], new[i])
    BY <1>2, ObservedViews
<1> HIDE DEF new
<1>6. Len(scopes') <= Len(scopes)
    BY <1>2, <1>3, <1>4
<1>7. WatchInv' /\ OneMarker(collector')
    BY <1>1, <1>3, <1>4, <1>5, <1>6, ReportTold DEF TruthInv
<1>8. ~LostTo(Top, collector') => HasErrors(Extracted(Top, collector'))
    <2>1. ~IsMarker(d)
        BY <1>1 DEF IsMarker
    <2>2. /\ collector'.generation = collector.generation
          /\ \/ /\ collector'.overflowCount = collector.overflowCount
                /\ collector'.diagnostics = Append(collector.diagnostics, d)
             \/ collector'.overflowCount = collector.overflowCount + 1
        BY <1>1, <1>2, <1>3, <2>1, ReportedTakes DEF TruthInv
    <2>3. collector' \in Collectors
        BY <1>1, <1>2, <1>3, ReportedSound DEF Sound
    <2>4. Len(scopes) \in DOMAIN scopes
        BY <1>2
    <2>5. Top.overflowCount <= collector.overflowCount /\ Sees(Top, collector, reported)
        BY <2>4 DEF TruthInv, WatchInv, Top
    <2> QED BY <1>1, <1>2, <1>4, <2>2, <2>3, <2>5, FailureSeen
<1>9. ResultsTellErrors' /\ FailuresExplained'
    <2>1. PICK errors \in BOOLEAN : errors = HasErrors(Extracted(Top, collector'))
        BY DEF HasErrors
    <2>2. PICK lost \in BOOLEAN : lost = LostTo(Top, collector')
        BY DEF LostTo
    <2>3. result'.kind = "makeFailure" /\ result'.hasErrors = errors /\ result'.lost = lost
        BY <1>3, <2>1, <2>2 DEF ResultOf
    <2>4. ~lost => errors
        BY <1>8, <2>1, <2>2
    <2> QED BY <2>3, <2>4 DEF ResultsTellErrors, FailuresExplained
<1> QED BY <1>7, <1>9 DEF TruthInv

(* A clear makes every open scope stale.                                   *)
LEMMA TruthClear ==
    ASSUME CollectorInv, TruthInv, Clear PROVE TruthInv'
<1>1. /\ collector \in Collectors /\ scopes \in Seq(Scopes)
      /\ collector.generation \in Nat /\ collector.overflowCount \in Nat
    BY TypeFacts DEF CollectorInv
<1>2. collector' = Cleared(collector) /\ result' = NoResult
    BY DEF Clear
<1>3. /\ collector'.diagnostics = <<>> /\ collector'.truncated = FALSE
      /\ collector'.generation = collector.generation + 1
      /\ collector'.overflowCount = collector.overflowCount
    BY <1>1, <1>2 DEF Cleared, Collectors
<1>4. OneMarker(collector')
    BY <1>3 DEF OneMarker
<1>5. ASSUME NEW i \in DOMAIN scopes'
      PROVE  scopes'[i].overflowCount <= collector'.overflowCount /\ Stale(scopes'[i], collector')
    <2>1. i \in DOMAIN scopes
        BY DEF Clear
    <2>2. PICK scope \in Scopes : scope = scopes[i]
        BY <1>1, <2>1
    <2>3. PICK flag \in BOOLEAN : flag = Erred(scope, reported)
        BY DEF Erred
    <2>4. scopes'[i] = [scope EXCEPT !.erred = flag, !.from = 0]
        BY <2>1, <2>2, <2>3 DEF Clear
    <2>5. /\ scopes'[i].generation = scope.generation
          /\ scopes'[i].overflowCount = scope.overflowCount
          /\ scope.generation \in Nat
        BY <2>4 DEF Scopes
    <2>6. scope.generation <= collector.generation
        BY <2>1, <2>2 DEF CollectorInv, NestIn
    <2>7. scope.overflowCount <= collector.overflowCount
        BY <2>1, <2>2 DEF TruthInv, WatchInv
    <2>8. Stale(scopes'[i], collector')
        BY <1>1, <1>3, <2>5, <2>6 DEF Stale
    <2> QED BY <1>3, <2>5, <2>7, <2>8
<1>6. WatchInv'
    BY <1>5 DEF WatchInv, Sees, LostTo
<1> QED BY <1>2, <1>4, <1>6, NothingTold DEF TruthInv

LEMMA TruthSetMaxDiagnostics ==
    ASSUME CollectorInv, TruthInv, NEW cap \in Caps, SetMaxDiagnostics(cap) PROVE TruthInv'
<1>1. collector \in Collectors
    BY TypeFacts DEF CollectorInv
<1>2. /\ collector' = [collector EXCEPT !.maxDiagnostics = EffectiveCap(cap)]
      /\ scopes' = scopes /\ reported' = reported /\ result' = NoResult
    BY DEF SetMaxDiagnostics
<1>3. /\ collector'.generation = collector.generation
      /\ collector'.overflowCount = collector.overflowCount
      /\ collector'.diagnostics = collector.diagnostics
      /\ collector'.truncated = collector.truncated
    BY <1>1, <1>2 DEF Collectors
<1>4. WatchInv'
    BY <1>2, <1>3 DEF TruthInv, WatchInv, Sees, LostTo, Stale
<1>5. OneMarker(collector')
    BY <1>3 DEF TruthInv, OneMarker
<1> QED BY <1>2, <1>4, <1>5, NothingTold DEF TruthInv

(* A scope that just opened has nothing to see.                            *)
LEMMA TruthOpenScope ==
    ASSUME CollectorInv, TruthInv, OpenScope PROVE TruthInv'
<1>1. /\ collector \in Collectors /\ scopes \in Seq(Scopes)
      /\ collector.generation \in Nat /\ collector.overflowCount \in Nat
      /\ Len(collector.diagnostics) \in Nat /\ Len(reported) \in Nat
    BY TypeFacts DEF CollectorInv
<1>2. collector' = collector /\ reported' = reported /\ result' = NoResult
    BY DEF OpenScope
<1>3. PICK scope \in Scopes :
          /\ scopes' = Append(scopes, scope)
          /\ scope.startIndex = Len(collector.diagnostics) /\ scope.erred = FALSE
          /\ scope.from = Len(reported) /\ scope.overflowCount = collector.overflowCount
    <2> DEFINE new == [startIndex |-> Len(collector.diagnostics),
                       generation |-> collector.generation,
                       extracted |-> FALSE, poisoned |-> FALSE, erred |-> FALSE,
                       from |-> Len(reported), overflowCount |-> collector.overflowCount]
    <2>1. /\ new \in Scopes
          /\ new.startIndex = Len(collector.diagnostics) /\ new.erred = FALSE
          /\ new.from = Len(reported) /\ new.overflowCount = collector.overflowCount
        BY <1>1 DEF Scopes
    <2>2. scopes' = Append(scopes, new)
        BY DEF OpenScope
    <2> HIDE DEF new
    <2> QED BY <2>1, <2>2
<1>4. scope.overflowCount <= collector.overflowCount /\ Sees(scope, collector, reported)
    BY <1>1, <1>3 DEF Sees
<1>5. ASSUME NEW i \in DOMAIN scopes'
      PROVE  scopes'[i].overflowCount <= collector.overflowCount /\ Sees(scopes'[i], collector, reported)
    <2>1. \/ i \in DOMAIN scopes /\ scopes'[i] = scopes[i]
          \/ scopes'[i] = scope
        BY <1>1, <1>3
    <2> QED BY <1>4, <2>1 DEF TruthInv, WatchInv
<1>6. WatchInv'
    BY <1>2, <1>5 DEF WatchInv, Sees, LostTo, Stale
<1>7. OneMarker(collector')
    BY <1>2 DEF TruthInv
<1> QED BY <1>2, <1>6, <1>7, NothingTold DEF TruthInv

LEMMA TruthMakeResult ==
    ASSUME CollectorInv, TruthInv, MakeResult PROVE TruthInv'
<1> DEFINE new == WithTop(Observed(Top, collector))
<1>1. /\ collector \in Collectors /\ reported \in Seq(Diagnostic)
      /\ scopes \in Seq(Scopes) /\ scopes # <<>> /\ Live /\ DGTypeOK
    BY TypeFacts DEF CollectorInv, MakeResult, Live
<1>2. /\ scopes' = new /\ collector' = collector /\ reported' = reported
      /\ result' = ResultOf("makeResult", ~HasErrors(Extracted(Top, collector)), Top, collector, reported)
    BY DEF MakeResult
<1>3. Top \in Scopes /\ new \in Seq(Scopes) /\ Len(new) = Len(scopes)
    BY <1>1, ObservedTop
<1>4. \A i \in DOMAIN new : SameView(scopes[i], new[i])
    BY <1>1, ObservedViews
<1>5. Len(scopes) \in DOMAIN scopes
    BY <1>1
<1>6. Sees(Top, collector, reported)
    BY <1>5 DEF TruthInv, WatchInv, Top
<1> HIDE DEF new
<1>7. ASSUME NEW i \in DOMAIN new
      PROVE  new[i].overflowCount <= collector.overflowCount /\ Sees(new[i], collector, reported)
    <2>1. i \in DOMAIN scopes
        BY <1>1, <1>3
    <2>2. scopes[i].overflowCount <= collector.overflowCount /\ Sees(scopes[i], collector, reported)
        BY <2>1 DEF TruthInv, WatchInv
    <2>3. SameView(scopes[i], new[i])
        BY <1>4
    <2> QED BY <2>2, <2>3 DEF SameView, Sees, LostTo, Stale
<1>8. WatchInv'
    BY <1>2, <1>7 DEF WatchInv, Sees, LostTo, Stale
<1>9. /\ ~result'.lost => (result'.ok <=> ~result'.erred)
      /\ ~result'.ok => result'.hasErrors
    BY <1>1, <1>2, <1>3, <1>6, ResultTells
<1>10. ResultsTellErrors' /\ FailuresExplained'
    BY <1>9 DEF ResultsTellErrors, FailuresExplained
<1>11. OneMarker(collector')
    BY <1>2 DEF TruthInv
<1> QED BY <1>8, <1>10, <1>11 DEF TruthInv

LEMMA TruthCloseScope ==
    ASSUME CollectorInv, TruthInv, CloseScope PROVE TruthInv'
<1>1. scopes \in Seq(Scopes) /\ scopes # <<>> /\ DGTypeOK
    BY TypeFacts DEF CollectorInv, CloseScope, Live
<1>2. scopes' = SubSeq(scopes, 1, Len(scopes) - 1) /\ result' = NoResult
    BY DEF CloseScope
<1>3. PICK n \in Nat : n = Len(scopes) - 1 /\ n < Len(scopes)
    <2>1. Len(scopes) \in Nat \ {0}
        BY <1>1
    <2>2. Len(scopes) - 1 \in Nat /\ Len(scopes) - 1 < Len(scopes)
        BY <2>1
    <2> QED BY <2>2, Zenon
<1>4. /\ scopes' \in Seq(Scopes) /\ Len(scopes') = n
      /\ \A i \in 1..n : scopes'[i] = scopes[i]
    <2>1. scopes' = SubSeq(scopes, 1, n)
        BY <1>2, <1>3
    <2>2. \A i \in 1..n : scopes[i] \in Scopes
        BY <1>1, <1>3
    <2>3. /\ SubSeq(scopes, 1, n) \in Seq(Scopes)
          /\ Len(SubSeq(scopes, 1, n)) = IF 1 <= n THEN n - 1 + 1 ELSE 0
          /\ \A i \in 1..(n - 1 + 1) : SubSeq(scopes, 1, n)[i] = scopes[1 + i - 1]
        BY <1>3, <2>2, SubSeqProperties
    <2> QED BY <1>3, <2>1, <2>3
<1>5. \A i \in DOMAIN scopes' : i \in DOMAIN scopes /\ scopes'[i] = scopes[i]
    BY <1>1, <1>3, <1>4
<1>6. Len(scopes') <= Len(scopes) /\ \A i \in DOMAIN scopes' : SameView(scopes[i], scopes'[i])
    BY <1>1, <1>3, <1>4, <1>5 DEF SameView
<1>7. WatchInv' /\ OneMarker(collector')
    <2>1. CASE UNCHANGED <<collector, reported>>
        BY <1>5, <2>1 DEF TruthInv, WatchInv, Sees, LostTo, Stale
    <2>2. CASE /\ collector' = Reported(collector, Entry("Warning", "REPORTED"))
               /\ reported' = Append(reported, Entry("Warning", "REPORTED"))
        <3>1. PICK d \in Diagnostic : d = Entry("Warning", "REPORTED") /\ d.code = "REPORTED"
            BY EntryType DEF Severities, Codes, Entry
        <3> QED BY <1>4, <1>6, <2>2, <3>1, ReportTold DEF TruthInv
    <2> QED BY <2>1, <2>2 DEF CloseScope
<1> QED BY <1>2, <1>7, NothingTold DEF TruthInv

LEMMA NextTruth == CollectorInv /\ TruthInv /\ [DGNext]_dgVars => TruthInv'
<1> SUFFICES ASSUME CollectorInv, TruthInv, [DGNext]_dgVars PROVE TruthInv'
    OBVIOUS
<1>1. CASE \E d \in Reportable : Report(d) \/ ReportOutOfMemory(d) \/ MakeFailure(d)
    BY <1>1, TruthReport, TruthReportOutOfMemory, TruthMakeFailure
<1>2. CASE Clear
    BY <1>2, TruthClear
<1>3. CASE \E cap \in Caps : SetMaxDiagnostics(cap)
    BY <1>3, TruthSetMaxDiagnostics
<1>4. CASE OpenScope
    BY <1>4, TruthOpenScope
<1>5. CASE MakeResult
    BY <1>5, TruthMakeResult
<1>6. CASE CloseScope
    BY <1>6, TruthCloseScope
<1>7. CASE UNCHANGED dgVars
    BY <1>7 DEF TruthInv, WatchInv, Sees, LostTo, Stale, OneMarker, ResultsTellErrors,
                FailuresExplained, dgVars
<1> QED BY <1>1, <1>2, <1>3, <1>4, <1>5, <1>6, <1>7 DEF DGNext

(* What the runs check as ResultsTruthful: makeResult (operation_result.h) *)
(* succeeds exactly when neither the operation nor the ones it called      *)
(* reported an error, a failure shows one, unless diagnostics were lost to *)
(* its scope, and what was lost at the cap is marked once.                 *)
THEOREM ResultsAlwaysTruthful == DGSpec => []ResultsTruthful
<1>1. TruthInv => ResultsTruthful
    BY MarkersCounted DEF TruthInv, ResultsTruthful
<1>2. DGSpec => []TruthInv
    BY InitTruth, NextTruth, IInvAlways, PTL DEF DGSpec
<1> QED BY <1>1, <1>2, PTL

-----------------------------------------------------------------------------
(* The schema registry *)

(* A registry has a record's fields, finitely many migrations and a cap.    *)
RegistryFits(r) ==
    /\ \E m, c, f : r = [migrations |-> m, cap |-> c, frozen |-> f]
    /\ r.cap \in Nat
    /\ IsFiniteSet(DOMAIN r.migrations)

Places(r, v) == {v} \cup {r.migrations[x] : x \in DOMAIN r.migrations}

WalkStates(r, v) ==
    [at : Places(r, v), seen : SUBSET DOMAIN r.migrations,
     end : {"going", "current", "limit", "cycle", "no path"}]

(* The walk goes step by step.                                              *)
Steps(r, v, step) ==
    /\ step[0] = [at |-> v, seen |-> {}, end |-> "going"]
    /\ \A n \in 1..(r.cap + 1) : step[n] = WalkStep(r, n, step[n - 1])

LEMMA WalkStepTyped ==
    ASSUME NEW r, NEW v, NEW n, NEW w \in WalkStates(r, v)
    PROVE  WalkStep(r, n, w) \in WalkStates(r, v)
BY DEF WalkStep, WalkStates, Places

LEMMA WalkIsMade ==
    ASSUME NEW r, NEW v, r.cap \in Nat
    PROVE  \E step \in [0..(r.cap + 1) -> WalkStates(r, v)] :
              Steps(r, v, step) /\ Walk(r, v) = step[r.cap + 1]
<1>1. PICK top \in Nat : top = r.cap + 1
    OBVIOUS
<1> DEFINE D == WalkStates(r, v)
           start == [at |-> v, seen |-> {}, end |-> "going"]
           go == [n \in 1..top |-> [w \in D |-> WalkStep(r, n, w)]]
           solves(h) == h = [n \in 0..top |-> IF n = 0 THEN start ELSE WalkStep(r, n, h[n - 1])]
<1>2. start \in D
    BY DEF WalkStates, Places
<1>3. go \in [1..top -> [D -> D]]
    <2> HIDE DEF D
    <2>1. \A n \in 1..top : \A w \in D : WalkStep(r, n, w) \in D
        BY WalkStepTyped DEF D
    <2> QED BY <2>1
<1>4. PICK made \in [0..top -> D] : MadeUpTo(top, made, start, go)
    <2> HIDE DEF go, start, D
    <2> QED BY <1>1, <1>2, <1>3, StepsExist
<1> HIDE DEF D, start
<1>5. solves(made)
    <2>1. ASSUME NEW n \in 0..top
          PROVE  made[n] = IF n = 0 THEN start ELSE WalkStep(r, n, made[n - 1])
        <3>1. CASE n = 0
            BY <3>1, <1>4 DEF MadeUpTo
        <3>2. CASE n # 0
            <4>1. n \in 1..top /\ made[n - 1] \in D
                BY <3>2, <1>1
            <4>2. made[n] = go[n][made[n - 1]]
                <5> HIDE DEF go
                <5> QED BY <4>1, <1>4 DEF MadeUpTo
            <4> QED BY <3>2, <4>1, <4>2
        <3> QED BY <3>1, <3>2
    <2> HIDE DEF go
    <2> QED BY <2>1
<1>6. PICK step : solves(step) /\ Walk(r, v) = step[top]
    <2> DEFINE k == CHOOSE h : solves(h)
    <2>1. Walk(r, v) = k[top]
        BY <1>1 DEF Walk, start
    <2>2. solves(k)
        <3> HIDE DEF solves
        <3> QED BY <1>5
    <2> HIDE DEF k, solves
    <2> QED BY <2>1, <2>2
<1> HIDE DEF go
<1>7. step[0] = start /\ \A n \in 1..top : step[n] = WalkStep(r, n, step[n - 1])
    BY <1>1, <1>6
<1>8. step \in [0..top -> D]
    <2> DEFINE T == {n \in 0..top : step[n] \in D}
    <2>1. 0 \in T
        BY <1>1, <1>2, <1>7
    <2>2. ASSUME NEW n \in 1..top, n - 1 \in T PROVE n \in T
        BY <2>2, <1>7, WalkStepTyped DEF D
    <2>3. 0..top \subseteq T
        <3> HIDE DEF T
        <3> QED BY <1>1, <2>1, <2>2, UpTo
    <2> QED BY <2>3, <1>6
<1>9. Steps(r, v, step)
    BY <1>1, <1>7 DEF Steps, start
<1> QED BY <1>1, <1>6, <1>8, <1>9 DEF D
(* A walk that goes on has left as many versions as it has made steps, a    *)
(* walk that ended well is at the current version, and only its last step   *)
(* is stopped by the cap.                                                   *)
WalkFits(r, n, w) ==
    /\ w.end = "going" => Cardinality(w.seen) = n
    /\ w.end = "current" => w.at = Current
    /\ w.end = "limit" => n > r.cap

LEMMA WalkFitsOn ==
    ASSUME NEW r, RegistryFits(r), NEW v, NEW n \in 1..(r.cap + 1),
           NEW w \in WalkStates(r, v), WalkFits(r, n - 1, w)
    PROVE  WalkFits(r, n, WalkStep(r, n, w))
<1>1. n \in Nat /\ r.cap \in Nat
    BY DEF RegistryFits
<1>2. IsFiniteSet(w.seen)
    BY FS_Subset DEF RegistryFits, WalkStates
<1>3. PICK a, s, e : w = [at |-> a, seen |-> s, end |-> e]
    BY DEF WalkStates
<1>4. CASE WalkStep(r, n, w) = w /\ w.end # "going"
    BY <1>1, <1>4 DEF WalkFits
<1>5. CASE WalkStep(r, n, w) = [w EXCEPT !.end = "current"] /\ w.at = Current
    BY <1>3, <1>5 DEF WalkFits
<1>6. CASE WalkStep(r, n, w) = [w EXCEPT !.end = "limit"] /\ n > r.cap
    BY <1>3, <1>6 DEF WalkFits
<1>7. CASE WalkStep(r, n, w) = [w EXCEPT !.end = "cycle"] \/ WalkStep(r, n, w) = [w EXCEPT !.end = "no path"]
    BY <1>3, <1>7 DEF WalkFits
<1>8. CASE /\ WalkStep(r, n, w) = [w EXCEPT !.at = r.migrations[w.at], !.seen = @ \cup {w.at}]
           /\ w.end = "going" /\ w.at \notin w.seen
    <2>1. Cardinality(w.seen) = n - 1
        BY <1>8 DEF WalkFits
    <2>2. Cardinality(w.seen \cup {w.at}) = Cardinality(w.seen) + 1
        BY <1>2, <1>8, FS_AddElement
    <2>3. WalkStep(r, n, w).seen = w.seen \cup {w.at} /\ WalkStep(r, n, w).end = "going"
        BY <1>3, <1>8
    <2>4. Cardinality(w.seen \cup {w.at}) = n
        BY <1>1, <2>1, <2>2
    <2> QED BY <2>3, <2>4 DEF WalkFits
<1> QED BY <1>4, <1>5, <1>6, <1>7, <1>8 DEF WalkStep

(* Where a walk ends.                                                       *)
LEMMA WalkEnds ==
    ASSUME NEW r, RegistryFits(r), NEW v
    PROVE  /\ Walk(r, v).end = "current" => Walk(r, v).at = Current
           /\ r.cap >= Cardinality(DOMAIN r.migrations) + 1 => Walk(r, v).end # "limit"
<1>1. r.cap \in Nat /\ r.cap + 1 \in 1..(r.cap + 1) /\ (r.cap + 1) - 1 = r.cap
    BY DEF RegistryFits
<1>2. PICK step \in [0..(r.cap + 1) -> WalkStates(r, v)] :
             Steps(r, v, step) /\ Walk(r, v) = step[r.cap + 1]
    BY <1>1, WalkIsMade
<1> DEFINE T == {n \in 0..(r.cap + 1) : WalkFits(r, n, step[n])}
<1>3. 0 \in T
    <2>1. step[0].end = "going" /\ step[0].seen = {}
        BY <1>2 DEF Steps
    <2>2. Cardinality(step[0].seen) = 0
        BY <2>1, FS_EmptySet
    <2>3. WalkFits(r, 0, step[0])
        BY <2>1, <2>2 DEF WalkFits
    <2> QED BY <1>1, <2>3
<1>4. ASSUME NEW n \in 1..(r.cap + 1), n - 1 \in T PROVE n \in T
    <2>1. step[n - 1] \in WalkStates(r, v) /\ WalkFits(r, n - 1, step[n - 1]) /\ n \in 0..(r.cap + 1)
        BY <1>1, <1>4
    <2>2. step[n] = WalkStep(r, n, step[n - 1])
        BY <1>2 DEF Steps
    <2> QED BY <2>1, <2>2, WalkFitsOn
<1>5. \A n \in 0..(r.cap + 1) : WalkFits(r, n, step[n])
    <2>1. r.cap + 1 \in Nat
        BY <1>1
    <2>2. 0..(r.cap + 1) \subseteq T
        <3> HIDE DEF T
        <3> QED BY <1>3, <1>4, <2>1, UpTo
    <2> QED BY <2>2
<1>6. Walk(r, v).end = "current" => Walk(r, v).at = Current
    BY <1>1, <1>2, <1>5 DEF WalkFits
<1>7. ASSUME r.cap >= Cardinality(DOMAIN r.migrations) + 1, Walk(r, v).end = "limit" PROVE FALSE
    <2> DEFINE w == step[r.cap]
    <2>1. w \in WalkStates(r, v) /\ WalkFits(r, r.cap, w)
        BY <1>1, <1>2, <1>5
    <2>2. Walk(r, v) = WalkStep(r, r.cap + 1, w)
        BY <1>1, <1>2 DEF Steps
    <2> HIDE DEF w
    <2>3. w.end # "limit"
        BY <2>1, <1>1 DEF WalkFits
    <2>4. w.end = "going"
        BY <2>2, <2>3, <1>7 DEF WalkStep
    <2>5. Cardinality(w.seen) = r.cap
        BY <2>1, <2>4 DEF WalkFits
    <2>6. /\ Cardinality(w.seen) <= Cardinality(DOMAIN r.migrations)
          /\ Cardinality(DOMAIN r.migrations) \in Nat
        BY <2>1, FS_Subset, FS_CardinalityType DEF RegistryFits, WalkStates
    <2> QED BY <1>1, <1>7, <2>5, <2>6
<1> QED BY <1>6, <1>7

-----------------------------------------------------------------------------
LEMMA RegistryOf ==
    ASSUME NEW m, IsFiniteSet(DOMAIN m), NEW c \in Nat, NEW f,
           NEW r, r = [migrations |-> m, cap |-> c, frozen |-> f]
    PROVE  RegistryFits(r)
<1>1. \E m1, c1, f1 : r = [migrations |-> m1, cap |-> c1, frozen |-> f1]
    OBVIOUS
<1>2. r.cap \in Nat /\ DOMAIN r.migrations = DOMAIN m
    OBVIOUS
<1> QED BY <1>1, <1>2 DEF RegistryFits

LEMMA RegistryInitially == SchemaInit => RegistryFits(schemas)
<1> DEFINE m == [v \in {<<1, 0>>} |-> Current]
<1>1. IsFiniteSet(DOMAIN m)
    BY FS_Singleton
<1> HIDE DEF m
<1> SUFFICES ASSUME schemas = [migrations |-> m, cap |-> 2, frozen |-> FALSE]
             PROVE  RegistryFits(schemas)
    BY DEF SchemaInit, NewRegistry, m
<1> QED BY <1>1, RegistryOf

LEMMA MutatorsKeepRegistry ==
    ASSUME NEW r, RegistryFits(r)
    PROVE  /\ \A from, to : RegistryFits(WithMigration(r, from, to))
           /\ \A from : RegistryFits(WithoutMigration(r, from))
           /\ \A n \in Nat : RegistryFits(WithCap(r, n))
           /\ RegistryFits(Frozen(r))
<1>1. PICK m, c, f : r = [migrations |-> m, cap |-> c, frozen |-> f]
    BY DEF RegistryFits
<1>2. c \in Nat /\ IsFiniteSet(DOMAIN m)
    BY <1>1 DEF RegistryFits
<1>3. ASSUME NEW from, NEW to PROVE RegistryFits(WithMigration(r, from, to))
    <2>1. CASE WithMigration(r, from, to) = r
        BY <2>1
    <2>2. CASE WithMigration(r, from, to) = [r EXCEPT !.migrations =
                  [v \in {from} \cup DOMAIN @ |-> IF v = from THEN to ELSE @[v]]]
        <3> DEFINE more == [v \in {from} \cup DOMAIN m |-> IF v = from THEN to ELSE m[v]]
        <3>1. WithMigration(r, from, to) = [migrations |-> more, cap |-> c, frozen |-> f]
            BY <1>1, <2>2
        <3>2. DOMAIN more = (DOMAIN m) \cup {from}
            OBVIOUS
        <3> HIDE DEF more
        <3>3. IsFiniteSet(DOMAIN more)
            BY <1>2, <3>2, FS_AddElement
        <3> QED BY <1>2, <3>1, <3>3, RegistryOf
    <2> QED BY <2>1, <2>2 DEF WithMigration
<1>4. ASSUME NEW from PROVE RegistryFits(WithoutMigration(r, from))
    <2>1. CASE WithoutMigration(r, from) = r
        BY <2>1
    <2>2. CASE WithoutMigration(r, from) = [r EXCEPT !.migrations = [v \in DOMAIN @ \ {from} |-> @[v]]]
        <3> DEFINE fewer == [v \in DOMAIN m \ {from} |-> m[v]]
        <3>1. IsFiniteSet(DOMAIN fewer)
            BY <1>2, FS_Subset
        <3>2. WithoutMigration(r, from) = [migrations |-> fewer, cap |-> c, frozen |-> f]
            BY <1>1, <2>2
        <3> HIDE DEF fewer
        <3> QED BY <1>2, <3>1, <3>2, RegistryOf
    <2> QED BY <2>1, <2>2 DEF WithoutMigration
<1>5. ASSUME NEW n \in Nat PROVE RegistryFits(WithCap(r, n))
    <2>1. WithCap(r, n) = r \/ WithCap(r, n) = [migrations |-> m, cap |-> n, frozen |-> f]
        BY <1>1 DEF WithCap
    <2> QED BY <2>1, <1>2, RegistryOf
<1>6. RegistryFits(Frozen(r))
    <2>1. PICK yes : yes = TRUE
        BY Zenon
    <2>2. Frozen(r) = [r EXCEPT !.frozen = yes]
        BY <2>1, Zenon DEF Frozen
    <2>3. Frozen(r) = [migrations |-> m, cap |-> c, frozen |-> yes]
        BY <1>1, <2>2
    <2> QED BY <2>3, <1>2, RegistryOf
<1> QED BY <1>3, <1>4, <1>5, <1>6

LEMMA RegistryAlwaysFits == SchemaSpec => []RegistryFits(schemas)
<1>1. ASSUME RegistryFits(schemas), [SchemaNext]_schemas PROVE RegistryFits(schemas)'
    <2>1. CASE RegisterMigration
        BY <1>1, <2>1, MutatorsKeepRegistry DEF RegisterMigration
    <2>2. CASE UnregisterMigration
        BY <1>1, <2>2, MutatorsKeepRegistry DEF UnregisterMigration
    <2>3. CASE SetMaxMigrationSteps
        BY <1>1, <2>3, MutatorsKeepRegistry DEF SetMaxMigrationSteps
    <2>4. CASE FreezeRegistry
        BY <1>1, <2>4, MutatorsKeepRegistry DEF FreezeRegistry
    <2>5. CASE UNCHANGED schemas
        BY <1>1, <2>5
    <2> QED BY <1>1, <2>1, <2>2, <2>3, <2>4, <2>5 DEF SchemaNext
<1> QED BY <1>1, RegistryInitially, PTL DEF SchemaSpec

(* What migrate() makes of a document that has a header.                    *)
LEMMA MigrateFrom ==
    ASSUME NEW r, NEW v, NEW doc, doc = [schema |-> TRUE, version |-> TRUE, ofType |-> TRUE, at |-> v]
    PROVE  Migrate(r, doc) =
              IF CanLoadDirectly(v) THEN [end |-> "current", version |-> v]
              ELSE IF v[1] > Current[1] THEN Throws("future")
              ELSE [end |-> Walk(r, v).end, version |-> Walk(r, v).at]
BY DEF Migrate

LEMMA DocumentHasHeader ==
    ASSUME NEW v
    PROVE  Document(v) = [schema |-> TRUE, version |-> TRUE, ofType |-> TRUE, at |-> v]
BY DEF Document, AddHeader

(* The loaders ask canLoad() and trust it: whatever migrations are          *)
(* registered and removed, it says what migrate() does, the walk ends at a  *)
(* version that loads, and no circle of migrations takes it to the cap.     *)
THEOREM MigrationsAlwaysAgree == SchemaSpec => []MigrationsAgree
<1>1. ASSUME RegistryFits(schemas) PROVE MigrationsAgree
    <2>1. CanLoadDirectly(Current)
        BY SchemaAssumption DEF SchemaAssumption, CanLoadDirectly
    <2>2. ASSUME NEW v \in Versions
          PROVE  /\ v[1] <= Current[1] =>
                      (CanLoad(schemas, v) <=> Migrate(schemas, Document(v)).end = "current")
                 /\ \A to \in Versions : TestMigration(schemas, v, to) => CanLoad(schemas, v)
        <3>1. v[1] <= Current[1] => ~(v[1] > Current[1])
            BY SchemaAssumption DEF SchemaAssumption
        <3>2. Throws("future").end # "current"
            BY DEF Throws
        <3>3. Migrate(schemas, Document(v)).end = "current" =>
                  CanLoadDirectly(v) \/ Walk(schemas, v).end = "current"
            BY <3>2, MigrateFrom, DocumentHasHeader
        <3>4. v[1] <= Current[1] /\ (CanLoadDirectly(v) \/ Walk(schemas, v).end = "current")
                  => Migrate(schemas, Document(v)).end = "current"
            BY <3>1, MigrateFrom, DocumentHasHeader
        <3>5. \A to \in Versions : TestMigration(schemas, v, to) => Migrate(schemas, Document(v)).end = "current"
            BY DocumentHasHeader DEF TestMigration
        <3> QED BY <3>3, <3>4, <3>5 DEF CanLoad
    <2>3. ASSUME NEW v \in Versions
          PROVE  /\ Migrate(schemas, Document(v)).end = "current" =>
                      CanLoadDirectly(Migrate(schemas, Document(v)).version)
                 /\ schemas.cap >= Cardinality(DOMAIN schemas.migrations) + 1 =>
                      Walk(schemas, v).end # "limit"
        <3>1. Throws("future").end # "current"
            BY DEF Throws
        <3>2. Walk(schemas, v).end = "current" => Walk(schemas, v).at = Current
            BY <1>1, WalkEnds
        <3>3. Migrate(schemas, Document(v)).end = "current" =>
                  CanLoadDirectly(Migrate(schemas, Document(v)).version)
            BY <2>1, <3>1, <3>2, MigrateFrom, DocumentHasHeader
        <3> QED BY <1>1, <3>3, WalkEnds
    <2> QED BY <2>2, <2>3 DEF MigrationsAgree, LoadableMeansMigratable, WalksNeverCircle
<1> QED BY <1>1, RegistryAlwaysFits, PTL

-----------------------------------------------------------------------------
(* The handles of the C interface *)

(* What is proved of merging, for the features a client can make. *)
MP == INSTANCE MergeProofs WITH
        Ids <- FeatureIds, Types <- FeatureTypes, Names <- ParamNames, Values <- ApiValues,
        Empty <- EmptyText, Unset <- <<"unset">>, NoName <- "",
        CustomValue <- EmptyText, CustomType <- <<"custom">>

(* What the assumption on Merge asks of its constants holds of those given here. *)
LEMMA TaggedValues ==
    ASSUME NEW v \in ApiValues PROVE v = <<v[1], v[2]>> /\ v # NoDirection
<1>1. CASE v \in GivenValues \ {NoDirection}
    BY <1>1, CApiAssumption
<1>2. CASE v = EmptyText
    BY <1>2 DEF EmptyText, NoDirection
<1>3. CASE v \in {"ref"} \X FeatureIds
    <2>1. PICK x \in FeatureIds : v = <<"ref", x>>
        BY <1>3
    <2>2. v[1] # NoDirection[1]
        BY <2>1 DEF NoDirection
    <2>3. v = <<v[1], v[2]>>
        BY <2>1
    <2> QED BY <2>2, <2>3
<1>4. CASE v \in {"refs"} \X Seq(FeatureIds)
    <2>1. PICK x \in Seq(FeatureIds) : v = <<"refs", x>>
        BY <1>4
    <2>2. v[1] # NoDirection[1]
        BY <2>1 DEF NoDirection
    <2>3. v = <<v[1], v[2]>>
        BY <2>1
    <2> QED BY <2>2, <2>3
<1> QED BY <1>1, <1>2, <1>3, <1>4 DEF ApiValues

LEMMA MergeConstantsFit == MP!MergeAssumption
<1>1. EmptyText \in ApiValues
    BY DEF ApiValues
<1>2. <<"unset">> \notin ApiValues
    <2> SUFFICES ASSUME <<"unset">> \in ApiValues PROVE FALSE
        OBVIOUS
    <2>1. PICK v : v = <<"unset">>
        OBVIOUS
    <2>2. PICK x, y : v = <<x, y>>
        BY <2>1, TaggedValues
    <2>3. Len(v) = 1 /\ Len(v) = 2
        BY <2>1, <2>2
    <2> QED BY <2>3
<1>3. "" \notin ParamNames
    BY CApiAssumption
<1>4. EmptyText \notin FeatureTypes /\ <<"custom">> \in FeatureTypes
    <2>1. EmptyText # <<"custom">>
        <3>1. Len(EmptyText) = 2 /\ Len(<<"custom">>) = 1
            BY DEF EmptyText
        <3> QED BY <3>1
    <2> QED BY <2>1, CApiAssumption DEF FeatureTypes
<1> QED BY <1>1, <1>2, <1>3, <1>4 DEF MP!MergeAssumption

(* Merge as CApi uses it, and as the lemmas on merging are about it, are the same. *)
LEMMA SameLists ==
    /\ \A list : M!IdsOf(list) = MP!IdsOf(list) /\ (M!Distinct(list) <=> MP!Distinct(list))
    /\ \A list, id : M!Has(list, id) <=> MP!Has(list, id)
    /\ \A list, id : M!Without(list, id) = MP!Without(list, id)
<1>1. \A list : M!IdsOf(list) = MP!IdsOf(list) /\ (M!Distinct(list) <=> MP!Distinct(list))
    BY Zenon DEF M!IdsOf, M!Distinct, MP!IdsOf, MP!Distinct
<1>2. \A list, id : M!Has(list, id) <=> MP!Has(list, id)
    BY Zenon DEF M!IdsOf, M!Has, MP!IdsOf, MP!Has
<1>3. \A list, id : M!Without(list, id) = MP!Without(list, id)
    BY ZenonT(40) DEF M!IdsOf, M!WithIds, M!Without, MP!IdsOf, MP!WithIds, MP!Without
<1> QED BY <1>1, <1>2, <1>3

LEMMA SameMerge ==
    ASSUME NEW b, NEW o, NEW t PROVE M!MergedTree(b, o, t) = MP!MergedTree(b, o, t)
BY ZenonT(40) DEF M!IdsOf, M!Has, M!At, M!IndexOf, M!WithIds, M!RemovedModified, M!InAllThree,
       M!Survives, M!RetainedBase, M!Added, M!MergedOrder, M!Combine, M!CombinedFeature,
       M!Param, M!MergedFeature, M!MergedTree, MP!IdsOf, MP!Has, MP!At, MP!IndexOf,
       MP!WithIds, MP!RemovedModified, MP!InAllThree, MP!Survives, MP!RetainedBase,
       MP!Added, MP!MergedOrder, MP!Combine, MP!CombinedFeature, MP!Param,
       MP!MergedFeature, MP!MergedTree

LEMMA SameConflicts ==
    ASSUME NEW b, NEW o, NEW t PROVE M!Conflicts(b, o, t) = MP!Conflicts(b, o, t)
BY DEF M!IdsOf, M!Has, M!At, M!IndexOf, M!WithIds, M!RemovedModified, M!InAllThree,
       M!BothAdded, M!Survives, M!RetainedBase, M!Clash, M!ParamClashes, M!TypeClashes,
       M!SuppressionClashes, M!Param, M!ParamConflict, M!OrEmpty, M!TypeConflict,
       M!SuppressionConflict, M!AddRemoveConflicts, M!RelativeOrder, M!PositionClashes,
       M!Conflicts, MP!IdsOf, MP!Has, MP!At, MP!IndexOf, MP!WithIds, MP!RemovedModified,
       MP!InAllThree, MP!BothAdded, MP!Survives, MP!RetainedBase, MP!Clash,
       MP!ParamClashes, MP!TypeClashes, MP!SuppressionClashes, MP!Param, MP!ParamConflict,
       MP!OrEmpty, MP!TypeConflict, MP!SuppressionConflict, MP!AddRemoveConflicts,
       MP!RelativeOrder, MP!PositionClashes, MP!Conflicts

LEMMA SameResolutions ==
    ASSUME NEW list, NEW conflicts, NEW chosen
    PROVE  M!ApplyResolutions(list, conflicts, chosen) = MP!ApplyResolutions(list, conflicts, chosen)
BY DEF M!IdsOf, M!Has, M!IndexOf, M!WithIds, M!Without, M!Resolved, M!Pick, M!Among,
       M!ResolvedParams, M!ResolvedFeature, M!InsertAt, M!Replaced, M!AddRemoveResolved,
       M!Settled, M!ApplyResolutions, MP!IdsOf, MP!Has, MP!IndexOf, MP!WithIds, MP!Without,
       MP!Resolved, MP!Pick, MP!Among, MP!ResolvedParams, MP!ResolvedFeature, MP!InsertAt,
       MP!Replaced, MP!AddRemoveResolved, MP!Settled, MP!ApplyResolutions

(* What the lemmas on merging say, for the constants given here. *)
LEMMA WithoutPicks ==
    ASSUME NEW S, NEW list \in Seq(S), MP!Distinct(list), NEW id
    PROVE  MP!PickedFrom(S, list, MP!IdsOf(list) \ {id}, MP!Without(list, id))
BY MP!WithoutFacts, MergeConstantsFit

LEMMA OverwritingPuts ==
    ASSUME NEW S, NEW list \in Seq(S), MP!Distinct(list), NEW f \in S, NEW i \in DOMAIN list,
           list[i].id = f.id
    PROVE  MP!PutIn(S, list, f, [list EXCEPT ![i] = f])
BY MP!OverwriteFacts, MergeConstantsFit

LEMMA StretchTaken ==
    ASSUME NEW S, NEW list \in Seq(S), MP!Distinct(list),
           NEW first \in 1..(Len(list) + 1), NEW last \in 0..Len(list), first <= last + 1
    PROVE  MP!StretchOf(S, list, first, last, SubSeq(list, first, last))
BY MP!SubSeqFacts, MergeConstantsFit

LEMMA ListsJoined ==
    ASSUME NEW S, NEW s \in Seq(S), NEW t \in Seq(S), MP!Distinct(s), MP!Distinct(t),
           MP!IdsOf(s) \cap MP!IdsOf(t) = {}
    PROVE  MP!Joined(S, s, t, s \o t)
BY MP!ConcatFacts, MergeConstantsFit

LEMMA InsertionPuts ==
    ASSUME NEW S, NEW list \in Seq(S), MP!Distinct(list), NEW f \in S, f.id \notin MP!IdsOf(list),
           NEW at \in 1..(Len(list) + 1)
    PROVE  MP!PutIn(S, list, f, MP!InsertAt(list, at, f))
BY MP!InsertAtFacts, MergeConstantsFit

LEMMA MergingMerges ==
    ASSUME NEW b \in Seq(MP!Features), NEW o \in Seq(MP!Features), NEW t \in Seq(MP!Features),
           MP!Distinct(b), MP!Distinct(o), MP!Distinct(t)
    PROVE  MP!MergedAs(b, o, t, MP!MergedTree(b, o, t))
BY MP!MergedTreeFacts, MergeConstantsFit

LEMMA ConflictsRecorded ==
    ASSUME NEW b \in Seq(MP!Features), NEW o \in Seq(MP!Features), NEW t \in Seq(MP!Features),
           MP!Distinct(b), MP!EmptyFrom(b, o), MP!EmptyFrom(b, t)
    PROVE  MP!Conflicts(b, o, t) \in MP!ConflictSets
BY MP!ConflictsTyped, MergeConstantsFit

LEMMA AddRemoveRecorded ==
    ASSUME NEW b \in Seq(MP!Features), NEW o \in Seq(MP!Features), NEW t \in Seq(MP!Features),
           MP!Distinct(b)
    PROVE  MP!AddRemoveSound(b, o, t, MP!AddRemoveConflicts(b, o, t))
BY MP!AddRemoveFacts, MergeConstantsFit

LEMMA ResolutionsApplied ==
    ASSUME NEW list \in MP!Trees, NEW conflicts \in MP!ConflictSets,
           MP!Recording(conflicts.addRemove), NEW chosen, MP!Choosing(chosen)
    PROVE  MP!ApplyResolutions(list, conflicts, chosen) \in MP!Trees
BY MP!ApplyResolutionsTyped, MergeConstantsFit

(* Features and lists of them, with types from a set T. *)
FeaturesOf(T) ==
    [id : FeatureIds, type : T, suppressed : BOOLEAN,
     params : UNION {[S -> ApiValues] : S \in SUBSET ParamNames}]

Lists(T) == {list \in Seq(FeaturesOf(T)) : MP!Distinct(list)}

LEMMA FittingFeature ==
    ASSUME NEW T, NEW f, FeatureFits(f, T)
    PROVE  f \in FeaturesOf(T)
<1>1. PICK S : S = DOMAIN f.params /\ S \subseteq ParamNames
    BY DEF FeatureFits
<1>2. f \in [id : FeatureIds, type : T, suppressed : BOOLEAN, params : [S -> ApiValues]]
    BY <1>1 DEF FeatureFits
<1>3. [S -> ApiValues] \subseteq UNION {[R -> ApiValues] : R \in SUBSET ParamNames}
    BY <1>1
<1> QED BY <1>2, <1>3 DEF FeaturesOf

LEMMA FittingList ==
    ASSUME NEW T, NEW list, ListFits(list, T)
    PROVE  list \in Lists(T)
<1>1. PICK R : R = {list[i] : i \in DOMAIN list}
    OBVIOUS
<1>2. list \in Seq(R) /\ MP!Distinct(list)
    BY <1>1, SameLists DEF ListFits
<1>3. \A i \in DOMAIN list : list[i] \in FeaturesOf(T)
    BY FittingFeature DEF ListFits
<1>4. list \in Seq(FeaturesOf(T))
    BY <1>2, <1>3
<1> QED BY <1>2, <1>4 DEF Lists

LEMMA MoreTypes ==
    ASSUME NEW T, NEW U, T \subseteq U PROVE Lists(T) \subseteq Lists(U)
<1>1. FeaturesOf(T) \subseteq FeaturesOf(U)
    BY DEF FeaturesOf
<1>2. Seq(FeaturesOf(T)) \subseteq Seq(FeaturesOf(U))
    BY <1>1
<1> QED BY <1>2 DEF Lists

LEMMA FeatureShape ==
    ASSUME NEW T, NEW f \in FeaturesOf(T)
    PROVE  /\ f.id \in FeatureIds /\ f.type \in T /\ f.suppressed \in BOOLEAN
           /\ f.params \in [DOMAIN f.params -> ApiValues] /\ DOMAIN f.params \subseteq ParamNames
           /\ f = [id |-> f.id, type |-> f.type, suppressed |-> f.suppressed, params |-> f.params]
<1>1. PICK P : P = UNION {[S -> ApiValues] : S \in SUBSET ParamNames}
    OBVIOUS
<1>2. f \in [id : FeatureIds, type : T, suppressed : BOOLEAN, params : P]
    BY <1>1 DEF FeaturesOf
<1>3. PICK S \in SUBSET ParamNames : f.params \in [S -> ApiValues]
    BY <1>1, <1>2
<1> QED BY <1>2, <1>3

LEMMA ShapedFeature ==
    ASSUME NEW T, NEW id \in FeatureIds, NEW type \in T, NEW suppressed \in BOOLEAN,
           NEW S \in SUBSET ParamNames, NEW params \in [S -> ApiValues]
    PROVE  [id |-> id, type |-> type, suppressed |-> suppressed, params |-> params] \in FeaturesOf(T)
<1>1. params \in UNION {[R -> ApiValues] : R \in SUBSET ParamNames}
    OBVIOUS
<1> QED BY <1>1 DEF FeaturesOf

(* A feature whose parameters become others, and nothing else of it. *)
LEMMA OtherParams ==
    ASSUME NEW T, NEW f \in FeaturesOf(T), NEW S \in SUBSET ParamNames, NEW params \in [S -> ApiValues]
    PROVE  [f EXCEPT !.params = params] \in FeaturesOf(T) /\ [f EXCEPT !.params = params].id = f.id
<1>1. PICK id, type, suppressed, old :
        /\ id \in FeatureIds /\ type \in T /\ suppressed \in BOOLEAN
        /\ f = [id |-> id, type |-> type, suppressed |-> suppressed, params |-> old]
    BY FeatureShape
<1>2. [f EXCEPT !.params = params]
        = [id |-> id, type |-> type, suppressed |-> suppressed, params |-> params]
    BY <1>1
<1> QED BY <1>1, <1>2, ShapedFeature

LEMMA OtherSuppression ==
    ASSUME NEW T, NEW f \in FeaturesOf(T)
    PROVE  [f EXCEPT !.suppressed = ~@] \in FeaturesOf(T) /\ [f EXCEPT !.suppressed = ~@].id = f.id
<1>1. PICK id, type, suppressed, S, params :
        /\ id \in FeatureIds /\ type \in T /\ suppressed \in BOOLEAN /\ S \in SUBSET ParamNames
        /\ params \in [S -> ApiValues]
        /\ f = [id |-> id, type |-> type, suppressed |-> suppressed, params |-> params]
    BY FeatureShape
<1>2. PICK not \in BOOLEAN : not = ~suppressed
    OBVIOUS
<1>3. [f EXCEPT !.suppressed = ~@]
        = [id |-> id, type |-> type, suppressed |-> not, params |-> params]
    BY <1>1, <1>2
<1> QED BY <1>1, <1>3, ShapedFeature

LEMMA WithParamTyped ==
    ASSUME NEW T, NEW f \in FeaturesOf(T), NEW n \in ParamNames, NEW v \in ApiValues
    PROVE  M!WithParam(f, n, v) \in FeaturesOf(T) /\ M!WithParam(f, n, v).id = f.id
<1>1. PICK S \in SUBSET ParamNames : S = DOMAIN f.params /\ f.params \in [S -> ApiValues]
    BY FeatureShape
<1>2. PICK params : params = [m \in S \cup {n} |-> IF m = n THEN v ELSE f.params[m]]
    OBVIOUS
<1>3. params \in [S \cup {n} -> ApiValues] /\ S \cup {n} \in SUBSET ParamNames
    BY <1>1, <1>2
<1>4. M!WithParam(f, n, v) = [f EXCEPT !.params = params]
    BY <1>1, <1>2 DEF M!WithParam
<1> QED BY <1>3, <1>4, OtherParams

-----------------------------------------------------------------------------
(* Lists after an edit *)

LEMMA ListShape ==
    ASSUME NEW T, NEW list \in Lists(T)
    PROVE  /\ list \in Seq(FeaturesOf(T)) /\ MP!Distinct(list)
           /\ Len(list) \in Nat /\ DOMAIN list = 1..Len(list)
           /\ \A i \in DOMAIN list : list[i] \in FeaturesOf(T)
<1>1. list \in Seq(FeaturesOf(T)) /\ MP!Distinct(list)
    BY DEF Lists
<1> QED BY <1>1

LEMMA EmptyList == ASSUME NEW T PROVE <<>> \in Lists(T)
BY DEF Lists, MP!Distinct

LEMMA LongerList ==
    ASSUME NEW T, NEW list \in Lists(T), NEW f \in FeaturesOf(T), ~MP!Has(list, f.id)
    PROVE  Append(list, f) \in Lists(T)
<1>1. list \in Seq(FeaturesOf(T)) /\ MP!Distinct(list)
      /\ Len(list) \in Nat /\ DOMAIN list = 1..Len(list)
    BY ListShape
<1>2. PICK new : new = Append(list, f)
    OBVIOUS
<1>3. /\ new \in Seq(FeaturesOf(T)) /\ DOMAIN new = 1..(Len(list) + 1)
      /\ new[Len(list) + 1] = f /\ \A i \in DOMAIN list : new[i] = list[i]
    BY <1>1, <1>2
<1>4. \A i \in DOMAIN list : list[i].id # f.id
    BY DEF MP!Has, MP!IdsOf
<1>5. ASSUME NEW i \in DOMAIN new, NEW j \in DOMAIN new, new[i].id = new[j].id
      PROVE  i = j
    <2>1. CASE i \in DOMAIN list /\ j \in DOMAIN list
        BY <1>1, <1>3, <1>5, <2>1 DEF MP!Distinct
    <2>2. CASE i = Len(list) + 1 /\ j \in DOMAIN list
        BY <1>3, <1>4, <1>5, <2>2
    <2>3. CASE j = Len(list) + 1 /\ i \in DOMAIN list
        BY <1>3, <1>4, <1>5, <2>3
    <2> QED BY <1>1, <1>3, <2>1, <2>2, <2>3
<1> QED BY <1>2, <1>3, <1>5 DEF Lists, MP!Distinct

LEMMA ShorterList ==
    ASSUME NEW T, NEW list \in Lists(T), NEW id
    PROVE  M!Without(list, id) \in Lists(T)
<1>1. list \in Seq(FeaturesOf(T)) /\ MP!Distinct(list)
    BY ListShape
<1>2. MP!PickedFrom(FeaturesOf(T), list, MP!IdsOf(list) \ {id}, MP!Without(list, id))
    BY <1>1, WithoutPicks
<1>3. MP!Without(list, id) \in Lists(T)
    BY <1>2 DEF MP!PickedFrom, Lists
<1> QED BY <1>3, SameLists

(* One feature gives way to another of its id. *)
LEMMA OverwrittenList ==
    ASSUME NEW T, NEW list \in Lists(T), NEW i \in DOMAIN list, NEW f \in FeaturesOf(T),
           f.id = list[i].id
    PROVE  [list EXCEPT ![i] = f] \in Lists(T)
<1>1. PICK new : new = [list EXCEPT ![i] = f]
    OBVIOUS
<1>2. MP!PutIn(FeaturesOf(T), list, f, new)
    <2>1. list \in Seq(FeaturesOf(T)) /\ MP!Distinct(list)
        BY ListShape
    <2> QED BY <1>1, <2>1, OverwritingPuts
<1> QED BY <1>1, <1>2 DEF MP!PutIn, Lists

(* A feature is taken out and put back, as it is or changed, where it was or elsewhere. *)
LEMMA MovedList ==
    ASSUME NEW T, NEW list \in Lists(T), NEW i \in DOMAIN list, NEW to \in DOMAIN list,
           NEW f \in FeaturesOf(T), f.id = list[i].id
    PROVE  InsertAt(RemoveAt(list, i), to, f) \in Lists(T)
<1>1. /\ list \in Seq(FeaturesOf(T)) /\ MP!Distinct(list) /\ Len(list) \in Nat
      /\ DOMAIN list = 1..Len(list) /\ i \in 1..Len(list) /\ to \in 1..Len(list)
    BY ListShape
<1>2. PICK a, c, rest : /\ a = SubSeq(list, 1, i - 1) /\ c = SubSeq(list, i + 1, Len(list))
                        /\ rest = a \o c
    OBVIOUS
<1>3. MP!StretchOf(FeaturesOf(T), list, 1, i - 1, a)
    <2>1. 1 \in 1..(Len(list) + 1) /\ i - 1 \in 0..Len(list) /\ 1 <= i - 1 + 1
        BY <1>1
    <2> QED BY <1>1, <1>2, <2>1, StretchTaken
<1>4. MP!StretchOf(FeaturesOf(T), list, i + 1, Len(list), c)
    <2>1. i + 1 \in 1..(Len(list) + 1) /\ Len(list) \in 0..Len(list) /\ i + 1 <= Len(list) + 1
        BY <1>1
    <2> QED BY <1>1, <1>2, <2>1, StretchTaken
<1>5. /\ a \in Seq(FeaturesOf(T)) /\ MP!Distinct(a) /\ c \in Seq(FeaturesOf(T)) /\ MP!Distinct(c)
      /\ MP!IdsOf(a) = {list[k].id : k \in 1..(i - 1)}
      /\ MP!IdsOf(c) = {list[k].id : k \in (i + 1)..Len(list)}
    BY <1>3, <1>4 DEF MP!StretchOf
<1>6. MP!IdsOf(a) \cap MP!IdsOf(c) = {} /\ f.id \notin MP!IdsOf(a) /\ f.id \notin MP!IdsOf(c)
    <2>1. ASSUME NEW k \in 1..(i - 1), NEW l \in i..Len(list) PROVE list[k].id # list[l].id
        BY <1>1 DEF MP!Distinct
    <2>2. ASSUME NEW l \in (i + 1)..Len(list) PROVE list[i].id # list[l].id
        BY <1>1 DEF MP!Distinct
    <2>3. ASSUME NEW k \in 1..(i - 1), NEW l \in (i + 1)..Len(list) PROVE list[k].id # list[l].id
        BY <1>1, <2>1
    <2>4. ASSUME NEW k \in 1..(i - 1) PROVE list[k].id # list[i].id
        BY <1>1, <2>1
    <2> QED BY <1>5, <2>2, <2>3, <2>4
<1>7. MP!Joined(FeaturesOf(T), a, c, rest)
    BY <1>2, <1>5, <1>6, ListsJoined
<1>8. rest \in Seq(FeaturesOf(T)) /\ MP!Distinct(rest)
      /\ MP!IdsOf(rest) = MP!IdsOf(a) \cup MP!IdsOf(c)
    BY <1>7 DEF MP!Joined
<1>9. Len(rest) = Len(list) - 1
    <2>1. Len(a) = i - 1 /\ Len(c) = Len(list) - i
        BY <1>1, <1>2, SubSeqProperties
    <2>2. Len(rest) = Len(a) + Len(c)
        BY <1>2, <1>5
    <2> QED BY <1>1, <2>1, <2>2
<1>10. PICK new : new = MP!InsertAt(rest, to, f)
    OBVIOUS
<1>11. MP!PutIn(FeaturesOf(T), rest, f, new)
    <2>1. to \in 1..(Len(rest) + 1)
        BY <1>1, <1>9
    <2>2. f.id \notin MP!IdsOf(rest)
        BY <1>6, <1>8
    <2> QED BY <1>8, <1>10, <2>1, <2>2, InsertionPuts
<1>12. new = InsertAt(RemoveAt(list, i), to, f)
    BY <1>2, <1>10, Zenon DEF MP!InsertAt, InsertAt, RemoveAt
<1> QED BY <1>11, <1>12 DEF MP!PutIn, Lists

(* Every feature gives way to another of its id. *)
LEMMA RewrittenList ==
    ASSUME NEW T, NEW list \in Lists(T), NEW new, new = [i \in DOMAIN list |-> new[i]],
           \A i \in DOMAIN list : new[i] \in FeaturesOf(T) /\ new[i].id = list[i].id
    PROVE  new \in Lists(T)
<1>1. list \in Seq(FeaturesOf(T)) /\ MP!Distinct(list)
      /\ Len(list) \in Nat /\ DOMAIN list = 1..Len(list)
    BY ListShape
<1>2. DOMAIN new = 1..Len(list)
    BY <1>1
<1>3. new \in Seq(FeaturesOf(T))
    BY <1>1
<1>4. MP!Distinct(new)
    <2> SUFFICES ASSUME NEW i \in 1..Len(list), NEW j \in 1..Len(list), new[i].id = new[j].id
                 PROVE  i = j
        BY <1>2, Zenon DEF MP!Distinct
    <2>1. i \in DOMAIN list /\ j \in DOMAIN list
        BY <1>1
    <2>2. list[i].id = list[j].id
        BY <2>1, Zenon
    <2> QED BY <1>1, <2>1, <2>2, Zenon DEF MP!Distinct
<1> QED BY <1>3, <1>4 DEF Lists

(* Distinct ids, counted. *)
LEMMA CountedIds ==
    ASSUME NEW T, NEW list \in Lists(T)
    PROVE  Cardinality(M!IdsOf(list)) = Len(list)
<1>1. MP!Distinct(list) /\ Len(list) \in Nat /\ DOMAIN list = 1..Len(list)
    BY ListShape
<1>2. PICK ids : ids = M!IdsOf(list) /\ ids = {list[i].id : i \in 1..Len(list)}
    BY <1>1 DEF M!IdsOf
<1> DEFINE f == [i \in 1..Len(list) |-> list[i].id]
<1>3. f \in Bijection(1..Len(list), ids)
    <2>1. f \in [1..Len(list) -> ids] /\ \A id \in ids : \E i \in 1..Len(list) : f[i] = id
        BY <1>2
    <2>2. \A i, j \in 1..Len(list) : f[i] = f[j] => i = j
        BY <1>1 DEF MP!Distinct
    <2> QED BY <2>1, <2>2 DEF Bijection, Injection, Surjection, IsInjective
<1>4. ExistsBijection(1..Len(list), ids)
    BY <1>3 DEF ExistsBijection
<1>5. Cardinality(ids) = Len(list)
    BY <1>1, <1>4, FS_CountingElements
<1> QED BY <1>2, <1>5

-----------------------------------------------------------------------------
(* What each edit makes of a list *)

(* References stay references to features. *)
LEMMA ReferenceValues ==
    ASSUME NEW v \in ApiValues
    PROVE  /\ v[1] = "ref" => v[2] \in FeatureIds
           /\ v[1] = "refs" => v[2] \in Seq(FeatureIds)
<1>1. CASE v \in GivenValues \ {NoDirection}
    BY <1>1, CApiAssumption
<1>2. CASE v = EmptyText
    BY <1>2 DEF EmptyText
<1>3. CASE v \in {"ref"} \X FeatureIds
    <2>1. PICK x \in FeatureIds : v = <<"ref", x>>
        BY <1>3
    <2> QED BY <2>1
<1>4. CASE v \in {"refs"} \X Seq(FeatureIds)
    <2>1. PICK x \in Seq(FeatureIds) : v = <<"refs", x>>
        BY <1>4
    <2> QED BY <2>1
<1> QED BY <1>1, <1>2, <1>3, <1>4 DEF ApiValues

LEMMA ReferencesAreValues ==
    /\ \A x \in FeatureIds : <<"ref", x>> \in ApiValues
    /\ \A refs \in Seq(FeatureIds) : <<"refs", refs>> \in ApiValues
<1>1. ASSUME NEW x \in FeatureIds PROVE <<"ref", x>> \in {"ref"} \X FeatureIds
    OBVIOUS
<1>2. ASSUME NEW refs \in Seq(FeatureIds) PROVE <<"refs", refs>> \in {"refs"} \X Seq(FeatureIds)
    OBVIOUS
<1> QED BY <1>1, <1>2, Zenon DEF ApiValues

LEMMA RenamedTyped ==
    ASSUME NEW v \in ApiValues, NEW old \in FeatureIds, NEW new \in FeatureIds
    PROVE  Renamed(v, old, new) \in ApiValues
<1>1. CASE v[1] = "ref"
    <2>1. PICK x \in FeatureIds : x = IF v[2] = old THEN new ELSE v[2]
        BY <1>1, ReferenceValues
    <2>2. Renamed(v, old, new) = <<"ref", x>>
        BY <1>1, <2>1 DEF Renamed
    <2> QED BY <2>2, ReferencesAreValues
<1>2. CASE v[1] = "refs"
    <2>1. PICK was \in Seq(FeatureIds) : was = v[2]
        BY <1>2, ReferenceValues
    <2>2. PICK refs : refs = [k \in DOMAIN was |-> IF was[k] = old THEN new ELSE was[k]]
        OBVIOUS
    <2>3. refs \in Seq(FeatureIds)
        BY <2>2
    <2>4. Renamed(v, old, new) = <<"refs", refs>>
        <3>1. v[1] # "ref"
            BY <1>2
        <3> QED BY <1>2, <2>1, <2>2, <3>1 DEF Renamed
    <2> QED BY <2>3, <2>4, ReferencesAreValues
<1>3. CASE v[1] # "ref" /\ v[1] # "refs"
    BY <1>3 DEF Renamed
<1> QED BY <1>1, <1>2, <1>3

(* The list in which every reference to one feature has become one to another. *)
LEMMA RenamingTyped ==
    ASSUME NEW T, NEW list \in Lists(T), NEW old \in FeatureIds, NEW new \in FeatureIds
    PROVE  [i \in DOMAIN list |->
              [list[i] EXCEPT !.params = [n \in DOMAIN @ |-> Renamed(@[n], old, new)]]] \in Lists(T)
<1> DEFINE made == [i \in DOMAIN list |->
              [list[i] EXCEPT !.params = [n \in DOMAIN @ |-> Renamed(@[n], old, new)]]]
<1>1. ASSUME NEW i \in DOMAIN list
      PROVE  made[i] \in FeaturesOf(T) /\ made[i].id = list[i].id
    <2>1. PICK f \in FeaturesOf(T) : f = list[i]
        BY ListShape
    <2>2. PICK S \in SUBSET ParamNames : S = DOMAIN f.params /\ f.params \in [S -> ApiValues]
        BY FeatureShape
    <2>3. PICK params : params = [n \in S |-> Renamed(f.params[n], old, new)]
        OBVIOUS
    <2>4. params \in [S -> ApiValues]
        BY <2>2, <2>3, RenamedTyped
    <2>5. made[i] = [f EXCEPT !.params = params]
        BY <2>1, <2>2, <2>3
    <2>6. PICK g : g = [f EXCEPT !.params = params] /\ g \in FeaturesOf(T) /\ g.id = f.id
        BY <2>2, <2>4, OtherParams
    <2> HIDE DEF made
    <2> QED BY <2>1, <2>5, <2>6
<1>2. made = [i \in DOMAIN list |-> made[i]]
    OBVIOUS
<1> HIDE DEF made
<1>3. made \in Lists(T)
    BY <1>1, <1>2, RewrittenList
<1> QED BY <1>3 DEF made

LEMMA RefsGrow ==
    ASSUME NEW T, NEW f \in FeaturesOf(T), NEW n \in ParamNames, NEW r \in FeatureIds,
           NEW held, held = M!Param(f, n),
           NEW refs, refs = IF held[1] = "refs" THEN held[2] ELSE <<>>
    PROVE  <<"refs", Append(refs, r)>> \in ApiValues
<1>1. CASE n \in DOMAIN f.params
    <2>1. held \in ApiValues
        <3>1. held = f.params[n]
            BY <1>1 DEF M!Param
        <3> QED BY <1>1, <3>1, FeatureShape
    <2>2. refs \in Seq(FeatureIds)
        <3>1. CASE held[1] = "refs"
            BY <2>1, <3>1, ReferenceValues
        <3>2. CASE held[1] # "refs"
            <4>1. refs = <<>>
                BY <3>2
            <4>2. PICK none \in Seq(FeatureIds) : none = <<>>
                BY EmptySeq
            <4> QED BY <4>1, <4>2
        <3> QED BY <3>1, <3>2
    <2>3. Append(refs, r) \in Seq(FeatureIds)
        BY <2>2
    <2> QED BY <2>3, ReferencesAreValues
<1>2. CASE n \notin DOMAIN f.params
    <2>1. held = <<"unset">>
        BY <1>2 DEF M!Param
    <2>2. held[1] = "unset"
        BY <2>1
    <2>3. refs = <<>>
        BY <2>2
    <2>4. PICK none \in Seq(FeatureIds) : none = <<>>
        BY EmptySeq
    <2>5. Append(none, r) \in Seq(FeatureIds)
        OBVIOUS
    <2>6. Append(refs, r) \in Seq(FeatureIds)
        BY <2>3, <2>4, <2>5
    <2> QED BY <2>6, ReferencesAreValues
<1> QED BY <1>1, <1>2

LEMMA ParamLeft ==
    ASSUME NEW T, NEW f \in FeaturesOf(T), NEW n,
           NEW rest, rest = [m \in DOMAIN f.params \ {n} |-> f.params[m]]
    PROVE  [f EXCEPT !.params = rest] \in FeaturesOf(T) /\ [f EXCEPT !.params = rest].id = f.id
<1>1. PICK S \in SUBSET ParamNames : S = DOMAIN f.params /\ f.params \in [S -> ApiValues]
    BY FeatureShape
<1>2. rest \in [S \ {n} -> ApiValues] /\ S \ {n} \in SUBSET ParamNames
    BY <1>1
<1> QED BY <1>2, OtherParams

-----------------------------------------------------------------------------
(* What every handle holds, and who lent it *)

AllTypes == FeatureTypes \cup {EmptyText}

ResultFits(data) ==
    /\ data = [list |-> data.list, conflicts |-> data.conflicts, of |-> data.of, bases |-> data.bases]
    /\ data.list \in Lists(AllTypes)
    /\ data.conflicts \in MP!ConflictSets /\ MP!Recording(data.conflicts.addRemove)
    /\ \A k \in 1..3 : data.of[k] \in Lists(FeatureTypes)

Holds(kind, data) ==
    \/ kind = "context" /\ data = NothingHeld
    \/ kind = "tree" /\ data = TreeHeld(data.list) /\ data.list \in Lists(AllTypes)
    \/ /\ kind = "studio" /\ data = StudioHeld(data.list, data.schema)
       /\ data.list \in Lists(FeatureTypes) /\ SchemaFits(data.schema)
    \/ /\ kind = "config" /\ data = ConfigHeld(data.schema, data.values)
       /\ SchemaFits(data.schema) /\ ValuesFit(data.schema, data.values)
    \/ /\ kind = "workspace" /\ data = WorkspaceHeld(data.list, data.base)
       /\ data.list \in Lists(FeatureTypes) /\ data.base \in Lists(FeatureTypes)
    \/ kind = "result" /\ ResultFits(data)

(* The tree of a result is as it was merged until somebody borrows it. *)
Unedited(r) ==
    r.kind = "result" /\ r.lent = 0 =>
        r.data.list = M!MergedTree(r.data.of[1], r.data.of[2], r.data.of[3])

Shaped(r) ==
    r = [kind |-> r.kind, live |-> r.live, ctx |-> r.ctx, lender |-> r.lender, lent |-> r.lent,
         data |-> r.data]

SoundRecord(n, r) ==
    /\ Shaped(r)
    /\ r.kind \in Kinds /\ r.live \in BOOLEAN
    /\ r.ctx \in 1..n /\ r.lender \in 0..n /\ r.lent \in 0..n
    /\ Holds(r.kind, r.data) /\ Unedited(r)

TableSound(table) ==
    /\ \E S : table \in Seq(S)
    /\ \A h \in 1..Len(table) : SoundRecord(Len(table), table[h])
    /\ Linked(table)

LEMMA TableShape ==
    ASSUME NEW table, TableSound(table)
    PROVE  /\ Len(table) \in Nat /\ DOMAIN table = 1..Len(table)
           /\ \A h \in DOMAIN table : SoundRecord(Len(table), table[h])
<1>1. PICK S : table \in Seq(S)
    BY DEF TableSound
<1>2. Len(table) \in Nat /\ DOMAIN table = 1..Len(table)
    BY <1>1
<1> QED BY <1>2 DEF TableSound

LEMMA MoreHandles ==
    ASSUME NEW n \in Nat, NEW r, SoundRecord(n, r) PROVE SoundRecord(n + 1, r)
BY DEF SoundRecord

(* A handle that was not lent and lends nothing comes last. *)
LEMMA HandingOut ==
    ASSUME NEW table, TableSound(table), NEW r, SoundRecord(Len(table) + 1, r), r.lender = 0, r.lent = 0
    PROVE  /\ TableSound(Append(table, r))
           /\ HeldBy(Append(table, r))
                = HeldBy(table) \cup (IF r.live /\ r.kind # "config" THEN {r.ctx} ELSE {})
<1>1. PICK S : table \in Seq(S)
    BY DEF TableSound
<1>2. PICK n \in Nat : n = Len(table) /\ DOMAIN table = 1..n
    BY <1>1
<1>3. PICK new : new = Append(table, r)
    OBVIOUS
<1>4. new \in Seq(S \cup {r})
    <2>1. table \in Seq(S \cup {r})
        BY <1>1
    <2> QED BY <1>3, <2>1
<1>5. /\ Len(new) = n + 1 /\ DOMAIN new = 1..(n + 1) /\ new[n + 1] = r
      /\ \A h \in 1..n : new[h] = table[h]
    BY <1>1, <1>2, <1>3
<1>6. ASSUME NEW h \in 1..(n + 1) PROVE SoundRecord(n + 1, new[h])
    <2>1. CASE h = n + 1
        BY <1>2, <1>5, <2>1
    <2>2. CASE h \in 1..n
        BY <1>2, <1>5, <2>2, MoreHandles DEF TableSound
    <2> QED BY <2>1, <2>2
<1>7. Linked(new)
    <2> SUFFICES ASSUME NEW h \in 1..(n + 1)
                 PROVE  /\ new[h].lender # 0 =>
                             /\ new[h].kind = "tree"
                             /\ new[new[h].lender].lent = h
                             /\ new[h].live <=> new[new[h].lender].live
                        /\ new[h].lent # 0 =>
                             /\ new[h].kind \in {"studio", "workspace", "result"}
                             /\ new[new[h].lent].lender = h
        BY <1>5 DEF Linked
    <2>1. CASE h = n + 1
        BY <1>5, <2>1
    <2>2. CASE h \in 1..n
        <3>1. new[h] = table[h] /\ table[h].lender \in 0..n /\ table[h].lent \in 0..n
            BY <1>2, <1>5, <2>2 DEF TableSound, SoundRecord
        <3>2. table[h].lender # 0 =>
                 table[h].lender \in 1..n /\ new[table[h].lender] = table[table[h].lender]
            BY <1>5, <3>1
        <3>3. table[h].lent # 0 =>
                 table[h].lent \in 1..n /\ new[table[h].lent] = table[table[h].lent]
            BY <1>5, <3>1
        <3>4. /\ table[h].lender # 0 =>
                   /\ table[h].kind = "tree"
                   /\ table[table[h].lender].lent = h
                   /\ table[h].live <=> table[table[h].lender].live
              /\ table[h].lent # 0 =>
                   /\ table[h].kind \in {"studio", "workspace", "result"}
                   /\ table[table[h].lent].lender = h
            BY <1>2, <2>2 DEF TableSound, Linked
        <3> QED BY <3>1, <3>2, <3>3, <3>4
    <2> QED BY <2>1, <2>2
<1>8. HeldBy(new) = HeldBy(table) \cup (IF r.live /\ r.kind # "config" THEN {r.ctx} ELSE {})
    <2>1. ASSUME NEW c \in HeldBy(new)
          PROVE  c \in HeldBy(table) \cup (IF r.live /\ r.kind # "config" THEN {r.ctx} ELSE {})
        <3>1. PICK h \in 1..(n + 1) : new[h].live /\ new[h].kind # "config" /\ c = new[h].ctx
            BY <1>5, <2>1 DEF HeldBy
        <3>2. CASE h = n + 1
            BY <1>5, <3>1, <3>2
        <3>3. CASE h \in 1..n
            BY <1>2, <1>5, <3>1, <3>3 DEF HeldBy
        <3> QED BY <3>2, <3>3
    <2>2. HeldBy(table) \subseteq HeldBy(new)
        <3> SUFFICES ASSUME NEW h \in 1..n, table[h].live, table[h].kind # "config"
                     PROVE  table[h].ctx \in HeldBy(new)
            BY <1>2 DEF HeldBy
        <3>1. h \in 1..(n + 1) /\ new[h] = table[h]
            BY <1>5
        <3> QED BY <1>5, <3>1 DEF HeldBy
    <2>3. r.live /\ r.kind # "config" => r.ctx \in HeldBy(new)
        <3>1. n + 1 \in 1..(n + 1)
            OBVIOUS
        <3> QED BY <1>5, <3>1 DEF HeldBy
    <2> QED BY <2>1, <2>2, <2>3
<1> QED BY <1>2, <1>3, <1>4, <1>5, <1>6, <1>7, <1>8 DEF TableSound

(* A handle of which one field becomes another. *)
Changed(r, alive, lent, data) ==
    [kind |-> r.kind, live |-> alive, ctx |-> r.ctx, lender |-> r.lender, lent |-> lent, data |-> data]

LEMMA FieldsChanged ==
    ASSUME NEW r, Shaped(r), NEW alive, NEW lent, NEW data
    PROVE  /\ [r EXCEPT !.live = alive] = Changed(r, alive, r.lent, r.data)
           /\ [r EXCEPT !.lent = lent] = Changed(r, r.live, lent, r.data)
           /\ [r EXCEPT !.data = data] = Changed(r, r.live, r.lent, data)
<1>1. PICK k, l, c, le, ln, d :
        /\ r = [kind |-> k, live |-> l, ctx |-> c, lender |-> le, lent |-> ln, data |-> d]
        /\ k = r.kind /\ l = r.live /\ c = r.ctx /\ le = r.lender /\ ln = r.lent /\ d = r.data
    BY DEF Shaped
<1>2. [r EXCEPT !.live = alive] = Changed(r, alive, r.lent, r.data)
    BY <1>1 DEF Changed
<1>3. [r EXCEPT !.lent = lent] = Changed(r, r.live, lent, r.data)
    BY <1>1 DEF Changed
<1>4. [r EXCEPT !.data = data] = Changed(r, r.live, r.lent, data)
    BY <1>1 DEF Changed
<1> QED BY <1>2, <1>3, <1>4

LEMMA ChangedFields ==
    ASSUME NEW r, NEW alive, NEW lent, NEW data
    PROVE  LET s == Changed(r, alive, lent, data)
           IN  /\ Shaped(s) /\ s.kind = r.kind /\ s.live = alive /\ s.ctx = r.ctx
               /\ s.lender = r.lender /\ s.lent = lent /\ s.data = data
BY DEF Changed, Shaped

(* A holder's data become others. *)
DataSet(table, x, data, new) == new = [table EXCEPT ![x] = [@ EXCEPT !.data = data]]

LEMMA DataChanged ==
    ASSUME NEW table, TableSound(table), NEW x \in DOMAIN table, NEW data,
           Holds(table[x].kind, data),
           table[x].kind = "result" => table[x].lent # 0,
           NEW new, DataSet(table, x, data, new)
    PROVE  TableSound(new) /\ HeldBy(new) = HeldBy(table)
<1>1. PICK S : table \in Seq(S)
    BY DEF TableSound
<1>2. PICK n \in Nat : n = Len(table) /\ DOMAIN table = 1..n
    BY <1>1
<1>3. PICK r : r = table[x] /\ SoundRecord(n, r)
    BY <1>2 DEF TableSound
<1>4. PICK s : s = Changed(r, r.live, r.lent, data)
    OBVIOUS
<1>5. new = [table EXCEPT ![x] = s]
    <2>1. Shaped(r)
        BY <1>3 DEF SoundRecord
    <2>2. [r EXCEPT !.data = data] = s
        BY <1>4, <2>1, FieldsChanged
    <2> QED BY <1>3, <2>2 DEF DataSet
<1>6. /\ Shaped(s) /\ s.kind = r.kind /\ s.live = r.live /\ s.ctx = r.ctx
      /\ s.lender = r.lender /\ s.lent = r.lent /\ s.data = data
    BY <1>4, ChangedFields
<1>7. /\ new \in Seq(S \cup {s}) /\ Len(new) = n /\ DOMAIN new = 1..n /\ new[x] = s
      /\ \A h \in 1..n : h # x => new[h] = table[h]
    <2>1. table \in Seq(S \cup {s})
        BY <1>1
    <2> QED BY <1>2, <1>5, <2>1
<1>8. SoundRecord(n, s)
    BY <1>3, <1>6 DEF SoundRecord, Unedited
<1>9. \A h \in 1..n : SoundRecord(n, new[h])
    BY <1>2, <1>7, <1>8 DEF TableSound
<1>10. \A h \in 1..n : /\ new[h].lender = table[h].lender /\ new[h].lent = table[h].lent
                       /\ new[h].kind = table[h].kind /\ new[h].live = table[h].live
                       /\ new[h].ctx = table[h].ctx
    BY <1>3, <1>6, <1>7
<1>11. \A h \in 1..n : table[h].lender \in 0..n /\ table[h].lent \in 0..n
    BY <1>2 DEF TableSound, SoundRecord
<1>12. Linked(new)
    <2> SUFFICES ASSUME NEW h \in 1..n
                 PROVE  /\ new[h].lender # 0 =>
                             /\ new[h].kind = "tree"
                             /\ new[new[h].lender].lent = h
                             /\ new[h].live <=> new[new[h].lender].live
                        /\ new[h].lent # 0 =>
                             /\ new[h].kind \in {"studio", "workspace", "result"}
                             /\ new[new[h].lent].lender = h
        BY <1>7 DEF Linked
    <2>1. /\ table[h].lender # 0 =>
               /\ table[h].kind = "tree"
               /\ table[table[h].lender].lent = h
               /\ table[h].live <=> table[table[h].lender].live
          /\ table[h].lent # 0 =>
               /\ table[h].kind \in {"studio", "workspace", "result"}
               /\ table[table[h].lent].lender = h
        BY <1>2 DEF TableSound, Linked
    <2>2. table[h].lender # 0 => table[h].lender \in 1..n
        BY <1>11
    <2>3. table[h].lent # 0 => table[h].lent \in 1..n
        BY <1>11
    <2> QED BY <1>10, <2>1, <2>2, <2>3
<1>13. HeldBy(new) = HeldBy(table)
    <2>1. HeldBy(new) \subseteq HeldBy(table)
        <3> SUFFICES ASSUME NEW h \in 1..n, new[h].live, new[h].kind # "config"
                     PROVE  new[h].ctx \in HeldBy(table)
            BY <1>7 DEF HeldBy
        <3> QED BY <1>2, <1>10 DEF HeldBy
    <2>2. HeldBy(table) \subseteq HeldBy(new)
        <3> SUFFICES ASSUME NEW h \in 1..n, table[h].live, table[h].kind # "config"
                     PROVE  table[h].ctx \in HeldBy(new)
            BY <1>2 DEF HeldBy
        <3> QED BY <1>7, <1>10 DEF HeldBy
    <2> QED BY <2>1, <2>2
<1> QED BY <1>7, <1>9, <1>12, <1>13 DEF TableSound

(* Handles die: with one that lends dies what it lent, and no other borrowed tree. *)
LEMMA Freed ==
    ASSUME NEW table, TableSound(table), NEW dead,
           \A h \in DOMAIN table : table[h].lender # 0 => (h \in dead <=> table[h].lender \in dead),
           NEW new, new = [h \in DOMAIN table |-> [table[h] EXCEPT !.live = @ /\ h \notin dead]]
    PROVE  TableSound(new) /\ HeldBy(new) \subseteq HeldBy(table)
<1>1. PICK S : table \in Seq(S)
    BY DEF TableSound
<1>2. PICK n \in Nat : n = Len(table) /\ DOMAIN table = 1..n
    BY <1>1
<1> DEFINE lives(h) == table[h].live /\ h \notin dead
<1>3. ASSUME NEW h \in 1..n
      PROVE  new[h] = Changed(table[h], lives(h), table[h].lent, table[h].data)
    <2>1. new[h] = [table[h] EXCEPT !.live = lives(h)]
        BY <1>2
    <2> HIDE DEF lives
    <2> QED BY <1>2, <2>1, FieldsChanged DEF TableSound, SoundRecord
<1>4. DOMAIN new = 1..n /\ Len(new) = n /\ new \in Seq({new[h] : h \in 1..n})
    BY <1>2
<1>5. ASSUME NEW h \in 1..n
      PROVE  /\ Shaped(new[h]) /\ new[h].kind = table[h].kind /\ new[h].live = lives(h)
             /\ new[h].ctx = table[h].ctx /\ new[h].lender = table[h].lender
             /\ new[h].lent = table[h].lent /\ new[h].data = table[h].data
    <2> HIDE DEF lives
    <2>1. PICK s : s = Changed(table[h], lives(h), table[h].lent, table[h].data)
        OBVIOUS
    <2>2. /\ Shaped(s) /\ s.kind = table[h].kind /\ s.live = lives(h)
          /\ s.ctx = table[h].ctx /\ s.lender = table[h].lender
          /\ s.lent = table[h].lent /\ s.data = table[h].data
        BY <2>1, ChangedFields
    <2> QED BY <1>3, <2>1, <2>2
<1>6. ASSUME NEW h \in 1..n PROVE SoundRecord(n, new[h])
    <2>1. SoundRecord(n, table[h])
        BY <1>2 DEF TableSound
    <2>2. lives(h) \in BOOLEAN
        OBVIOUS
    <2> HIDE DEF lives
    <2> QED BY <1>5, <2>1, <2>2 DEF SoundRecord, Unedited
<1>7. \A h \in 1..n : table[h].lender \in 0..n /\ table[h].lent \in 0..n /\ table[h].live \in BOOLEAN
    BY <1>2 DEF TableSound, SoundRecord
<1>8. Linked(new)
    <2> SUFFICES ASSUME NEW h \in 1..n
                 PROVE  /\ new[h].lender # 0 =>
                             /\ new[h].kind = "tree"
                             /\ new[new[h].lender].lent = h
                             /\ new[h].live <=> new[new[h].lender].live
                        /\ new[h].lent # 0 =>
                             /\ new[h].kind \in {"studio", "workspace", "result"}
                             /\ new[new[h].lent].lender = h
        BY <1>4 DEF Linked
    <2>1. /\ table[h].lender # 0 =>
               /\ table[h].kind = "tree"
               /\ table[table[h].lender].lent = h
               /\ table[h].live <=> table[table[h].lender].live
          /\ table[h].lent # 0 =>
               /\ table[h].kind \in {"studio", "workspace", "result"}
               /\ table[table[h].lent].lender = h
        BY <1>2 DEF TableSound, Linked
    <2>2. CASE table[h].lender # 0
        <3>1. PICK l \in 1..n : l = table[h].lender
            BY <1>7, <2>2
        <3>2. h \in dead <=> l \in dead
            BY <1>2, <2>2, <3>1
        <3>3. lives(h) <=> lives(l)
            BY <2>1, <2>2, <3>1, <3>2
        <3>4. new[l].live = lives(l) /\ new[l].lent = table[l].lent /\ new[h].live = lives(h)
              /\ new[h].lender = l /\ new[h].kind = table[h].kind /\ new[h].lent = table[h].lent
            BY <1>5, <3>1
        <3>5. table[h].lent = 0
            BY <2>1, <2>2
        <3> HIDE DEF lives
        <3>6. new[h].live <=> new[l].live
            BY <3>3, <3>4
        <3> QED BY <2>1, <2>2, <3>1, <3>4, <3>5, <3>6
    <2>3. CASE table[h].lender = 0
        <3>1. table[h].lent # 0 => table[h].lent \in 1..n
            BY <1>7
        <3> HIDE DEF lives
        <3> QED BY <1>5, <2>1, <2>3, <3>1, ZenonT(40)
    <2>4. table[h].lender # 0 \/ table[h].lender = 0
        OBVIOUS
    <2> QED BY <2>2, <2>3, <2>4, ZenonT(40)
<1>9. HeldBy(new) \subseteq HeldBy(table)
    <2> SUFFICES ASSUME NEW c \in HeldBy(new) PROVE c \in HeldBy(table)
        OBVIOUS
    <2>1. PICK h \in 1..n : new[h].live /\ new[h].kind # "config" /\ c = new[h].ctx
        BY <1>4, Zenon DEF HeldBy
    <2>2. table[h].live /\ table[h].kind # "config" /\ new[h].ctx = table[h].ctx
        BY <1>5, <2>1
    <2> QED BY <1>2, <2>1, <2>2 DEF HeldBy
<1> QED BY <1>4, <1>6, <1>8, <1>9 DEF TableSound

(* A tree is borrowed: the lender and the new handle know each other. *)
LEMMA Borrowed ==
    ASSUME NEW table, TableSound(table), NEW x \in DOMAIN table,
           table[x].kind \in {"studio", "workspace", "result"}, table[x].live, table[x].lent = 0,
           NEW new, new = Append([table EXCEPT ![x].lent = Len(table) + 1],
                                 [Handle("tree", table[x].ctx, NothingHeld) EXCEPT !.lender = x])
    PROVE  TableSound(new) /\ HeldBy(new) = HeldBy(table)
<1>1. PICK S : table \in Seq(S)
    BY DEF TableSound
<1>2. PICK n \in Nat : n = Len(table) /\ DOMAIN table = 1..n
    BY <1>1
<1>3. PICK r : r = table[x] /\ SoundRecord(n, r)
    BY <1>2 DEF TableSound
<1>4. PICK s : s = Changed(r, r.live, n + 1, r.data)
    OBVIOUS
<1>5. [table EXCEPT ![x].lent = Len(table) + 1] = [table EXCEPT ![x] = s]
    <2>1. Shaped(r)
        BY <1>3 DEF SoundRecord
    <2>2. [r EXCEPT !.lent = n + 1] = s
        BY <1>4, <2>1, FieldsChanged
    <2> QED BY <1>2, <1>3, <2>2
<1>6. /\ Shaped(s) /\ s.kind = r.kind /\ s.live = r.live /\ s.ctx = r.ctx
      /\ s.lender = r.lender /\ s.lent = n + 1 /\ s.data = r.data
    BY <1>4, ChangedFields
<1>7. PICK b : b = [kind |-> "tree", live |-> TRUE, ctx |-> r.ctx, lender |-> x, lent |-> 0,
                    data |-> NothingHeld]
    OBVIOUS
<1>8. b = [Handle("tree", table[x].ctx, NothingHeld) EXCEPT !.lender = x]
    <2>1. Handle("tree", table[x].ctx, NothingHeld) =
            [kind |-> "tree", live |-> TRUE, ctx |-> table[x].ctx, lender |-> 0, lent |-> 0,
             data |-> NothingHeld]
        BY Zenon DEF Handle
    <2>2. PICK h : h = Handle("tree", table[x].ctx, NothingHeld)
        OBVIOUS
    <2>3. h = [kind |-> "tree", live |-> TRUE, ctx |-> r.ctx, lender |-> 0, lent |-> 0,
               data |-> NothingHeld]
        BY <1>3, <2>1, <2>2, Zenon
    <2>4. PICK k, l, none, d : k = "tree" /\ l = TRUE /\ none = 0 /\ d = NothingHeld
        OBVIOUS
    <2>5. h = [kind |-> k, live |-> l, ctx |-> r.ctx, lender |-> none, lent |-> none, data |-> d]
        BY <2>3, <2>4, Zenon
    <2>6. b = [kind |-> k, live |-> l, ctx |-> r.ctx, lender |-> x, lent |-> none, data |-> d]
        BY <1>7, <2>4, Zenon
    <2>7. [h EXCEPT !.lender = x] = b
        BY <2>5, <2>6
    <2> QED BY <2>2, <2>7
<1>9. /\ b.kind = "tree" /\ b.live = TRUE /\ b.ctx = r.ctx /\ b.lender = x /\ b.lent = 0
      /\ b.data = NothingHeld /\ Shaped(b)
    BY <1>7 DEF Shaped
<1>10. PICK mid : mid = [table EXCEPT ![x] = s] /\ new = Append(mid, b)
    BY <1>5, <1>8
<1>11. /\ mid \in Seq(S \cup {s, b}) /\ Len(mid) = n /\ mid[x] = s
       /\ \A h \in 1..n : h # x => mid[h] = table[h]
    <2>1. table \in Seq(S \cup {s, b})
        BY <1>1
    <2> QED BY <1>2, <1>10, <2>1
<1>12. /\ new \in Seq(S \cup {s, b}) /\ Len(new) = n + 1 /\ DOMAIN new = 1..(n + 1)
       /\ new[n + 1] = b /\ \A h \in 1..n : new[h] = mid[h]
    <2>1. PICK R : R = S \cup {s, b}
        OBVIOUS
    <2>2. mid \in Seq(R) /\ b \in R /\ Len(mid) = n
        BY <1>11, <2>1
    <2>3. new \in Seq(R) /\ Len(new) = n + 1 /\ new[n + 1] = b
        BY <1>10, <2>2
    <2>4. \A h \in 1..n : new[h] = mid[h]
        BY <1>10, <2>2
    <2>5. DOMAIN new = 1..(n + 1)
        BY <2>3
    <2> QED BY <2>1, <2>3, <2>4, <2>5
<1>13. x \in 1..n /\ new[x] = s /\ \A h \in 1..n : h # x => new[h] = table[h]
    BY <1>2, <1>11, <1>12
<1>14. \A h \in 1..(n + 1) : SoundRecord(n + 1, new[h])
    <2>1. SoundRecord(n + 1, b)
        <3>1. Holds("tree", NothingHeld)
            <4>1. NothingHeld = TreeHeld(NothingHeld.list) /\ NothingHeld.list = <<>>
                BY DEF NothingHeld, TreeHeld
            <4> QED BY <4>1, EmptyList DEF Holds
        <3>2. r.ctx \in 1..(n + 1)
            BY <1>3 DEF SoundRecord
        <3>3. Unedited(b)
            BY <1>9 DEF Unedited
        <3>4. b.lender \in 0..(n + 1) /\ b.lent \in 0..(n + 1) /\ b.ctx \in 1..(n + 1)
            BY <1>9, <1>13, <3>2
        <3>5. b.kind \in Kinds /\ b.live \in BOOLEAN /\ Holds(b.kind, b.data)
            BY <1>9, <3>1 DEF Kinds
        <3> QED BY <1>9, <3>3, <3>4, <3>5 DEF SoundRecord
    <2>2. SoundRecord(n + 1, s)
        BY <1>3, <1>6 DEF SoundRecord, Unedited
    <2>3. \A h \in 1..n : SoundRecord(n + 1, table[h])
        BY <1>2, MoreHandles DEF TableSound
    <2> SUFFICES ASSUME NEW h \in 1..(n + 1) PROVE SoundRecord(n + 1, new[h])
        OBVIOUS
    <2>4. h = n + 1 \/ h = x \/ (h \in 1..n /\ h # x)
        OBVIOUS
    <2> QED BY <1>12, <1>13, <2>1, <2>2, <2>3, <2>4
<1>15. Linked(new)
    <2> SUFFICES ASSUME NEW h \in 1..(n + 1)
                 PROVE  /\ new[h].lender # 0 =>
                             /\ new[h].kind = "tree"
                             /\ new[new[h].lender].lent = h
                             /\ new[h].live <=> new[new[h].lender].live
                        /\ new[h].lent # 0 =>
                             /\ new[h].kind \in {"studio", "workspace", "result"}
                             /\ new[new[h].lent].lender = h
        BY <1>12 DEF Linked
    <2>1. \A k \in 1..n :
            /\ table[k].lender # 0 =>
                 /\ table[k].kind = "tree"
                 /\ table[table[k].lender].lent = k
                 /\ table[k].live <=> table[table[k].lender].live
            /\ table[k].lent # 0 =>
                 /\ table[k].kind \in {"studio", "workspace", "result"}
                 /\ table[table[k].lent].lender = k
        BY <1>2 DEF TableSound, Linked
    <2>2. \A k \in 1..n : table[k].lender \in 0..n /\ table[k].lent \in 0..n
        BY <1>2 DEF TableSound, SoundRecord
    <2>3. r.live = TRUE
        <3>1. r.live \in BOOLEAN /\ r.live
            BY <1>3 DEF SoundRecord
        <3> QED BY <3>1
    <2>4. CASE h = n + 1
        <3>1. new[h].lender = x /\ new[h].lent = 0 /\ new[h].kind = "tree" /\ new[h].live = TRUE
            BY <1>9, <1>12, <2>4
        <3>2. new[x].lent = h /\ new[x].live = TRUE
            BY <1>6, <1>13, <2>3, <2>4
        <3> QED BY <3>1, <3>2
    <2>5. CASE h = x
        <3>1. table[x].lender = 0
            BY <1>13, <2>1
        <3>2. new[h].lender = 0 /\ new[h].lent = n + 1
              /\ new[h].kind \in {"studio", "workspace", "result"}
            BY <1>3, <1>6, <1>13, <2>5, <3>1
        <3>3. new[n + 1].lender = h
            BY <1>9, <1>12, <2>5
        <3> QED BY <3>2, <3>3
    <2>6. CASE h \in 1..n /\ h # x
        <3>1. new[h] = table[h]
            BY <1>13, <2>6
        <3>2. PICK e, t : e = table[h].lender /\ t = table[h].lent /\ e \in 0..n /\ t \in 0..n
            BY <2>2, <2>6
        <3>3. new[h].lender = e /\ new[h].lent = t /\ new[h].kind = table[h].kind
              /\ new[h].live = table[h].live
            BY <3>1, <3>2
        <3>4. e # 0 => new[e] = table[e]
            <4>1. e # 0 => e # x
                BY <1>2, <2>1, <2>6, <3>2
            <4>2. e # 0 => e \in 1..n
                BY <3>2
            <4> QED BY <1>13, <4>1, <4>2
        <3>5. t # 0 => new[t].lender = table[t].lender
            <4>1. CASE t = x
                BY <1>3, <1>6, <1>13, <4>1
            <4>2. CASE t # 0 /\ t # x
                <5>1. t \in 1..n
                    BY <3>2, <4>2
                <5> QED BY <1>13, <4>2, <5>1
            <4> QED BY <4>1, <4>2
        <3>6. /\ e # 0 => table[h].kind = "tree" /\ table[e].lent = h
                          /\ (table[h].live <=> table[e].live)
              /\ t # 0 => table[h].kind \in {"studio", "workspace", "result"} /\ table[t].lender = h
            BY <2>1, <2>6, <3>2
        <3>7. e # 0 => /\ new[h].kind = "tree" /\ new[e].lent = h
                       /\ (new[h].live <=> new[e].live)
            BY <3>1, <3>4, <3>6
        <3>8. t # 0 => new[h].kind \in {"studio", "workspace", "result"} /\ new[t].lender = h
            BY <3>3, <3>5, <3>6
        <3> QED BY <3>3, <3>7, <3>8
    <2>7. h = n + 1 \/ h = x \/ (h \in 1..n /\ h # x)
        OBVIOUS
    <2> QED BY <2>4, <2>5, <2>6, <2>7
<1>16. HeldBy(new) = HeldBy(table)
    <2>1. \A h \in 1..n : new[h].ctx = table[h].ctx /\ new[h].live = table[h].live
                          /\ new[h].kind = table[h].kind
        BY <1>3, <1>6, <1>13
    <2>2. ASSUME NEW c \in HeldBy(new) PROVE c \in HeldBy(table)
        <3>1. PICK h \in 1..(n + 1) : new[h].live /\ new[h].kind # "config" /\ c = new[h].ctx
            BY <1>12, <2>2, Zenon DEF HeldBy
        <3>2. CASE h = n + 1
            <4>1. c = table[x].ctx
                BY <1>3, <1>9, <1>12, <3>1, <3>2
            <4> QED BY <4>1 DEF HeldBy
        <3>3. CASE h \in 1..n
            <4>1. table[h].live /\ table[h].kind # "config" /\ c = table[h].ctx
                BY <2>1, <3>1, <3>3
            <4> QED BY <1>2, <3>3, <4>1 DEF HeldBy
        <3> QED BY <3>2, <3>3
    <2>3. ASSUME NEW c \in HeldBy(table) PROVE c \in HeldBy(new)
        <3>1. PICK h \in 1..n : table[h].live /\ table[h].kind # "config" /\ c = table[h].ctx
            BY <1>2, <2>3, Zenon DEF HeldBy
        <3>2. h \in 1..(n + 1)
            OBVIOUS
        <3>3. new[h].live /\ new[h].kind # "config" /\ c = new[h].ctx
            BY <2>1, <3>1, Zenon
        <3> QED BY <1>12, <3>2, <3>3 DEF HeldBy
    <2> QED BY <2>2, <2>3
<1> QED BY <1>12, <1>14, <1>15, <1>16 DEF TableSound

-----------------------------------------------------------------------------
(* The invariant, and what keeps it *)

CAInv ==
    /\ TableSound(handles)
    /\ contexts = HeldBy(handles)
    /\ apiCalls \in 0..MaxApiCalls
    /\ ConfigsFitStudio /\ ReadsAreWhole

LEMMA UnreadFits == ASSUME Unread PROVE ConfigsFitStudio' /\ ReadsAreWhole'
<1>1. ConfigsFitStudio'
    <2>1. lastRun'.schema = <<>> /\ lastRun'.values = <<>>
        BY DEF Unread, NotRun
    <2>2. DOMAIN lastRun'.values = {} /\ InputsOf(lastRun'.schema) = {}
        BY <2>1 DEF InputsOf
    <2> QED BY <2>2 DEF ConfigsFitStudio
<1>2. ReadsAreWhole'
    <2>1. /\ lastRead'.given = FALSE /\ lastRead'.code = "OK" /\ lastRead'.size = 0
          /\ lastRead'.buffer = <<>>
        BY DEF Unread, NotRead
    <2>2. Len(lastRead'.buffer) <= lastRead'.size
        BY <2>1
    <2> QED BY <2>1, <2>2 DEF ReadsAreWhole
<1> QED BY <1>1, <1>2

LEMMA CallsCounted ==
    ASSUME apiCalls \in 0..MaxApiCalls, NEW code, Called(code)
    PROVE  apiCalls' \in 0..MaxApiCalls
<1>1. PICK m \in Nat : m = MaxApiCalls
    <2>1. MaxApiCalls \in Nat
        BY CApiAssumption, Zenon
    <2> QED BY <2>1
<1>2. PICK k \in 0..m : k = apiCalls
    BY <1>1
<1>3. k < m /\ apiCalls' = k + 1
    BY <1>1, <1>2 DEF Called
<1> QED BY <1>1, <1>2, <1>3

LEMMA RefusedKeeps == ASSUME CAInv, NEW code, Refused(code) PROVE CAInv'
<1>1. apiCalls' \in 0..MaxApiCalls
    BY CallsCounted DEF CAInv, Refused
<1>2. ConfigsFitStudio' /\ ReadsAreWhole'
    BY UnreadFits DEF Refused
<1>3. handles' = handles /\ contexts' = contexts
    BY DEF Refused
<1> QED BY <1>1, <1>2, <1>3 DEF CAInv

LEMMA HandOutKeeps ==
    ASSUME CAInv, NEW r, HandOut(r), SoundRecord(Len(handles) + 1, r), r.lender = 0, r.lent = 0, r.live,
           contexts' = contexts \cup (IF r.kind # "config" THEN {r.ctx} ELSE {})
    PROVE  CAInv'
<1>1. apiCalls' \in 0..MaxApiCalls
    BY CallsCounted DEF CAInv, HandOut
<1>2. ConfigsFitStudio' /\ ReadsAreWhole'
    BY UnreadFits DEF HandOut
<1>3. handles' = Append(handles, r)
    BY DEF HandOut
<1>4. TableSound(handles') /\ HeldBy(handles') = contexts'
    BY <1>3, HandingOut DEF CAInv
<1> QED BY <1>1, <1>2, <1>4 DEF CAInv

(* In a context that a handle holds, another handle does not change which are held. *)
LEMMA HandOutInContext ==
    ASSUME CAInv, NEW r, HandOut(r), SoundRecord(Len(handles) + 1, r), r.lender = 0, r.lent = 0, r.live,
           UNCHANGED contexts, r.ctx \in contexts \/ r.kind = "config"
    PROVE  CAInv'
BY HandOutKeeps

LEMMA DeleteKeeps ==
    ASSUME CAInv, NEW dead, Delete(dead),
           \A h \in DOMAIN handles : handles[h].lender # 0 => (h \in dead <=> handles[h].lender \in dead)
    PROVE  CAInv'
<1>1. apiCalls' \in 0..MaxApiCalls
    BY CallsCounted DEF CAInv, Delete
<1>2. ConfigsFitStudio' /\ ReadsAreWhole'
    BY UnreadFits DEF Delete
<1>3. handles' = [h \in DOMAIN handles |-> [handles[h] EXCEPT !.live = @ /\ h \notin dead]]
    BY DEF Delete
<1>4. TableSound(handles') /\ HeldBy(handles') \subseteq HeldBy(handles)
    BY <1>3, Freed DEF CAInv
<1>5. contexts' = HeldBy(handles')
    BY <1>4 DEF CAInv, Delete
<1> QED BY <1>1, <1>2, <1>4, <1>5 DEF CAInv

(* Who holds the tree that a handle shows, and what its list may be. *)
TypesIn(x) == IF handles[x].kind \in {"tree", "result"} THEN AllTypes ELSE FeatureTypes

HoldsTree(x) ==
    /\ x \in DOMAIN handles
    /\ handles[x].kind \in {"tree", "studio", "workspace", "result"}
    /\ handles[x].data.list \in Lists(TypesIn(x))

LEMMA UsableSound ==
    ASSUME CAInv, NEW kind, NEW h \in Usable(kind)
    PROVE  /\ h \in DOMAIN handles /\ h \in 1..Len(handles) /\ Len(handles) \in Nat
           /\ handles[h].kind = kind /\ handles[h].live
           /\ SoundRecord(Len(handles), handles[h])
BY TableShape DEF Usable, CAInv

LEMMA ListTyped ==
    ASSUME CAInv, NEW x \in DOMAIN handles, handles[x].kind \in {"tree", "studio", "workspace", "result"}
    PROVE  HoldsTree(x)
<1>1. PICK r : r = handles[x] /\ Holds(r.kind, r.data)
    BY TableShape DEF CAInv, SoundRecord
<1>2. r.kind \in {"tree", "result"} => r.data.list \in Lists(AllTypes)
    BY <1>1 DEF Holds, ResultFits
<1>3. r.kind \in {"studio", "workspace"} => r.data.list \in Lists(FeatureTypes)
    BY <1>1 DEF Holds
<1> QED BY <1>1, <1>2, <1>3 DEF HoldsTree, TypesIn

LEMMA HeldTree ==
    ASSUME CAInv, NEW t \in Usable("tree")
    PROVE  /\ HoldsTree(HolderOf(t)) /\ ListOf(t) \in Lists(TypesIn(HolderOf(t)))
           /\ handles[HolderOf(t)].kind = "result" => handles[HolderOf(t)].lent # 0
<1>1. /\ t \in DOMAIN handles /\ t \in 1..Len(handles) /\ Len(handles) \in Nat
      /\ handles[t].kind = "tree" /\ SoundRecord(Len(handles), handles[t])
    BY UsableSound
<1>2. CASE handles[t].lender = 0
    <2>1. HolderOf(t) = t
        BY <1>2 DEF HolderOf
    <2>2. HoldsTree(t)
        BY <1>1, ListTyped
    <2> QED BY <1>1, <2>1, <2>2 DEF ListOf, HoldsTree
<1>3. CASE handles[t].lender # 0
    <2>1. PICK x : x = HolderOf(t) /\ x = handles[t].lender
        BY <1>3 DEF HolderOf
    <2>2. x \in 1..Len(handles) /\ DOMAIN handles = 1..Len(handles)
        BY <1>1, <1>3, <2>1, TableShape DEF SoundRecord, CAInv
    <2>3. handles[x].lent = t
        BY <1>1, <1>3, <2>1 DEF CAInv, TableSound, Linked
    <2>4. handles[x].lent # 0
        BY <1>1, <2>3
    <2>5. handles[x].kind \in {"studio", "workspace", "result"}
        BY <2>2, <2>4 DEF CAInv, TableSound, Linked
    <2>6. HoldsTree(x)
        BY <2>2, <2>5, ListTyped
    <2> QED BY <2>1, <2>4, <2>6 DEF ListOf, HoldsTree
<1> QED BY <1>2, <1>3

(* Data whose list becomes another one. *)
LEMMA ListReplaced ==
    ASSUME NEW kind \in {"tree", "studio", "workspace", "result"}, NEW data, Holds(kind, data),
           NEW list \in Lists(IF kind \in {"tree", "result"} THEN AllTypes ELSE FeatureTypes)
    PROVE  Holds(kind, [data EXCEPT !.list = list])
<1>1. CASE kind = "tree"
    <2>1. PICK l : data = [list |-> l]
        BY <1>1 DEF Holds, TreeHeld
    <2>2. [data EXCEPT !.list = list] = TreeHeld(list)
        BY <2>1 DEF TreeHeld
    <2> QED BY <1>1, <2>2 DEF Holds, TreeHeld
<1>2. CASE kind = "studio"
    <2>1. PICK l, s : data = [list |-> l, schema |-> s] /\ SchemaFits(s)
        BY <1>2 DEF Holds, StudioHeld
    <2>2. [data EXCEPT !.list = list] = StudioHeld(list, s)
        BY <2>1 DEF StudioHeld
    <2> QED BY <1>2, <2>1, <2>2 DEF Holds, StudioHeld
<1>3. CASE kind = "workspace"
    <2>1. PICK l, b : data = [list |-> l, base |-> b] /\ b \in Lists(FeatureTypes)
        BY <1>3 DEF Holds, WorkspaceHeld
    <2>2. [data EXCEPT !.list = list] = WorkspaceHeld(list, b)
        BY <2>1 DEF WorkspaceHeld
    <2> QED BY <1>3, <2>1, <2>2 DEF Holds, WorkspaceHeld
<1>4. CASE kind = "result"
    <2>1. PICK l, c, o, s :
            /\ data = [list |-> l, conflicts |-> c, of |-> o, bases |-> s]
            /\ c \in MP!ConflictSets /\ MP!Recording(c.addRemove)
            /\ \A k \in 1..3 : o[k] \in Lists(FeatureTypes)
        BY <1>4 DEF Holds, ResultFits
    <2>2. [data EXCEPT !.list = list] = [list |-> list, conflicts |-> c, of |-> o, bases |-> s]
        BY <2>1
    <2> QED BY <1>4, <2>1, <2>2 DEF Holds, ResultFits
<1> QED BY <1>1, <1>2, <1>3, <1>4

(* The data of a handle become others that it may hold. *)
LEMMA DataSetKeeps ==
    ASSUME CAInv, NEW x \in DOMAIN handles, NEW data, Holds(handles[x].kind, data),
           handles[x].kind = "result" => handles[x].lent # 0,
           DataSet(handles, x, data, handles'), Called("OK"), Unread, UNCHANGED contexts
    PROVE  CAInv'
<1>1. PICK new : new = handles' /\ DataSet(handles, x, data, new)
    OBVIOUS
<1>2. TableSound(handles)
    BY DEF CAInv
<1>3. TableSound(new) /\ HeldBy(new) = HeldBy(handles)
    BY <1>1, <1>2, DataChanged
<1>4. apiCalls' \in 0..MaxApiCalls
    BY CallsCounted DEF CAInv
<1>5. ConfigsFitStudio' /\ ReadsAreWhole'
    BY UnreadFits
<1> QED BY <1>1, <1>3, <1>4, <1>5 DEF CAInv

LEMMA WithListKeeps ==
    ASSUME CAInv, NEW t \in Usable("tree"), NEW list \in Lists(TypesIn(HolderOf(t))),
           WithList(t, list)
    PROVE  CAInv'
<1>1. PICK x : x = HolderOf(t) /\ HoldsTree(x) /\ (handles[x].kind = "result" => handles[x].lent # 0)
    BY HeldTree
<1>2. PICK data : data = [handles[x].data EXCEPT !.list = list]
    OBVIOUS
<1>3. Holds(handles[x].kind, data)
    <2>1. Holds(handles[x].kind, handles[x].data)
        BY <1>1, TableShape DEF CAInv, SoundRecord, HoldsTree
    <2> QED BY <1>1, <1>2, <2>1, ListReplaced DEF HoldsTree, TypesIn
<1>4. DataSet(handles, x, data, handles')
    BY <1>1, <1>2 DEF WithList, DataSet
<1>5. x \in DOMAIN handles
    BY <1>1 DEF HoldsTree
<1>6. Called("OK") /\ Unread /\ UNCHANGED contexts
    BY DEF WithList
<1>7. handles[x].kind = "result" => handles[x].lent # 0
    BY <1>1
<1> QED BY <1>3, <1>4, <1>5, <1>6, <1>7, DataSetKeeps

LEMMA LendKeeps ==
    ASSUME CAInv, NEW h \in DOMAIN handles, handles[h].live,
           handles[h].kind \in {"studio", "workspace", "result"}, Lend(h)
    PROVE  CAInv'
<1>1. PICK new : new = handles'
                 /\ new = Append([handles EXCEPT ![h].lent = Len(handles) + 1],
                                 [Handle("tree", handles[h].ctx, NothingHeld) EXCEPT !.lender = h])
    BY DEF Lend
<1>2. handles[h].lent = 0 /\ TableSound(handles)
    BY DEF Lend, CAInv
<1>3. TableSound(new) /\ HeldBy(new) = HeldBy(handles)
    BY <1>1, <1>2, Borrowed
<1>4. apiCalls' \in 0..MaxApiCalls
    BY CallsCounted DEF CAInv, Lend
<1>5. ConfigsFitStudio' /\ ReadsAreWhole' /\ contexts' = contexts
    BY UnreadFits DEF Lend
<1> QED BY <1>1, <1>3, <1>4, <1>5 DEF CAInv

(* A handle of its own, that neither lends nor was lent. *)
Fresh(r, kind, ctx, data) ==
    /\ Shaped(r) /\ r.kind = kind /\ r.live = TRUE /\ r.ctx = ctx /\ r.data = data
    /\ r.lender = 0 /\ r.lent = 0

LEMMA HandleFresh ==
    ASSUME NEW kind, NEW ctx, NEW data PROVE Fresh(Handle(kind, ctx, data), kind, ctx, data)
<1>1. PICK r, alive, none :
        /\ r = Handle(kind, ctx, data) /\ alive = TRUE /\ none = 0
        /\ r = [kind |-> kind, live |-> alive, ctx |-> ctx, lender |-> none, lent |-> none, data |-> data]
    BY Zenon DEF Handle
<1>2. Shaped(r) /\ r.kind = kind /\ r.live = alive /\ r.ctx = ctx /\ r.lender = none
      /\ r.lent = none /\ r.data = data
    BY <1>1 DEF Shaped
<1> QED BY <1>1, <1>2, Zenon DEF Fresh

LEMMA FreshSound ==
    ASSUME NEW n \in Nat, NEW kind \in Kinds, NEW ctx \in 1..n, NEW data, Holds(kind, data),
           NEW r, Fresh(r, kind, ctx, data),
           kind = "result" => data.list = M!MergedTree(data.of[1], data.of[2], data.of[3])
    PROVE  SoundRecord(n, r)
<1>1. r.lender \in 0..n /\ r.lent \in 0..n /\ r.ctx \in 1..n /\ r.kind \in Kinds
    BY DEF Fresh
<1>2. Unedited(r)
    BY DEF Fresh, Unedited
<1>3. Shaped(r) /\ r.live \in BOOLEAN /\ Holds(r.kind, r.data)
    BY DEF Fresh
<1> QED BY <1>1, <1>2, <1>3 DEF SoundRecord

(* A handle made in the context of another one. *)
LEMMA MadeKeeps ==
    ASSUME CAInv, NEW from \in DOMAIN handles, handles[from].live, handles[from].kind # "config",
           NEW kind \in Kinds, NEW data, Holds(kind, data),
           kind = "result" => data.list = M!MergedTree(data.of[1], data.of[2], data.of[3]),
           HandOut(Handle(kind, handles[from].ctx, data)), UNCHANGED contexts
    PROVE  CAInv'
<1>1. PICK n \in Nat : n = Len(handles) /\ DOMAIN handles = 1..n
    BY TableShape DEF CAInv
<1>2. PICK ctx : ctx = handles[from].ctx /\ ctx \in 1..n
    BY <1>1, TableShape DEF CAInv, SoundRecord
<1>3. ctx \in contexts
    BY <1>2 DEF CAInv, HeldBy
<1>4. PICK r : r = Handle(kind, ctx, data) /\ Fresh(r, kind, ctx, data) /\ HandOut(r)
    BY <1>2, HandleFresh
<1>5. SoundRecord(n + 1, r)
    <2>1. n + 1 \in Nat /\ ctx \in 1..(n + 1)
        BY <1>2
    <2> QED BY <1>4, <2>1, FreshSound
<1>6. r.lender = 0 /\ r.lent = 0 /\ r.live /\ r.ctx \in contexts
    BY <1>3, <1>4 DEF Fresh
<1> QED BY <1>1, <1>4, <1>5, <1>6, HandOutInContext
-----------------------------------------------------------------------------
(* What every action keeps: contexts and trees *)

LEMMA OpenContextKeeps == ASSUME CAInv, OpenContext PROVE CAInv'
<1>1. PICK n \in Nat : n = Len(handles) /\ DOMAIN handles = 1..n
    BY TableShape DEF CAInv
<1>2. PICK r : /\ r = Handle("context", n + 1, NothingHeld) /\ Fresh(r, "context", n + 1, NothingHeld)
               /\ HandOut(r) /\ contexts' = contexts \cup {n + 1}
    BY <1>1, HandleFresh DEF OpenContext
<1>3. SoundRecord(n + 1, r)
    <2>1. n + 1 \in Nat /\ n + 1 \in 1..(n + 1) /\ "context" \in Kinds
        BY DEF Kinds
    <2>2. Holds("context", NothingHeld)
        BY DEF Holds
    <2> QED BY <1>2, <2>1, <2>2, FreshSound
<1>4. r.lender = 0 /\ r.lent = 0 /\ r.live /\ r.kind = "context" /\ r.ctx = n + 1
    BY <1>2 DEF Fresh
<1>5. contexts' = contexts \cup (IF r.kind # "config" THEN {r.ctx} ELSE {})
    BY <1>2, <1>4
<1> QED BY <1>1, <1>2, <1>3, <1>4, <1>5, HandOutKeeps

(* What is not lent, and lends nothing, is freed alone. *)
LEMMA FreedAlone ==
    ASSUME CAInv, NEW h \in DOMAIN handles, handles[h].lender = 0,
           handles[h].kind \notin {"studio", "workspace", "result"}, Delete({h})
    PROVE  CAInv'
<1>1. PICK n \in Nat : n = Len(handles) /\ DOMAIN handles = 1..n
    BY TableShape DEF CAInv
<1>2. \A k \in 1..n : /\ handles[k].lender \in 0..n /\ handles[k].lent \in 0..n
                      /\ handles[k].lender # 0 => handles[handles[k].lender].lent = k
                      /\ handles[k].lent # 0 => handles[k].kind \in {"studio", "workspace", "result"}
    BY <1>1 DEF CAInv, TableSound, SoundRecord, Linked
<1>3. ASSUME NEW k \in DOMAIN handles, handles[k].lender # 0
      PROVE  k \in {h} <=> handles[k].lender \in {h}
    <2>1. k # h
        BY <1>3
    <2>2. handles[k].lender # h
        BY <1>1, <1>2, <1>3
    <2> QED BY <2>1, <2>2
<1> QED BY <1>3, DeleteKeeps

LEMMA FreeContextKeeps == ASSUME CAInv, NEW c, FreeContext(c) PROVE CAInv'
<1>1. c \in Usable("context") /\ Delete({c})
    BY DEF FreeContext
<1>2. c \in DOMAIN handles /\ handles[c].kind = "context"
    BY <1>1, UsableSound
<1>3. handles[c].lender = 0
    BY <1>2 DEF CAInv, TableSound, Linked
<1> QED BY <1>1, <1>2, <1>3, FreedAlone

LEMMA CreateTreeKeeps == ASSUME CAInv, NEW c, CreateTree(c) PROVE CAInv'
<1>1. /\ c \in Usable("context") /\ HandOut(Handle("tree", handles[c].ctx, TreeHeld(<<>>)))
      /\ UNCHANGED contexts
    BY DEF CreateTree
<1>2. c \in DOMAIN handles /\ handles[c].live /\ handles[c].kind # "config" /\ "tree" \in Kinds
    BY <1>1, UsableSound DEF Kinds
<1>3. PICK data : data = TreeHeld(<<>>)
    OBVIOUS
<1>4. Holds("tree", data)
    <2>1. data.list = <<>>
        BY <1>3 DEF TreeHeld
    <2> QED BY <1>3, <2>1, EmptyList DEF Holds
<1> QED BY <1>1, <1>2, <1>3, <1>4, MadeKeeps

LEMMA FreeTreeKeeps == ASSUME CAInv, NEW t, FreeTree(t) PROVE CAInv'
<1>1. t \in Usable("tree")
    BY DEF FreeTree
<1>2. t \in DOMAIN handles /\ handles[t].kind = "tree"
    BY <1>1, UsableSound
<1>3. CASE handles[t].lender = 0
    BY <1>2, <1>3, FreedAlone DEF FreeTree
<1>4. CASE handles[t].lender # 0
    BY <1>4, RefusedKeeps DEF FreeTree
<1> QED BY <1>3, <1>4

(* The features a builder holds fit every tree. *)
LEMMA AdditionsFit ==
    ASSUME CAInv, NEW x, NEW f \in Additions PROVE f \in FeaturesOf(TypesIn(x))
<1>1. FeatureFits(f, FeatureTypes)
    BY CApiAssumption, Zenon
<1>2. f \in FeaturesOf(FeatureTypes)
    BY <1>1, FittingFeature
<1>3. FeatureTypes \subseteq TypesIn(x)
    BY DEF TypesIn, AllTypes
<1> QED BY <1>2, <1>3 DEF FeaturesOf

LEMMA AddFeatureKeeps == ASSUME CAInv, NEW t, NEW f \in Additions, AddFeature(t, f) PROVE CAInv'
<1>1. t \in Usable("tree")
    BY DEF AddFeature
<1>2. CASE \/ Refused("INVALID_INPUT")
           \/ Refused("INVALID_STATE")
    BY <1>2, RefusedKeeps
<1>3. CASE ~M!Has(ListOf(t), f.id) /\ WithList(t, Append(ListOf(t), f))
    <2>1. PICK list \in Lists(TypesIn(HolderOf(t))) : list = ListOf(t)
        BY <1>1, HeldTree
    <2>2. Append(list, f) \in Lists(TypesIn(HolderOf(t)))
        <3>1. f \in FeaturesOf(TypesIn(HolderOf(t)))
            BY AdditionsFit
        <3>2. ~MP!Has(list, f.id)
            BY <1>3, <2>1, SameLists
        <3> QED BY <3>1, <3>2, LongerList
    <2> QED BY <1>1, <1>3, <2>1, <2>2, WithListKeeps
<1> QED BY <1>2, <1>3 DEF AddFeature

LEMMA RemoveFeatureKeeps == ASSUME CAInv, NEW t, NEW id, RemoveFeature(t, id) PROVE CAInv'
<1>1. t \in Usable("tree")
    BY DEF RemoveFeature
<1>2. CASE Refused("INVALID_INPUT")
    BY <1>2, RefusedKeeps
<1>3. CASE WithList(t, M!Without(ListOf(t), id))
    <2>1. M!Without(ListOf(t), id) \in Lists(TypesIn(HolderOf(t)))
        BY <1>1, HeldTree, ShorterList
    <2> QED BY <1>1, <1>3, <2>1, WithListKeeps
<1> QED BY <1>2, <1>3 DEF RemoveFeature

LEMMA SuppressFeatureKeeps == ASSUME CAInv, NEW t, NEW i, SuppressFeature(t, i) PROVE CAInv'
<1>1. t \in Usable("tree") /\ i \in DOMAIN ListOf(t)
    BY DEF SuppressFeature
<1>2. PICK list \in Lists(TypesIn(HolderOf(t))) : list = ListOf(t)
    BY <1>1, HeldTree
<1>3. PICK f \in FeaturesOf(TypesIn(HolderOf(t))) : f = list[i]
    BY <1>1, <1>2, ListShape
<1>4. PICK g \in FeaturesOf(TypesIn(HolderOf(t))) : g = [f EXCEPT !.suppressed = ~@] /\ g.id = f.id
    BY OtherSuppression
<1>5. [list EXCEPT ![i] = g] \in Lists(TypesIn(HolderOf(t)))
    BY <1>1, <1>2, <1>3, <1>4, OverwrittenList
<1>6. WithList(t, [list EXCEPT ![i] = g])
    BY <1>2, <1>3, <1>4 DEF SuppressFeature
<1> QED BY <1>1, <1>5, <1>6, WithListKeeps

LEMMA MoveFeatureKeeps == ASSUME CAInv, NEW t, NEW i, NEW to, MoveFeature(t, i, to) PROVE CAInv'
<1>1. /\ t \in Usable("tree") /\ i \in DOMAIN ListOf(t) /\ to \in DOMAIN ListOf(t)
      /\ WithList(t, InsertAt(RemoveAt(ListOf(t), i), to, ListOf(t)[i]))
    BY DEF MoveFeature
<1>2. ListOf(t) \in Lists(TypesIn(HolderOf(t)))
    BY <1>1, HeldTree
<1>3. InsertAt(RemoveAt(ListOf(t), i), to, ListOf(t)[i]) \in Lists(TypesIn(HolderOf(t)))
    <2>1. ListOf(t)[i] \in FeaturesOf(TypesIn(HolderOf(t)))
        BY <1>1, <1>2, ListShape
    <2> QED BY <1>1, <1>2, <2>1, MovedList
<1> QED BY <1>1, <1>3, WithListKeeps

LEMMA SetParamKeeps ==
    ASSUME CAInv, NEW t, NEW i, NEW n \in ParamNames, NEW v \in ParamValues, SetParam(t, i, n, v)
    PROVE  CAInv'
<1>1. t \in Usable("tree") /\ i \in DOMAIN ListOf(t)
    BY DEF SetParam
<1>2. CASE v = NoDirection
    BY <1>2, RefusedKeeps DEF SetParam
<1>3. CASE v # NoDirection
    <2>1. v \in ApiValues
        BY <1>3 DEF ApiValues, GivenValues
    <2>2. PICK list \in Lists(TypesIn(HolderOf(t))) : list = ListOf(t)
        BY <1>1, HeldTree
    <2>3. PICK f \in FeaturesOf(TypesIn(HolderOf(t))), g \in FeaturesOf(TypesIn(HolderOf(t))) :
            f = list[i] /\ g = M!WithParam(f, n, v) /\ g.id = f.id
        BY <1>1, <2>1, <2>2, ListShape, WithParamTyped
    <2>4. [list EXCEPT ![i] = g] \in Lists(TypesIn(HolderOf(t)))
        BY <1>1, <2>2, <2>3, OverwrittenList
    <2>5. WithList(t, [list EXCEPT ![i] = g])
        BY <1>3, <2>2, <2>3 DEF SetParam
    <2> QED BY <1>1, <2>4, <2>5, WithListKeeps
<1> QED BY <1>2, <1>3

LEMMA AddParamRefKeeps ==
    ASSUME CAInv, NEW t, NEW i, NEW n \in ParamNames, NEW r \in FeatureIds, AddParamRef(t, i, n, r)
    PROVE  CAInv'
<1>1. t \in Usable("tree") /\ i \in DOMAIN ListOf(t)
    BY DEF AddParamRef
<1>2. PICK held, refs : /\ held = M!Param(ListOf(t)[i], n)
                        /\ refs = IF held[1] = "refs" THEN held[2] ELSE <<>>
    OBVIOUS
<1>3. CASE held[1] = "ref"
    BY <1>2, <1>3, RefusedKeeps DEF AddParamRef
<1>4. CASE held[1] # "ref"
    <2>1. PICK list \in Lists(TypesIn(HolderOf(t))) : list = ListOf(t)
        BY <1>1, HeldTree
    <2>2. PICK f \in FeaturesOf(TypesIn(HolderOf(t))) : f = list[i]
        BY <1>1, <2>1, ListShape
    <2>3. PICK v \in ApiValues : v = <<"refs", Append(refs, r)>>
        BY <1>2, <2>1, <2>2, RefsGrow
    <2>4. PICK g \in FeaturesOf(TypesIn(HolderOf(t))) : g = M!WithParam(f, n, v) /\ g.id = f.id
        BY WithParamTyped
    <2>5. [list EXCEPT ![i] = g] \in Lists(TypesIn(HolderOf(t)))
        BY <1>1, <2>1, <2>2, <2>4, OverwrittenList
    <2>6. WithList(t, [list EXCEPT ![i] = g])
        BY <1>2, <1>4, <2>1, <2>2, <2>3, <2>4 DEF AddParamRef
    <2> QED BY <1>1, <2>5, <2>6, WithListKeeps
<1> QED BY <1>3, <1>4

LEMMA ReplaceReferenceKeeps ==
    ASSUME CAInv, NEW t, NEW old \in FeatureIds, NEW new \in FeatureIds, ReplaceReference(t, old, new)
    PROVE  CAInv'
<1>1. t \in Usable("tree")
    BY DEF ReplaceReference
<1>2. PICK list \in Lists(TypesIn(HolderOf(t))) : list = ListOf(t)
    BY <1>1, HeldTree
<1>3. PICK made : made = [i \in DOMAIN list |->
              [list[i] EXCEPT !.params = [n \in DOMAIN @ |-> Renamed(@[n], old, new)]]]
    OBVIOUS
<1>4. made \in Lists(TypesIn(HolderOf(t)))
    BY <1>3, RenamingTyped
<1>5. WithList(t, made)
    BY <1>2, <1>3 DEF ReplaceReference
<1> QED BY <1>1, <1>4, <1>5, WithListKeeps

LEMMA UnsetParamKeeps == ASSUME CAInv, NEW t, NEW i, NEW n, UnsetParam(t, i, n) PROVE CAInv'
<1>1. t \in Usable("tree") /\ i \in DOMAIN ListOf(t)
    BY DEF UnsetParam
<1>2. PICK list \in Lists(TypesIn(HolderOf(t))) : list = ListOf(t)
    BY <1>1, HeldTree
<1>3. PICK f \in FeaturesOf(TypesIn(HolderOf(t))) : f = list[i]
    BY <1>1, <1>2, ListShape
<1>4. CASE n \notin DOMAIN f.params
    BY <1>2, <1>3, <1>4, RefusedKeeps DEF UnsetParam
<1>5. CASE n \in DOMAIN f.params
    <2>1. PICK rest : rest = [m \in DOMAIN f.params \ {n} |-> f.params[m]]
        OBVIOUS
    <2>2. PICK g \in FeaturesOf(TypesIn(HolderOf(t))) : g = [f EXCEPT !.params = rest] /\ g.id = f.id
        BY <2>1, ParamLeft
    <2>3. InsertAt(RemoveAt(list, i), i, g) \in Lists(TypesIn(HolderOf(t)))
        BY <1>1, <1>2, <1>3, <2>2, MovedList
    <2>4. WithList(t, InsertAt(RemoveAt(list, i), i, g))
        BY <1>2, <1>3, <1>5, <2>1, <2>2 DEF UnsetParam
    <2> QED BY <1>1, <2>3, <2>4, WithListKeeps
<1> QED BY <1>4, <1>5
-----------------------------------------------------------------------------
(* What every action keeps: reading *)

(* A text, or the beginning of one, in a buffer of some size. *)
Whole(text, size, buffer) ==
    Len(buffer) = size /\ Last(buffer) = "NUL" /\ IsPrefix(Front(buffer), text)

LEMMA WhatFits ==
    ASSUME NEW text, text \in Seq({text[k] : k \in DOMAIN text}), NEW size \in Nat,
           size > 0, size < Len(text) + 1,
           NEW buffer, buffer = Append(SubSeq(text, 1, size - 1), "NUL")
    PROVE  Whole(text, size, buffer)
<1>1. PICK S : S = {text[k] : k \in DOMAIN text} \cup {"NUL"}
    OBVIOUS
<1>2. text \in Seq(S) /\ Len(text) \in Nat /\ DOMAIN text = 1..Len(text)
    BY <1>1
<1>3. PICK part : part = SubSeq(text, 1, size - 1)
    OBVIOUS
<1>4. /\ part \in Seq(S) /\ Len(part) = size - 1 /\ DOMAIN part = 1..(size - 1)
      /\ \A k \in 1..(size - 1) : part[k] = text[k]
    BY <1>2, <1>3
<1>5. /\ buffer \in Seq(S) /\ Len(buffer) = size /\ buffer[size] = "NUL"
      /\ \A k \in 1..(size - 1) : buffer[k] = part[k]
    BY <1>1, <1>3, <1>4
<1>6. Front(buffer) = part
    <2>1. SubSeq(buffer, 1, size - 1) = part
        BY <1>4, <1>5
    <2> QED BY <1>5, <2>1 DEF Front
<1>7. IsPrefix(part, text)
    <2>1. SubSeq(part, 1, Len(part)) = part
        BY <1>4
    <2> QED BY <1>2, <1>3, <1>4, <2>1 DEF IsPrefix
<1> QED BY <1>5, <1>6, <1>7 DEF Whole, Last

LEMMA ReadIdKeeps ==
    ASSUME CAInv, NEW t, NEW i, NEW given \in BOOLEAN, NEW size \in 0..3, ReadId(t, i, given, size)
    PROVE  CAInv'
<1>1. t \in Usable("tree")
    BY DEF ReadId
<1>2. CASE i \notin DOMAIN ListOf(t)
    BY <1>2, RefusedKeeps DEF ReadId
<1>3. CASE i \in DOMAIN ListOf(t)
    <2>1. PICK text : text = ListOf(t)[i].id
        OBVIOUS
    <2>2. text \in Seq({text[k] : k \in DOMAIN text})
        <3>1. ListOf(t)[i] \in FeaturesOf(TypesIn(HolderOf(t)))
            BY <1>1, <1>3, HeldTree, ListShape
        <3>2. text \in FeatureIds
            BY <2>1, <3>1, FeatureShape
        <3>3. PICK f \in Additions : text = f.id
            BY <3>2 DEF FeatureIds
        <3>4. f.id \in Seq({f.id[k] : k \in DOMAIN f.id})
            BY CApiAssumption, Zenon
        <3> QED BY <3>3, <3>4
    <2>3. PICK read : read = WriteSizeProbe(text, given, size)
        OBVIOUS
    <2>4. Called(read.code) /\ lastRead' = read /\ lastRun' = NotRun /\ UNCHANGED <<handles, contexts>>
        BY <1>3, <2>1, <2>3 DEF ReadId
    <2>5. Len(text) \in Nat
        BY <2>2
    <2>6. /\ Len(read.buffer) <= read.size
          /\ read.given /\ read.code = "OK" => read.buffer = Append(read.text, "NUL")
          /\ read.code = "BUFFER_TOO_SMALL" =>
               /\ read.size <= Len(read.text)
               /\ read.size > 0 => /\ Last(read.buffer) = "NUL"
                                   /\ IsPrefix(Front(read.buffer), read.text)
        <3>1. CASE ~given
            <4>1. read.given = given /\ read.code # "BUFFER_TOO_SMALL" /\ read.size = size
                  /\ read.buffer = <<>>
                <5>1. CASE size = 0
                    BY <2>3, <3>1, <5>1 DEF WriteSizeProbe
                <5>2. CASE size # 0
                    BY <2>3, <3>1, <5>2 DEF WriteSizeProbe
                <5> QED BY <5>1, <5>2
            <4>2. Len(read.buffer) <= read.size
                BY <4>1
            <4> QED BY <3>1, <4>1, <4>2
        <3>2. CASE given /\ ~(size < Len(text) + 1)
            <4>1. read.text = text /\ read.size = size /\ read.code = "OK"
                  /\ read.buffer = Append(text, "NUL")
                BY <2>3, <3>2 DEF WriteSizeProbe
            <4>2. Len(Append(text, "NUL")) = Len(text) + 1
                <5>1. text \in Seq({text[k] : k \in DOMAIN text} \cup {"NUL"})
                    BY <2>2
                <5> QED BY <5>1
            <4>3. Len(read.buffer) <= read.size
                BY <2>5, <3>2, <4>1, <4>2
            <4> QED BY <4>1, <4>3
        <3>3. CASE given /\ size < Len(text) + 1 /\ size = 0
            <4>1. read.text = text /\ read.size = size /\ read.code = "BUFFER_TOO_SMALL"
                  /\ read.buffer = <<>>
                BY <2>3, <3>3 DEF WriteSizeProbe
            <4>2. Len(read.buffer) <= read.size
                BY <4>1
            <4> QED BY <2>5, <3>3, <4>1, <4>2
        <3>4. CASE given /\ size < Len(text) + 1 /\ size > 0
            <4>1. read.text = text /\ read.size = size /\ read.code = "BUFFER_TOO_SMALL"
                  /\ read.buffer = Append(SubSeq(text, 1, size - 1), "NUL")
                BY <2>3, <3>4 DEF WriteSizeProbe
            <4>2. PICK buffer : buffer = read.buffer /\ buffer = Append(SubSeq(text, 1, size - 1), "NUL")
                BY <4>1
            <4>3. Whole(text, size, buffer)
                <5>1. size \in Nat /\ size > 0 /\ size < Len(text) + 1
                    BY <3>4
                <5> QED BY <2>2, <4>2, <5>1, WhatFits
            <4> QED BY <2>5, <3>4, <4>1, <4>2, <4>3 DEF Whole
        <3> QED BY <2>5, <3>1, <3>2, <3>3, <3>4
    <2>7. ReadsAreWhole'
        BY <2>4, <2>6 DEF ReadsAreWhole
    <2>8. ConfigsFitStudio'
        <3>1. lastRun'.schema = <<>> /\ lastRun'.values = <<>>
            BY <2>4 DEF NotRun
        <3>2. DOMAIN lastRun'.values = {} /\ InputsOf(lastRun'.schema) = {}
            BY <3>1 DEF InputsOf
        <3> QED BY <3>2 DEF ConfigsFitStudio
    <2>9. apiCalls' \in 0..MaxApiCalls
        BY <2>4, CallsCounted DEF CAInv
    <2> QED BY <2>4, <2>7, <2>8, <2>9 DEF CAInv
<1> QED BY <1>2, <1>3

-----------------------------------------------------------------------------
(* What every action keeps: part studios and configs *)

LEMMA CreateStudioKeeps == ASSUME CAInv, NEW c, CreateStudio(c) PROVE CAInv'
<1>1. /\ c \in Usable("context") /\ HandOut(Handle("studio", handles[c].ctx, StudioHeld(<<>>, <<>>)))
      /\ UNCHANGED contexts
    BY DEF CreateStudio
<1>2. c \in DOMAIN handles /\ handles[c].live /\ handles[c].kind # "config" /\ "studio" \in Kinds
    BY <1>1, UsableSound DEF Kinds
<1>3. PICK data : data = StudioHeld(<<>>, <<>>)
    OBVIOUS
<1>4. Holds("studio", data)
    <2>1. data.list = <<>> /\ data.schema = <<>>
        BY <1>3 DEF StudioHeld
    <2>2. SchemaFits(<<>>)
        BY DEF SchemaFits
    <2> QED BY <1>3, <2>1, <2>2, EmptyList DEF Holds
<1> QED BY <1>1, <1>2, <1>3, <1>4, MadeKeeps

LEMMA StudioFromJsonKeeps == ASSUME CAInv, NEW c, NEW p, StudioFromJson(c, p) PROVE CAInv'
<1>1. /\ c \in Usable("context") /\ p \in Usable("studio")
      /\ HandOut(Handle("studio", handles[c].ctx, handles[p].data)) /\ UNCHANGED contexts
    BY DEF StudioFromJson
<1>2. c \in DOMAIN handles /\ handles[c].live /\ handles[c].kind # "config" /\ "studio" \in Kinds
    BY <1>1, UsableSound DEF Kinds
<1>3. Holds("studio", handles[p].data)
    BY <1>1, UsableSound DEF SoundRecord
<1> QED BY <1>1, <1>2, <1>3, MadeKeeps

LEMMA LenderFreed ==
    ASSUME CAInv, NEW h \in DOMAIN handles, handles[h].kind # "tree", FreeLender(h)
    PROVE  CAInv'
<1>1. PICK n \in Nat : n = Len(handles) /\ DOMAIN handles = 1..n
    BY TableShape DEF CAInv
<1>2. \A k \in 1..n : /\ handles[k].lender \in 0..n /\ handles[k].lent \in 0..n
                      /\ handles[k].lender # 0 =>
                           handles[k].kind = "tree" /\ handles[handles[k].lender].lent = k
                      /\ handles[k].lent # 0 =>
                           /\ handles[k].kind \in {"studio", "workspace", "result"}
                           /\ handles[handles[k].lent].lender = k
    BY <1>1 DEF CAInv, TableSound, SoundRecord, Linked
<1>3. PICK l \in 0..n : l = handles[h].lent
    BY <1>1, <1>2
<1>4. ASSUME NEW k \in DOMAIN handles, handles[k].lender # 0
      PROVE  k \in {h, l} <=> handles[k].lender \in {h, l}
    <2>1. PICK e \in 1..n : e = handles[k].lender /\ handles[e].lent = k /\ handles[k].kind = "tree"
        BY <1>1, <1>2, <1>4
    <2>2. k # h
        BY <2>1
    <2>3. k = l => e = h
        <3> SUFFICES ASSUME k = l PROVE e = h
            OBVIOUS
        <3>1. l # 0
            BY <1>1
        <3>2. handles[l].lender = h
            BY <1>1, <1>2, <1>3, <3>1
        <3> QED BY <2>1, <3>2
    <2>4. e = h => k = l
        BY <1>3, <2>1
    <2>5. e # l
        <3>1. handles[e].kind \in {"studio", "workspace", "result"}
            <4>1. handles[e].lent # 0
                BY <1>1, <2>1
            <4> QED BY <1>2, <2>1, <4>1
        <3>2. l # 0 => handles[l].lender # 0
            BY <1>1, <1>2, <1>3
        <3>3. l # 0 => handles[l].kind = "tree"
            BY <1>2, <3>2
        <3> QED BY <2>1, <3>1, <3>3
    <2> QED BY <2>1, <2>2, <2>3, <2>4, <2>5
<1>5. Delete({h, l})
    BY <1>3 DEF FreeLender
<1> QED BY <1>4, <1>5, DeleteKeeps

LEMMA StudioTreeKeeps == ASSUME CAInv, NEW p, StudioTree(p) PROVE CAInv'
<1>1. p \in Usable("studio") /\ Lend(p)
    BY DEF StudioTree
<1>2. p \in DOMAIN handles /\ handles[p].live /\ handles[p].kind = "studio"
    BY <1>1, UsableSound
<1> QED BY <1>1, <1>2, LendKeeps

LEMMA FreeStudioKeeps == ASSUME CAInv, NEW p, FreeStudio(p) PROVE CAInv'
<1>1. p \in Usable("studio") /\ FreeLender(p)
    BY DEF FreeStudio
<1>2. p \in DOMAIN handles /\ handles[p].kind = "studio"
    BY <1>1, UsableSound
<1> QED BY <1>1, <1>2, LenderFreed

(* What a schema says of each of its inputs. *)
LEMMA SpecFound ==
    ASSUME NEW schema, SchemaFits(schema), NEW name \in InputsOf(schema)
    PROVE  SpecOf(schema, name) \in InputSpecs /\ SpecOf(schema, name).name = name
<1>1. \E k \in DOMAIN schema : schema[k].name = name
    BY DEF InputsOf
<1>2. PICK k : k = CHOOSE l \in DOMAIN schema : schema[l].name = name
    OBVIOUS
<1>3. k \in DOMAIN schema /\ schema[k].name = name /\ SpecOf(schema, name) = schema[k]
    BY <1>1, <1>2 DEF SpecOf
<1> QED BY <1>3 DEF SchemaFits

LEMMA DefaultsFit ==
    ASSUME NEW schema, SchemaFits(schema) PROVE ValuesFit(schema, Defaults(schema))
<1>1. PICK values : values = Defaults(schema)
    OBVIOUS
<1>2. DOMAIN values = InputsOf(schema)
      /\ \A name \in InputsOf(schema) : values[name] = SpecOf(schema, name).default
    BY <1>1 DEF Defaults
<1>3. ASSUME NEW name \in InputsOf(schema) PROVE values[name][1] = SpecOf(schema, name).type
    <2>1. PICK spec \in InputSpecs : spec = SpecOf(schema, name)
        BY SpecFound
    <2>2. spec.default[1] = spec.type
        BY CApiAssumption, Zenon
    <2> QED BY <1>2, <2>1, <2>2
<1> QED BY <1>1, <1>2, <1>3 DEF ValuesFit
LEMMA AddInputKeeps == ASSUME CAInv, NEW p, NEW spec \in InputSpecs, AddInput(p, spec) PROVE CAInv'
<1>1. p \in Usable("studio")
    BY DEF AddInput
<1>2. p \in DOMAIN handles /\ handles[p].kind = "studio" /\ Holds("studio", handles[p].data)
    BY <1>1, UsableSound DEF SoundRecord
<1>3. PICK list, schema :
        /\ handles[p].data = [list |-> list, schema |-> schema]
        /\ list \in Lists(FeatureTypes) /\ SchemaFits(schema)
    BY <1>2 DEF Holds, StudioHeld
<1>4. CASE Refused("INVALID_INPUT")
    BY <1>4, RefusedKeeps
<1>5. CASE /\ ~\E k \in DOMAIN schema : schema[k].name = spec.name
           /\ Called("OK")
           /\ handles' = [handles EXCEPT ![p].data.schema = Append(@, spec)]
           /\ Unread /\ UNCHANGED contexts
    <2>1. PICK longer : longer = Append(schema, spec)
        OBVIOUS
    <2>2. SchemaFits(longer)
        <3>1. PICK n \in Nat : n = Len(schema) /\ DOMAIN schema = 1..n /\ schema \in Seq(InputSpecs)
            BY <1>3 DEF SchemaFits
        <3>2. /\ longer \in Seq(InputSpecs) /\ DOMAIN longer = 1..(n + 1) /\ longer[n + 1] = spec
              /\ \A k \in 1..n : longer[k] = schema[k]
            BY <2>1, <3>1
        <3>3. ASSUME NEW k \in 1..(n + 1), NEW l \in 1..(n + 1), longer[k].name = longer[l].name
              PROVE  k = l
            <4>1. CASE k \in 1..n /\ l \in 1..n
                BY <1>3, <3>1, <3>2, <3>3, <4>1 DEF SchemaFits
            <4>2. CASE k = n + 1 /\ l \in 1..n
                BY <1>5, <3>1, <3>2, <3>3, <4>2
            <4>3. CASE l = n + 1 /\ k \in 1..n
                BY <1>5, <3>1, <3>2, <3>3, <4>3
            <4> QED BY <4>1, <4>2, <4>3
        <3> QED BY <3>2, <3>3 DEF SchemaFits
    <2>3. PICK data : data = StudioHeld(list, longer)
        OBVIOUS
    <2>4. Holds("studio", data)
        <3>1. data.list = list /\ data.schema = longer
            BY <2>3 DEF StudioHeld
        <3> QED BY <1>3, <2>2, <2>3, <3>1 DEF Holds
    <2>5. DataSet(handles, p, data, handles')
        <3>1. [handles[p].data EXCEPT !.schema = longer] = data
            BY <1>3, <2>3 DEF StudioHeld
        <3>2. handles[p].data.schema = schema
            BY <1>3
        <3>3. handles' = [handles EXCEPT ![p].data.schema = longer]
            BY <1>5, <2>1, <3>2
        <3> QED BY <3>1, <3>3 DEF DataSet
    <2> QED BY <1>2, <1>5, <2>4, <2>5, DataSetKeeps
<1>6. handles[p].data.schema = schema
    BY <1>3
<1> QED BY <1>4, <1>5, <1>6 DEF AddInput

LEMMA CreateConfigKeeps == ASSUME CAInv, NEW p, CreateConfig(p) PROVE CAInv'
<1>1. PICK schema, data :
        /\ schema = handles[p].data.schema /\ data = ConfigHeld(schema, Defaults(schema))
        /\ p \in Usable("studio") /\ HandOut(Handle("config", handles[p].ctx, data))
        /\ UNCHANGED contexts
    BY DEF CreateConfig
<1>2. /\ p \in DOMAIN handles /\ handles[p].live /\ handles[p].kind # "config" /\ "config" \in Kinds
      /\ Holds("studio", handles[p].data)
    BY <1>1, UsableSound DEF Kinds, SoundRecord
<1>3. SchemaFits(schema)
    BY <1>1, <1>2 DEF Holds
<1>4. Holds("config", data)
    <2>1. data.schema = schema /\ data.values = Defaults(schema)
        BY <1>1 DEF ConfigHeld
    <2> QED BY <1>1, <1>3, <2>1, DefaultsFit DEF Holds
<1> QED BY <1>1, <1>2, <1>4, MadeKeeps

LEMMA FreeConfigKeeps == ASSUME CAInv, NEW g, FreeConfig(g) PROVE CAInv'
<1>1. g \in Usable("config") /\ Delete({g})
    BY DEF FreeConfig
<1>2. g \in DOMAIN handles /\ handles[g].kind = "config"
    BY <1>1, UsableSound
<1>3. handles[g].lender = 0
    BY <1>2 DEF CAInv, TableSound, Linked
<1> QED BY <1>1, <1>2, <1>3, FreedAlone

LEMMA ConfigSetKeeps == ASSUME CAInv, NEW g, NEW name, NEW v, ConfigSet(g, name, v) PROVE CAInv'
<1>1. g \in Usable("config")
    BY DEF ConfigSet
<1>2. g \in DOMAIN handles /\ handles[g].kind = "config" /\ Holds("config", handles[g].data)
    BY <1>1, UsableSound DEF SoundRecord
<1>3. PICK schema, values :
        /\ handles[g].data = [schema |-> schema, values |-> values]
        /\ SchemaFits(schema) /\ ValuesFit(schema, values)
    BY <1>2 DEF Holds, ConfigHeld
<1>4. CASE Refused("INVALID_STATE") \/ Refused("INVALID_INPUT")
    BY <1>4, RefusedKeeps
<1>5. CASE /\ name \in InputsOf(schema) /\ SpecOf(schema, name).type = v[1]
           /\ Called("OK")
           /\ handles' = [handles EXCEPT ![g].data.values[name] = v]
           /\ Unread /\ UNCHANGED contexts
    <2>1. PICK set : set = [values EXCEPT ![name] = v]
        OBVIOUS
    <2>2. ValuesFit(schema, set)
        <3>1. DOMAIN set = InputsOf(schema)
            BY <1>3, <2>1 DEF ValuesFit
        <3>2. ASSUME NEW other \in InputsOf(schema)
              PROVE  set[other][1] = SpecOf(schema, other).type
            <4>1. CASE other = name
                <5>1. set[other] = v
                    BY <1>3, <2>1, <4>1 DEF ValuesFit
                <5> QED BY <1>5, <4>1, <5>1
            <4>2. CASE other # name
                <5>1. set[other] = values[other]
                    BY <1>3, <2>1, <4>2 DEF ValuesFit
                <5> QED BY <1>3, <5>1 DEF ValuesFit
            <4> QED BY <4>1, <4>2
        <3> QED BY <3>1, <3>2 DEF ValuesFit
    <2>3. PICK data : data = ConfigHeld(schema, set)
        OBVIOUS
    <2>4. Holds("config", data)
        <3>1. data.schema = schema /\ data.values = set
            BY <2>3 DEF ConfigHeld
        <3> QED BY <1>3, <2>2, <2>3, <3>1 DEF Holds
    <2>5. DataSet(handles, g, data, handles')
        <3>1. [handles[g].data EXCEPT !.values = set] = data
            BY <1>3, <2>3 DEF ConfigHeld
        <3>2. handles[g].data.values = values
            BY <1>3
        <3>3. handles' = [handles EXCEPT ![g].data.values = set]
            BY <1>5, <2>1, <3>2
        <3> QED BY <3>1, <3>3 DEF DataSet
    <2> QED BY <1>2, <1>5, <2>4, <2>5, DataSetKeeps
<1>6. handles[g].data.schema = schema
    BY <1>3
<1> QED BY <1>4, <1>5, <1>6 DEF ConfigSet

LEMMA ExecuteKeeps == ASSUME CAInv, NEW p, NEW g \in DOMAIN handles \cup {0}, Execute(p, g) PROVE CAInv'
<1>1. PICK schema : schema = handles[p].data.schema /\ p \in Usable("studio")
    BY DEF Execute
<1>2. SchemaFits(schema)
    BY <1>1, UsableSound DEF SoundRecord, Holds
<1>3. CASE Refused("INVALID_INPUT")
    BY <1>3, RefusedKeeps
<1>4. CASE ~Refused("INVALID_INPUT")
    <2>1. PICK values :
            /\ values = IF g = 0 THEN Defaults(schema) ELSE handles[g].data.values
            /\ Called("OK") /\ lastRun' = [schema |-> schema, values |-> values]
            /\ lastRead' = NotRead /\ UNCHANGED <<handles, contexts>>
            /\ g # 0 => Fingerprint(handles[g].data.schema) = Fingerprint(schema)
        BY <1>1, <1>4 DEF Execute
    <2>2. ValuesFit(schema, values)
        <3>1. CASE g = 0
            BY <1>2, <2>1, <3>1, DefaultsFit
        <3>2. CASE g # 0
            <4>1. g \in Usable("config")
                BY <3>2 DEF Execute
            <4>2. ValuesFit(handles[g].data.schema, handles[g].data.values)
                BY <4>1, UsableSound DEF SoundRecord, Holds
            <4>3. handles[g].data.schema = schema
                BY <2>1, <3>2 DEF Fingerprint
            <4> QED BY <2>1, <3>2, <4>2, <4>3
        <3> QED BY <3>1, <3>2
    <2>3. ConfigsFitStudio'
        <3>1. lastRun'.schema = schema /\ lastRun'.values = values
            BY <2>1
        <3> QED BY <2>2, <3>1 DEF ConfigsFitStudio, ValuesFit
    <2>4. ReadsAreWhole'
        <3>1. /\ lastRead'.given = FALSE /\ lastRead'.code = "OK" /\ lastRead'.size = 0
              /\ lastRead'.buffer = <<>>
            BY <2>1 DEF NotRead
        <3>2. Len(lastRead'.buffer) <= lastRead'.size
            BY <3>1
        <3> QED BY <3>1, <3>2 DEF ReadsAreWhole
    <2>5. apiCalls' \in 0..MaxApiCalls
        BY <2>1, CallsCounted DEF CAInv
    <2> QED BY <2>1, <2>3, <2>4, <2>5 DEF CAInv
<1> QED BY <1>3, <1>4
-----------------------------------------------------------------------------
(* What every action keeps: workspaces and merge results *)

LEMMA CreateWorkspaceKeeps == ASSUME CAInv, NEW c, CreateWorkspace(c) PROVE CAInv'
<1>1. /\ c \in Usable("context")
      /\ HandOut(Handle("workspace", handles[c].ctx, WorkspaceHeld(<<>>, <<>>)))
      /\ UNCHANGED contexts
    BY DEF CreateWorkspace
<1>2. c \in DOMAIN handles /\ handles[c].live /\ handles[c].kind # "config" /\ "workspace" \in Kinds
    BY <1>1, UsableSound DEF Kinds
<1>3. PICK data : data = WorkspaceHeld(<<>>, <<>>)
    OBVIOUS
<1>4. Holds("workspace", data)
    <2>1. data.list = <<>> /\ data.base = <<>>
        BY <1>3 DEF WorkspaceHeld
    <2> QED BY <1>3, <2>1, EmptyList DEF Holds
<1> QED BY <1>1, <1>2, <1>3, <1>4, MadeKeeps

LEMMA WorkspaceFromJsonKeeps == ASSUME CAInv, NEW c, NEW w, WorkspaceFromJson(c, w) PROVE CAInv'
<1>1. /\ c \in Usable("context") /\ w \in Usable("workspace")
      /\ HandOut(Handle("workspace", handles[c].ctx, handles[w].data)) /\ UNCHANGED contexts
    BY DEF WorkspaceFromJson
<1>2. c \in DOMAIN handles /\ handles[c].live /\ handles[c].kind # "config" /\ "workspace" \in Kinds
    BY <1>1, UsableSound DEF Kinds
<1>3. Holds("workspace", handles[w].data)
    BY <1>1, UsableSound DEF SoundRecord
<1> QED BY <1>1, <1>2, <1>3, MadeKeeps

(* A workspace holds its tree itself, and no feature of it is without a type. *)
LEMMA WorkspaceHolds ==
    ASSUME CAInv, NEW w \in Usable("workspace")
    PROVE  ListOf(w) = handles[w].data.list /\ ListOf(w) \in Lists(FeatureTypes)
<1>1. w \in DOMAIN handles /\ handles[w].kind = "workspace" /\ Holds("workspace", handles[w].data)
    BY UsableSound DEF SoundRecord
<1>2. handles[w].lender = 0
    BY <1>1 DEF CAInv, TableSound, Linked
<1>3. handles[w].data.list \in Lists(FeatureTypes)
    BY <1>1 DEF Holds
<1> QED BY <1>2, <1>3 DEF ListOf, HolderOf

LEMMA ForkKeeps == ASSUME CAInv, NEW w, Fork(w) PROVE CAInv'
<1>1. PICK data : /\ w \in Usable("workspace") /\ data = WorkspaceHeld(ListOf(w), ListOf(w))
                  /\ HandOut(Handle("workspace", handles[w].ctx, data)) /\ UNCHANGED contexts
    BY DEF Fork
<1>2. w \in DOMAIN handles /\ handles[w].live /\ handles[w].kind # "config" /\ "workspace" \in Kinds
    BY <1>1, UsableSound DEF Kinds
<1>3. Holds("workspace", data)
    <2>1. data.list = ListOf(w) /\ data.base = ListOf(w)
        BY <1>1 DEF WorkspaceHeld
    <2> QED BY <1>1, <2>1, WorkspaceHolds DEF Holds
<1> QED BY <1>1, <1>2, <1>3, MadeKeeps

LEMMA WorkspaceTreeKeeps == ASSUME CAInv, NEW w, WorkspaceTree(w) PROVE CAInv'
<1>1. w \in Usable("workspace") /\ Lend(w)
    BY DEF WorkspaceTree
<1>2. w \in DOMAIN handles /\ handles[w].live /\ handles[w].kind = "workspace"
    BY <1>1, UsableSound
<1> QED BY <1>1, <1>2, LendKeeps

LEMMA FreeWorkspaceKeeps == ASSUME CAInv, NEW w, FreeWorkspace(w) PROVE CAInv'
<1>1. w \in Usable("workspace") /\ FreeLender(w)
    BY DEF FreeWorkspace
<1>2. w \in DOMAIN handles /\ handles[w].kind = "workspace"
    BY <1>1, UsableSound
<1> QED BY <1>1, <1>2, LenderFreed

(* The trees of the lemmas on merging are lists whose types may be empty. *)
LEMMA ListsAreTrees ==
    Lists(AllTypes) = MP!Trees
BY DEF Lists, FeaturesOf, AllTypes, MP!Trees, MP!Features

LEMMA MergeHolds ==
    ASSUME NEW b \in Lists(FeatureTypes), NEW o \in Lists(FeatureTypes), NEW t \in Lists(FeatureTypes)
    PROVE  /\ M!MergedTree(b, o, t) \in Lists(AllTypes)
           /\ M!Conflicts(b, o, t) \in MP!ConflictSets
           /\ MP!Recording(M!Conflicts(b, o, t).addRemove)
           /\ MP!MergedAs(b, o, t, M!MergedTree(b, o, t))
<1>1. b \in MP!Trees /\ o \in MP!Trees /\ t \in MP!Trees
    <2>1. Lists(FeatureTypes) \subseteq Lists(AllTypes)
        BY MoreTypes DEF AllTypes
    <2> QED BY <2>1, ListsAreTrees
<1>2. /\ b \in Seq(MP!Features) /\ o \in Seq(MP!Features) /\ t \in Seq(MP!Features)
      /\ MP!Distinct(b) /\ MP!Distinct(o) /\ MP!Distinct(t)
    BY <1>1 DEF MP!Trees
<1>3. ASSUME NEW side \in Lists(FeatureTypes) PROVE MP!EmptyFrom(b, side)
    <2> SUFFICES ASSUME NEW id \in MP!IdsOf(side) PROVE MP!At(side, id).type # EmptyText
        BY DEF MP!EmptyFrom
    <2>1. \E i \in DOMAIN side : side[i].id = id
        BY DEF MP!IdsOf
    <2>2. PICK i \in DOMAIN side : i = MP!IndexOf(side, id)
        BY <2>1 DEF MP!IndexOf
    <2>3. side[i] \in FeaturesOf(FeatureTypes)
        BY ListShape
    <2>4. side[i].type \in FeatureTypes
        BY <2>3, FeatureShape
    <2>5. EmptyText \notin FeatureTypes
        BY MergeConstantsFit, Zenon DEF MP!MergeAssumption
    <2> QED BY <2>2, <2>4, <2>5 DEF MP!At
<1>4. PICK merged : merged = MP!MergedTree(b, o, t) /\ MP!MergedAs(b, o, t, merged)
    BY <1>2, MergingMerges
<1>5. merged = M!MergedTree(b, o, t)
    BY <1>4, SameMerge
<1>6. merged \in Lists(AllTypes)
    BY <1>4, ListsAreTrees DEF MP!MergedAs, MP!Trees
<1>7. PICK conflicts \in MP!ConflictSets : conflicts = MP!Conflicts(b, o, t)
    BY <1>2, <1>3, ConflictsRecorded
<1>8. conflicts = M!Conflicts(b, o, t)
    BY <1>7, SameConflicts
<1>9. MP!Recording(conflicts.addRemove)
    <2>1. PICK recorded : /\ recorded = MP!AddRemoveConflicts(b, o, t)
                          /\ MP!AddRemoveSound(b, o, t, recorded)
        BY <1>2, AddRemoveRecorded
    <2>2. conflicts.addRemove = recorded
        BY <1>7, <2>1 DEF MP!Conflicts
    <2>3. MP!Recording(recorded)
        BY <2>1 DEF MP!AddRemoveSound, MP!Records, MP!Recording
    <2> QED BY <2>2, <2>3
<1> QED BY <1>4, <1>5, <1>6, <1>7, <1>8, <1>9

LEMMA MergeWorkspacesKeeps ==
    ASSUME CAInv, NEW b, NEW o, NEW t, MergeWorkspaces(b, o, t) PROVE CAInv'
<1>1. b \in Usable("workspace") /\ o \in Usable("workspace") /\ t \in Usable("workspace")
    BY DEF MergeWorkspaces
<1>2. CASE Refused("INVALID_INPUT")
    BY <1>2, RefusedKeeps
<1>3. CASE HandOut(Handle("result", handles[b].ctx, Merged(b, o, t))) /\ UNCHANGED contexts
    <2>1. PICK x \in Lists(FeatureTypes) : x = ListOf(b)
        BY <1>1, WorkspaceHolds
    <2>2. PICK y \in Lists(FeatureTypes) : y = ListOf(o)
        BY <1>1, WorkspaceHolds
    <2>3. PICK z \in Lists(FeatureTypes) : z = ListOf(t)
        BY <1>1, WorkspaceHolds
    <2>4. PICK m \in Lists(AllTypes) : m = M!MergedTree(x, y, z)
        BY MergeHolds
    <2>5. PICK c \in MP!ConflictSets : c = M!Conflicts(x, y, z) /\ MP!Recording(c.addRemove)
        BY MergeHolds
    <2>6. PICK of, bases : of = <<x, y, z>> /\ bases = {handles[o].data.base, handles[t].data.base}
        OBVIOUS
    <2>7. PICK data : /\ data = [list |-> m, conflicts |-> c, of |-> of, bases |-> bases]
                      /\ data = Merged(b, o, t)
        BY <2>1, <2>2, <2>3, <2>4, <2>5, <2>6 DEF Merged
    <2>8. of[1] = x /\ of[2] = y /\ of[3] = z
        BY <2>6
    <2>9. data.list = m /\ data.conflicts = c /\ data.of = of /\ data.bases = bases
        BY <2>7
    <2>10. Holds("result", data)
        <3>1. \A k \in 1..3 : of[k] \in Lists(FeatureTypes)
            BY <2>8
        <3> QED BY <2>5, <2>7, <2>9, <3>1 DEF Holds, ResultFits
    <2>11. data.list = M!MergedTree(data.of[1], data.of[2], data.of[3])
        BY <2>4, <2>8, <2>9
    <2>12. b \in DOMAIN handles /\ handles[b].live /\ handles[b].kind # "config" /\ "result" \in Kinds
        BY <1>1, UsableSound DEF Kinds
    <2> QED BY <1>3, <2>7, <2>10, <2>11, <2>12, MadeKeeps
<1> QED BY <1>2, <1>3 DEF MergeWorkspaces

LEMMA ResultTreeKeeps == ASSUME CAInv, NEW r, ResultTree(r) PROVE CAInv'
<1>1. r \in Usable("result") /\ Lend(r)
    BY DEF ResultTree
<1>2. r \in DOMAIN handles /\ handles[r].live /\ handles[r].kind = "result"
    BY <1>1, UsableSound
<1> QED BY <1>1, <1>2, LendKeeps

LEMMA FreeResultKeeps == ASSUME CAInv, NEW r, FreeResult(r) PROVE CAInv'
<1>1. r \in Usable("result") /\ FreeLender(r)
    BY DEF FreeResult
<1>2. r \in DOMAIN handles /\ handles[r].kind = "result"
    BY <1>1, UsableSound
<1> QED BY <1>1, <1>2, LenderFreed

LEMMA ApplyResolutionsKeeps ==
    ASSUME CAInv, NEW r, NEW choice \in {"Ours", "Theirs", "Base"}, ApplyResolutions(r, choice)
    PROVE  CAInv'
<1>1. PICK conflicts, chosen, list, data :
        /\ conflicts = handles[r].data.conflicts
        /\ chosen = [key \in M!Keys(conflicts) |-> choice]
        /\ list = M!ApplyResolutions(ListOf(r), conflicts, chosen)
        /\ data = TreeHeld(list)
        /\ r \in Usable("result") /\ HandOut(Handle("tree", handles[r].ctx, data)) /\ UNCHANGED contexts
    BY Zenon DEF ApplyResolutions
<1>2. /\ r \in DOMAIN handles /\ handles[r].live /\ handles[r].kind # "config" /\ "tree" \in Kinds
      /\ handles[r].kind = "result" /\ Holds("result", handles[r].data)
    BY <1>1, UsableSound DEF Kinds, SoundRecord
<1>3. handles[r].lender = 0
    BY <1>2 DEF CAInv, TableSound, Linked
<1>4. ListOf(r) \in MP!Trees /\ conflicts \in MP!ConflictSets /\ MP!Recording(conflicts.addRemove)
    <2>1. ResultFits(handles[r].data)
        BY <1>2 DEF Holds
    <2>2. ListOf(r) = handles[r].data.list
        BY <1>3 DEF ListOf, HolderOf
    <2> QED BY <1>1, <2>1, <2>2, ListsAreTrees DEF ResultFits
<1>5. MP!Choosing(chosen)
    BY <1>1 DEF MP!Choosing, MP!ResolveChoices
<1>6. list \in Lists(AllTypes)
    <2>1. MP!ApplyResolutions(ListOf(r), conflicts, chosen) \in MP!Trees
        BY <1>4, <1>5, ResolutionsApplied
    <2> QED BY <1>1, <2>1, SameResolutions, ListsAreTrees
<1>7. Holds("tree", data)
    <2>1. data.list = list
        BY <1>1 DEF TreeHeld
    <2> QED BY <1>1, <1>6, <2>1 DEF Holds
<1> QED BY <1>1, <1>2, <1>7, MadeKeeps
-----------------------------------------------------------------------------
(* The invariant holds *)

LEMMA DataFitsHolds ==
    ASSUME NEW kind, NEW data, DataFits(kind, data) PROVE Holds(kind, data) /\ kind # "result"
<1>1. CASE kind = "context" /\ data = NothingHeld
    BY <1>1 DEF Holds
<1>2. CASE /\ kind = "tree" /\ data = TreeHeld(data.list)
           /\ ListFits(data.list, FeatureTypes \cup {EmptyText})
    <2>1. data.list \in Lists(AllTypes)
        BY <1>2, FittingList DEF AllTypes
    <2> QED BY <1>2, <2>1 DEF Holds
<1>3. CASE /\ kind = "studio" /\ data = StudioHeld(data.list, data.schema)
           /\ ListFits(data.list, FeatureTypes) /\ SchemaFits(data.schema)
    <2>1. data.list \in Lists(FeatureTypes)
        BY <1>3, FittingList
    <2> QED BY <1>3, <2>1 DEF Holds
<1>4. CASE /\ kind = "config" /\ data = ConfigHeld(data.schema, data.values)
           /\ SchemaFits(data.schema) /\ ValuesFit(data.schema, data.values)
    BY <1>4 DEF Holds
<1>5. CASE /\ kind = "workspace" /\ data = WorkspaceHeld(data.list, data.base)
           /\ ListFits(data.list, FeatureTypes) /\ ListFits(data.base, FeatureTypes)
    <2>1. data.list \in Lists(FeatureTypes) /\ data.base \in Lists(FeatureTypes)
        BY <1>5, FittingList
    <2> QED BY <1>5, <2>1 DEF Holds
<1> QED BY <1>1, <1>2, <1>3, <1>4, <1>5 DEF DataFits

LEMMA SceneSound == ASSUME NEW table, SceneFits(table) PROVE TableSound(table)
<1>1. table \in Seq({table[h] : h \in DOMAIN table}) /\ Linked(table)
    BY DEF SceneFits
<1>2. PICK n \in Nat : n = Len(table) /\ DOMAIN table = 1..n
    BY <1>1
<1>3. ASSUME NEW h \in 1..n PROVE SoundRecord(n, table[h])
    <2>1. PICK r : r = table[h]
        OBVIOUS
    <2>2. /\ r \in [kind : Kinds, live : BOOLEAN, ctx : 1..n, lender : {0} \cup 1..n,
                    lent : {0} \cup 1..n, data : {r.data}]
          /\ DataFits(r.kind, r.data)
        BY <1>2, <2>1, Zenon DEF SceneFits
    <2>3. Shaped(r) /\ r.kind \in Kinds /\ r.live \in BOOLEAN /\ r.ctx \in 1..n
          /\ r.lender \in 0..n /\ r.lent \in 0..n
        BY <2>2 DEF Shaped
    <2>4. Holds(r.kind, r.data) /\ Unedited(r)
        BY <2>2, DataFitsHolds DEF Unedited
    <2> QED BY <2>1, <2>3, <2>4 DEF SoundRecord
<1> QED BY <1>1, <1>2, <1>3 DEF TableSound

LEMMA InvInit == CAInit => CAInv
<1> SUFFICES ASSUME CAInit PROVE CAInv
    OBVIOUS
<1>1. TableSound(handles) /\ contexts = HeldBy(handles)
    <2>1. handles \in Scenes /\ contexts = HeldBy(handles)
        BY DEF CAInit
    <2>2. \A table \in Scenes : SceneFits(table)
        BY CApiAssumption, Zenon
    <2> QED BY <2>1, <2>2, SceneSound
<1>2. apiCalls \in 0..MaxApiCalls
    <2>1. MaxApiCalls \in Nat
        BY CApiAssumption, Zenon
    <2> QED BY <2>1 DEF CAInit
<1>3. ConfigsFitStudio
    <2>1. lastRun.schema = <<>> /\ lastRun.values = <<>>
        BY DEF CAInit, NotRun
    <2>2. DOMAIN lastRun.values = {} /\ InputsOf(lastRun.schema) = {}
        BY <2>1 DEF InputsOf
    <2> QED BY <2>2 DEF ConfigsFitStudio
<1>4. ReadsAreWhole
    <2>1. lastRead.given = FALSE /\ lastRead.code = "OK" /\ lastRead.size = 0 /\ lastRead.buffer = <<>>
        BY DEF CAInit, NotRead
    <2>2. Len(lastRead.buffer) <= lastRead.size
        BY <2>1
    <2> QED BY <2>1, <2>2 DEF ReadsAreWhole
<1> QED BY <1>1, <1>2, <1>3, <1>4 DEF CAInv

LEMMA InvNext == CAInv /\ [CANext]_caVars => CAInv'
<1> SUFFICES ASSUME CAInv, [CANext]_caVars PROVE CAInv'
    OBVIOUS
<1>1. CASE OpenContext
    BY <1>1, OpenContextKeeps
<1>2. ASSUME NEW h \in DOMAIN handles,
             \/ FreeContext(h)
             \/ CreateTree(h)
             \/ FreeTree(h)
      PROVE  CAInv'
    BY <1>2, FreeContextKeeps, CreateTreeKeeps, FreeTreeKeeps
<1>3. ASSUME NEW f \in Additions PROVE f.id \in FeatureIds
    BY DEF FeatureIds
<1>4. ASSUME NEW h \in DOMAIN handles,
             \/ \E f \in Additions : AddFeature(h, f)
             \/ \E f \in Additions : RemoveFeature(h, f.id)
             \/ \E i \in 1..3 : SuppressFeature(h, i)
             \/ \E i, to \in 1..3 : MoveFeature(h, i, to)
      PROVE  CAInv'
    BY <1>4, AddFeatureKeeps, RemoveFeatureKeeps, SuppressFeatureKeeps, MoveFeatureKeeps
<1>5. ASSUME NEW h \in DOMAIN handles,
             \/ \E i \in 1..3, n \in ParamNames, v \in ParamValues : SetParam(h, i, n, v)
             \/ \E i \in 1..3, n \in ParamNames, f \in Additions : AddParamRef(h, i, n, f.id)
             \/ \E f, g \in Additions : ReplaceReference(h, f.id, g.id)
             \/ \E i \in 1..3, n \in ParamNames : UnsetParam(h, i, n)
      PROVE  CAInv'
    BY <1>3, <1>5, SetParamKeeps, AddParamRefKeeps, ReplaceReferenceKeeps, UnsetParamKeeps
<1>6. ASSUME NEW h \in DOMAIN handles,
             \E i \in 1..3, given \in BOOLEAN, size \in 0..3 : ReadId(h, i, given, size)
      PROVE  CAInv'
    BY <1>6, ReadIdKeeps
<1>7. ASSUME NEW h \in DOMAIN handles,
             \/ CreateStudio(h)
             \/ \E p \in DOMAIN handles : StudioFromJson(h, p)
             \/ StudioTree(h)
             \/ FreeStudio(h)
             \/ \E spec \in InputSpecs : AddInput(h, spec)
      PROVE  CAInv'
    BY <1>7, CreateStudioKeeps, StudioFromJsonKeeps, StudioTreeKeeps, FreeStudioKeeps, AddInputKeeps
<1>8. ASSUME NEW h \in DOMAIN handles,
             \/ CreateConfig(h)
             \/ FreeConfig(h)
             \/ \E spec \in InputSpecs, v \in InputValues : ConfigSet(h, spec.name, v)
             \/ \E g \in DOMAIN handles \cup {0} : Execute(h, g)
      PROVE  CAInv'
    BY <1>8, CreateConfigKeeps, FreeConfigKeeps, ConfigSetKeeps, ExecuteKeeps
<1>9. ASSUME NEW h \in DOMAIN handles,
             \/ CreateWorkspace(h)
             \/ \E w \in DOMAIN handles : WorkspaceFromJson(h, w)
             \/ Fork(h)
             \/ WorkspaceTree(h)
             \/ FreeWorkspace(h)
             \/ \E o \in DOMAIN handles : \E t \in DOMAIN handles \ {h, o} : MergeWorkspaces(h, o, t)
      PROVE  CAInv'
    BY <1>9, CreateWorkspaceKeeps, WorkspaceFromJsonKeeps, ForkKeeps, WorkspaceTreeKeeps,
       FreeWorkspaceKeeps, MergeWorkspacesKeeps
<1>10. ASSUME NEW h \in DOMAIN handles,
              \/ ResultTree(h)
              \/ FreeResult(h)
              \/ \E choice \in {"Ours", "Theirs", "Base"} : ApplyResolutions(h, choice)
       PROVE  CAInv'
    BY <1>10, ResultTreeKeeps, FreeResultKeeps, ApplyResolutionsKeeps
<1>11. CASE UNCHANGED caVars
    BY <1>11 DEF caVars, CAInv, ConfigsFitStudio, ReadsAreWhole
<1> QED BY <1>1, <1>2, <1>4, <1>5, <1>6, <1>7, <1>8, <1>9, <1>10, <1>11 DEF CANext

THEOREM HandlesInvariant == CASpec => []CAInv
<1> QED BY InvInit, InvNext, PTL DEF CASpec

-----------------------------------------------------------------------------
(* What the invariant says of handles and of answers *)

LEMMA HeldLists ==
    ASSUME NEW kind \in Kinds, NEW data, Holds(kind, data), "list" \in DOMAIN data
    PROVE  data.list \in Lists(AllTypes)
<1>1. Lists(FeatureTypes) \subseteq Lists(AllTypes)
    BY MoreTypes DEF AllTypes
<1>2. CASE kind = "context" /\ data = NothingHeld
    <2>1. data.list = <<>>
        BY <1>2 DEF NothingHeld
    <2> QED BY <2>1, EmptyList
<1>3. CASE kind = "config" /\ data = ConfigHeld(data.schema, data.values)
    <2>1. PICK schema, values : data = [schema |-> schema, values |-> values]
        BY <1>3 DEF ConfigHeld
    <2>2. "list" \notin DOMAIN data
        BY <2>1
    <2> QED BY <2>2
<1>4. CASE kind \in {"tree", "studio", "workspace", "result"}
    BY <1>1, <1>4 DEF Holds, ResultFits
<1> QED BY <1>2, <1>3, <1>4 DEF Holds

LEMMA InvTypes == CAInv => CATypeOK
<1> SUFFICES ASSUME CAInv PROVE CATypeOK
    OBVIOUS
<1>1. PICK n \in Nat : n = Len(handles) /\ DOMAIN handles = 1..n
    BY TableShape DEF CAInv
<1>2. ASSUME NEW h \in 1..n PROVE SoundRecord(n, handles[h])
    BY <1>1 DEF CAInv, TableSound
<1>3. ASSUME NEW h \in 1..n, handles[h].lent # 0 PROVE handles[handles[h].lent].lender = h
    BY <1>1, <1>3 DEF CAInv, TableSound, Linked
<1>4. ASSUME NEW h \in 1..n, "list" \in DOMAIN handles[h].data, NEW list, list = handles[h].data.list
      PROVE  /\ Cardinality(M!IdsOf(list)) = Len(list)
             /\ \A i \in DOMAIN list : \A k \in DOMAIN list[i].params : list[i].params[k] # NoDirection
    <2>1. list \in Lists(AllTypes)
        BY <1>2, <1>4, HeldLists DEF SoundRecord
    <2>2. Cardinality(M!IdsOf(list)) = Len(list)
        BY <2>1, CountedIds
    <2>3. ASSUME NEW i \in DOMAIN list, NEW k \in DOMAIN list[i].params
          PROVE  list[i].params[k] # NoDirection
        <3>1. list[i] \in FeaturesOf(AllTypes)
            BY <2>1, ListShape
        <3>2. list[i].params[k] \in ApiValues
            BY <3>1, FeatureShape
        <3> QED BY <3>2, TaggedValues
    <2> QED BY <2>2, <2>3
<1>5. contexts \subseteq DOMAIN handles
    <2>1. ASSUME NEW h \in 1..n PROVE handles[h].ctx \in 1..n
        BY <1>2 DEF SoundRecord
    <2> QED BY <1>1, <2>1 DEF CAInv, HeldBy
<1>6. ASSUME NEW h \in 1..n PROVE handles[h].kind \in Kinds /\ handles[h].live \in BOOLEAN
    BY <1>2 DEF SoundRecord
<1>7. apiCalls \in 0..MaxApiCalls
    BY DEF CAInv
<1> QED BY <1>1, <1>3, <1>4, <1>5, <1>6, <1>7, ZenonT(60) DEF CATypeOK

LEMMA InvHandles == CAInv => HandlesSound
<1> SUFFICES ASSUME CAInv PROVE HandlesSound
    OBVIOUS
<1>1. LentTreesLive
    BY DEF CAInv, TableSound, Linked, LentTreesLive
<1>2. ContextsOutliveHandles
    BY DEF CAInv, ContextsOutliveHandles
<1> QED BY InvTypes, <1>1, <1>2 DEF HandlesSound

LEMMA InvGetters == CAInv => OneGetterAnswers
<1> SUFFICES ASSUME NEW list, NEW i, NEW n, NEW type \in ValueTypes
             PROVE  GetParam(list, i, n, type) = "OK" <=> ParamType(list, i, n) = type
    BY DEF OneGetterAnswers
<1>1. CASE i \notin DOMAIN list \/ n \notin DOMAIN list[i].params
    <2>1. ParamType(list, i, n) = "none"
        BY <1>1 DEF ParamType
    <2>2. GetParam(list, i, n, type) # "OK"
        BY <1>1 DEF GetParam
    <2>3. type # "none"
        BY DEF ValueTypes
    <2> QED BY <2>1, <2>2, <2>3
<1>2. CASE i \in DOMAIN list /\ n \in DOMAIN list[i].params
    BY <1>2 DEF GetParam, ParamType
<1> QED BY <1>1, <1>2

LEMMA InvDropped == CAInv => DroppedMeansRemoved
<1> SUFFICES ASSUME CAInv, NEW r \in Usable("result"), handles[r].lent = 0,
                    NEW data, data = handles[r].data
             PROVE  /\ M!IdsOf(data.of[2]) \ M!IdsOf(data.list)
                         \subseteq M!IdsOf(data.of[1]) \ M!IdsOf(data.of[3])
                    /\ M!IdsOf(data.of[3]) \ M!IdsOf(data.list)
                         \subseteq M!IdsOf(data.of[1]) \ M!IdsOf(data.of[2])
    BY DEF DroppedMeansRemoved
<1>1. handles[r].kind = "result" /\ Holds("result", data) /\ Unedited(handles[r])
    BY UsableSound DEF SoundRecord
<1>2. PICK b, o, t : b = data.of[1] /\ o = data.of[2] /\ t = data.of[3]
    OBVIOUS
<1>3. b \in Lists(FeatureTypes) /\ o \in Lists(FeatureTypes) /\ t \in Lists(FeatureTypes)
    BY <1>1, <1>2 DEF Holds, ResultFits
<1>4. PICK m : m = data.list /\ m = M!MergedTree(b, o, t)
    BY <1>1, <1>2 DEF Unedited
<1>5. MP!MergedAs(b, o, t, m)
    BY <1>3, <1>4, MergeHolds
<1>6. MP!IdsOf(m) = {id \in MP!IdsOf(b) \cup MP!IdsOf(o) \cup MP!IdsOf(t) : MP!Survives(b, o, t, id)}
    BY <1>5 DEF MP!MergedAs
<1>7. ASSUME NEW id, id \in MP!IdsOf(o) \cup MP!IdsOf(t), id \notin MP!IdsOf(m)
      PROVE  id \in MP!IdsOf(b) /\ ~(id \in MP!IdsOf(o) /\ id \in MP!IdsOf(t))
    <2>1. ~MP!Survives(b, o, t, id)
        BY <1>6, <1>7
    <2> QED BY <1>7, <2>1 DEF MP!Survives, MP!InAllThree, MP!Has
<1>8. /\ MP!IdsOf(o) \ MP!IdsOf(m) \subseteq MP!IdsOf(b) \ MP!IdsOf(t)
      /\ MP!IdsOf(t) \ MP!IdsOf(m) \subseteq MP!IdsOf(b) \ MP!IdsOf(o)
    BY <1>7
<1> QED BY <1>2, <1>4, <1>8, SameLists
(* Handles live and die with what they depend on: a tree handle that an      *)
(* aggregate lent is live exactly as long as the aggregate is, a              *)
(* KernelContext exactly as long as any handle but a config was made in it,   *)
(* in whatever order the client frees them; lists keep distinct ids and no    *)
(* parameter becomes a direction without length, whatever is edited.          *)
THEOREM HandlesAlwaysSound == CASpec => []HandlesSound
<1> QED BY HandlesInvariant, InvHandles, PTL

(* A run has a value of the right type for each input its studio has then, a  *)
(* read gives the whole text or says that it did not, one getter answers for  *)
(* a parameter, and a merge of the forks' common base drops a feature of one  *)
(* side only if the other side removed it.                                    *)
THEOREM AnswersAlwaysFitHandles == CASpec => []AnswersFitHandles
<1>1. CAInv => AnswersFitHandles
    BY InvGetters, InvDropped DEF CAInv, AnswersFitHandles
<1> QED BY <1>1, HandlesInvariant, PTL

=============================================================================
