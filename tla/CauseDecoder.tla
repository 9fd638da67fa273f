---------------------------- MODULE CauseDecoder ----------------------------
(***************************************************************************)
(* The offline decoders of a copied action-link snapshot: queue births,    *)
(* queue transport, renderer transport and action links, and the           *)
(* assessment of how old a request is, which may only reject.  Pure        *)
(* operators over a snapshot s with the fields journals, clock, scopes.    *)
(***************************************************************************)
EXTENDS Journal, SequencesExt, FiniteSets

\* The journal and the kind of an event's parent, as the decoders demand it.
Parentage == [
    DELIVERY |-> <<"action", "SOURCE">>, EXPLORER |-> <<"action", "DELIVERY">>,
    PAINT |-> <<"action", "EXPLORER">>, PAINT_DELIVERY |-> <<"action", "PAINT">>,
    BIRTH_LINK |-> <<"action", "PAINT_DELIVERY">>,
    ENQUEUE_BEGIN |-> <<"birth", "BIRTH">>, RETURN |-> <<"birth", "ENQUEUE_BEGIN">>,
    INSTALL |-> <<"birth", "ENQUEUE_BEGIN">>,
    BORROW |-> <<"transport", "INSTALL">>, HELPER |-> <<"transport", "BORROW">>,
    CALLBACK |-> <<"transport", "HELPER">>,
    OUTER |-> <<"transport", "CALLBACK">>, RENDER |-> <<"renderer", "OUTER">>]

Roots == {"DISPATCH", "SOURCE", "BIRTH", "ROOT"}

\* These journals sample the clock and the scopes.
Sampling == {"birth", "transport", "renderer"}

ParentLog(s, e) == s.journals[Parentage[e.kind][1]].log
ParentEvent(s, e) == ParentLog(s, e)[e.parent]

Child(s, j, i) ==
    LET e == s.journals[j].log[i] IN
    IF e.kind \in Roots
    THEN e.parent = 0 /\ e.origin = i
    ELSE LET p == ParentEvent(s, e) IN
         /\ e.parent \in DOMAIN ParentLog(s, e)
         /\ Parentage[e.kind][1] = j => e.parent < i
         /\ p.kind = Parentage[e.kind][2]
         /\ e.origin = p.origin
         /\ e.kind \in {"BORROW", "HELPER", "CALLBACK"} => e.node = p.node
         /\ j \in Sampling => e.revision >= p.revision /\ e.issued >= p.issued

SamplesInPast(s, e) == e.revision <= s.clock /\ e.issued <= s.scopes.issued

\* An append returns after what it appended was installed.
ReturnsAfterInstall(s) ==
    \A r \in Range(s.journals.birth.log), i \in Range(s.journals.transport.log) :
        r.kind = "RETURN" /\ i.kind = "INSTALL" /\ r.parent = i.parent =>
            r.revision >= i.revision /\ r.issued >= i.issued

\* What a birth link or a rendering refers to exists, is of the right kind and
\* is referred to once.
Refers(s, j, kind, target, targetKind) ==
    LET log   == s.journals[j].log
        those == {i \in DOMAIN log : log[i].kind = kind}
    IN  /\ \A i \in those : /\ log[i].refer \in DOMAIN s.journals[target].log
                            /\ s.journals[target].log[log[i].refer].kind = targetKind
        /\ \A i, k \in those : log[i].refer = log[k].refer => i = k

EntryOf(s, r) == s.journals.lineage.log[r.refer].entry
OuterOf(s, r) == s.journals.renderer.log[r.parent]

EntryInOrder(s, r) ==
    /\ EntryOf(s, r) <= r.revision
    /\ EntryOf(s, r) # 0 => EntryOf(s, r) >= OuterOf(s, r).revision

Renders(s) == {r \in Range(s.journals.renderer.log) : r.kind = "RENDER"}

\* decode raises on anything else.
Accepted(s) ==
    /\ s.clock # FAULT /\ ~s.scopes.fault
    /\ \A j \in DOMAIN s.journals : Readable(s.journals[j])
    /\ \A j \in DOMAIN s.journals : \A i \in DOMAIN s.journals[j].log : Child(s, j, i)
    /\ \A j \in Sampling : \A e \in Range(s.journals[j].log) : SamplesInPast(s, e)
    /\ ReturnsAfterInstall(s)
    /\ Refers(s, "action", "BIRTH_LINK", "birth", "BIRTH")
    /\ Refers(s, "renderer", "RENDER", "lineage", "ROOT")
    /\ \A r \in Renders(s) : EntryInOrder(s, r)

\* The samples along the way of a rendering, from its birth to its outer hook.
PathTo(s, outer) ==
    LET callback == ParentEvent(s, outer)
        helper   == ParentEvent(s, callback)
        borrow   == ParentEvent(s, helper)
        install  == ParentEvent(s, borrow)
        enqueue  == ParentEvent(s, install)
    IN  <<ParentEvent(s, enqueue), enqueue, install, borrow, helper, callback, outer>>

InstallOf(s, r) == PathTo(s, OuterOf(s, r))[3]

\* The producer side was observed whole: one birth, one enqueue, one return.
ProducerObserved(s, r) ==
    LET log   == s.journals.birth.log
        mine  == SelectSeq(log, LAMBDA e : e.origin = r.origin)
    IN  /\ [i \in DOMAIN mine |-> mine[i].kind] = <<"BIRTH", "ENQUEUE_BEGIN", "RETURN">>
        /\ mine[3].node = InstallOf(s, r).node

(* Mutant: scopes that came and went between the samples are not looked for. *)
UnrejectedDespiteTickets(s, r) ==
    LET path  == PathTo(s, OuterOf(s, r))
        outer == OuterOf(s, r)
    IN  /\ \A i \in DOMAIN path : path[i].revision = outer.revision /\ path[i].active = 0
        /\ r.active = 0
        /\ EntryOf(s, r) = outer.revision + 1 /\ r.revision = EntryOf(s, r)
        /\ s.scopes.active = 0
        /\ ProducerObserved(s, r)

\* _assess_result: nothing known happened between the birth of the request and
\* the sample of its rendering.  Anything else is a reason to reject.
Unrejected(s, r) ==
    LET path  == PathTo(s, OuterOf(s, r))
        outer == OuterOf(s, r)
        entry == EntryOf(s, r)
    IN  /\ \A i \in DOMAIN path : path[i].revision = outer.revision
                                  /\ path[i].issued = r.issued
                                  /\ path[i].active = 0
        /\ r.active = 0
        /\ entry = outer.revision + 1 /\ r.revision = entry
        /\ s.scopes.active = 0
        /\ ProducerObserved(s, r)

=============================================================================
