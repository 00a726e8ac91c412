-------------------------- MODULE PermissionManager --------------------------
(***************************************************************************)
(* PermissionManagerQt (core/permission_manager_qt.cpp) with its default,  *)
(* persistent policy: the two stores, and the requests that wait for a     *)
(* decision.  Its state is a record S with fields                          *)
(*   persistent  [Origins -> [Types -> status]]   the preferences          *)
(*   transient   [Frames -> [Types -> status]]    m_transientPermissions   *)
(*   multi       sequence of [frame, types, req]  m_multiRequests          *)
(*   prompts     set of [frame, types]            permissions requested of *)
(*               the application and not decided                           *)
(*   alive       set of pages                                              *)
(*   answers     sequence of [m, granted]: the callbacks run, in order     *)
(* on which its functions are operators.  No callback comes back to the    *)
(* manager.  A frame stays in its page and keeps its origin.               *)
(* Subscriptions are left out.                                             *)
(***************************************************************************)
EXTENDS Integers, Sequences, FiniteSets, SequencesExt

CONSTANTS Frames, OriginOf, PageOf,  \* [Frames -> an origin], [Frames -> a page]
          Asked   \* what pages ask for: sequences of types, in the order they are looked at

Origins == {OriginOf[f] : f \in Frames}
ThePages == {PageOf[f] : f \in Frames}
Types == {"mic", "cam", "notify"}
TransientTypes == {"mic", "cam"}   \* not isPersistent()
Statuses == {"ask", "granted", "denied"}

\* What one permission can be about.
Decidable == {<<"mic">>, <<"cam">>, <<"mic", "cam">>, <<"notify">>}
ASSUME PermissionConstants == Asked \subseteq Decidable

NoFrame == "no frame"

AliveFrame(S, f) == f # NoFrame /\ PageOf[f] \in S.alive
-----------------------------------------------------------------------------
(* GetPermissionStatusForCurrentDocument(): a transient type that was      *)
(* granted in advance moves from the persistent store to the frame's own.  *)

Status(S, f, t) ==
  IF t \in TransientTypes /\ S.transient[f][t] # "ask" THEN S.transient[f][t]
  ELSE S.persistent[OriginOf[f]][t]

Moves(S, f, t) == t \in TransientTypes /\ S.transient[f][t] = "ask" /\ Status(S, f, t) # "ask"
Moved(S, f, T) ==
  LET M == {t \in T : Moves(S, f, t)}
  IN [S EXCEPT !.transient[f] = [t \in Types |-> IF t \in M THEN Status(S, f, t) ELSE @[t]],
               !.persistent[OriginOf[f]] = [t \in Types |-> IF t \in M THEN "ask" ELSE @[t]]]

\* The types that are looked at, up to the first one in stops.
LookedAt(types, stops) ==
  {types[i] : i \in {j \in DOMAIN types : \A k \in 1 .. j - 1 : types[k] \notin stops}}

Answer(S, m, granted) == [S EXCEPT !.answers = Append(@, [m |-> m, granted |-> granted])]

\* RequestPermissions(): answered if the stores decide all types, otherwise the
\* request waits and the application is asked.
RequestPermissions(S, m) ==
  LET undecided == {t \in ToSet(m.types) : Status(S, m.frame, t) = "ask"}
      moved == Moved(S, m.frame, LookedAt(m.types, undecided))
  IN IF undecided # {}
     THEN [moved EXCEPT !.multi = Append(@, m),
                        !.prompts = @ \union {[frame |-> m.frame, types |-> m.types]}]
     ELSE Answer(moved, m, {t \in ToSet(m.types) : Status(S, m.frame, t) = "granted"})
-----------------------------------------------------------------------------
(* setPermissionImpl(): store the decision; unless it is "ask", answer the *)
(* waiting requests of the origin whose types all have that status now.    *)

SameOrigin(m, o) == OriginOf[m.frame] = o

InTransientStore(t, f) == f # NoFrame /\ t \in TransientTypes

Stored(S, o, t, status, f) ==
  IF InTransientStore(t, f) THEN [S EXCEPT !.transient[f][t] = status]
  ELSE [S EXCEPT !.persistent[o][t] = status]

StatusFor(S, o, inTransient, f, u) ==
  IF inTransient /\ AliveFrame(S, f) THEN Status(S, f, u) ELSE S.persistent[o][u]

AnswerIfAgreed(S, m, o, inTransient, f, status) ==
  LET differ == {u \in ToSet(m.types) : StatusFor(S, o, inTransient, f, u) # status}
      moved == IF inTransient /\ AliveFrame(S, f) THEN Moved(S, f, LookedAt(m.types, differ)) ELSE S
  IN IF differ # {} THEN [moved EXCEPT !.multi = Append(@, m)]
     ELSE Answer(moved, m, IF status = "granted" THEN ToSet(m.types) ELSE {})

Visit(S, m, o, inTransient, f, status) ==
  IF SameOrigin(m, o) THEN AnswerIfAgreed(S, m, o, inTransient, f, status)
  ELSE [S EXCEPT !.multi = Append(@, m)]

\* All the waiting requests, in their order; those that still wait stay.
VisitAll(S, o, inTransient, f, status) ==
  LET visited[n \in 0 .. Len(S.multi)] ==
        IF n = 0 THEN [S EXCEPT !.multi = <<>>]
        ELSE Visit(visited[n - 1], S.multi[n], o, inTransient, f, status)
  IN visited[Len(S.multi)]

setPermissionImpl(S, o, t, status, f) ==
  LET stored == Stored(S, o, t, status, f)
  IN IF status = "ask" THEN stored
     ELSE VisitAll(stored, o, InTransientStore(t, f), f, status)

\* setPermission(): both media types one after the other.
setPermission(S, o, types, status, f) ==
  LET done[n \in 0 .. Len(types)] ==
        IF n = 0 THEN S ELSE setPermissionImpl(done[n - 1], o, types[n], status, f)
  IN done[Len(types)]
=============================================================================
