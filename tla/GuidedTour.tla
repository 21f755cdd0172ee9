----------------------------- MODULE GuidedTour -----------------------------
(***************************************************************************)
(* The guided tour of the demo (apps/web/src/components/tour): eight beats *)
(* over the pages of the application, a place kept in sessionStorage, and  *)
(* an overlay that decides on every render what to show from that place    *)
(* and the page it is on.                                                  *)
(*                                                                         *)
(* The overlay lives in the root layout.  The application's own links      *)
(* (next/link) change the page under a living overlay; the tour's links,   *)
(* the forms and a typed address load a new document, with a new overlay.  *)
(* A link of the tour first stores the beat it leads to, without telling   *)
(* the overlay, and the document is left some time later: the renders in   *)
(* between read the new place on the old page.                             *)
(***************************************************************************)
EXTENDS Integers, FiniteSets

CONSTANTS
  MaxMoves,   \* bound: steps of a visitor that no card asks for
  MaxResets,  \* bound: nightly resets
  MaxPauses   \* bound: times the intake closes, for a limit or the budget

ASSUME BoundAssumption == MaxMoves \in Nat /\ MaxResets \in Nat
                          /\ MaxPauses \in Nat

VARIABLES
  stored,   \* the raw value in sessionStorage: an index, NoTour or Corrupt
  seen,     \* the place the overlay rendered last, NoTour when inactive
  page,     \* the page on screen
  shown,    \* the anchors on it, as the server rendered them
  missing,  \* the beat measured as without anchor, NoBeat for none
  leaving,  \* the overlay's navigating ref
  going,    \* the page a tour link is loading, NoPage for none
  run,      \* the visitor's latest run: none, parked or ended
  asked,    \* it has an approval record
  paused,   \* the intake is in capacity mode
  refusing, \* the intake turns this visitor's submissions down
  moves, resets, pauses  \* the bounds' counters

overlay == <<stored, seen, leaving, missing>>
world == <<run, asked, paused, refusing>>
bounds == <<moves, resets, pauses>>
vars == <<overlay, page, shown, going, world, bounds>>

NoTour == -1
Corrupt == -2
NoBeat == -1
NoPage == "none"

-----------------------------------------------------------------------------
(* The script *)

\* A beat's page pattern, anchor, way on ("next" or "action") and link.
Beat(route, anchor, advanceOn, href) ==
  [route |-> route, anchor |-> anchor, advanceOn |-> advanceOn, href |-> href]

TOUR_STEPS ==
  [i \in 0..7 |->
     CASE i = 0 -> Beat("/", "intro", "next", NoPage)
       [] i = 1 -> Beat("/", "intake-form", "action", NoPage)
       [] i = 2 -> Beat("/runs/*", "run-timeline", "next", NoPage)
       [] i = 3 -> Beat("/runs/*", "approval-banner", "action", NoPage)
       [] i = 4 -> Beat("/approvals/*", "evidence-table", "action", NoPage)
       [] i = 5 -> Beat("/backend", "erp-rows", "action", "/memory")
       [] i = 6 -> Beat("/memory", "vendor-profiles", "action", "/eval")
       [] i = 7 -> Beat("/eval", "eval-headline", "next", NoPage)]

Beats == DOMAIN TOUR_STEPS
Last == 7

\* Each page the pattern it matches, by shape: the last two have no record.
Pages ==
  [p \in {"/", "/runs", "/runs/id", "/approvals/id", "/backend", "/memory",
          "/eval", "/runs/bad", "/approvals/bad"} |->
     CASE p \in {"/runs/id", "/runs/bad"} -> "/runs/*"
       [] p \in {"/approvals/id", "/approvals/bad"} -> "/approvals/*"
       [] OTHER -> p]

MatchRoute(i, p) == Pages[p] = TOUR_STEPS[i].route

\* A pattern with a wildcard is no address.
RouteHref(i) ==
  IF TOUR_STEPS[i].route \in {"/runs/*", "/approvals/*"}
  THEN NoPage ELSE TOUR_STEPS[i].route

\* What the pages' components render, from the state they load.
Anchors(p, r, a, c) ==
  LET has == [q \in DOMAIN Pages |->
        CASE q = "/" -> {"intro"} \cup (IF c THEN {} ELSE {"intake-form"})
          [] q = "/runs/id" ->
               IF r = "none" THEN {}
               ELSE {"run-timeline"}
                    \cup (IF r = "parked" THEN {"approval-banner"} ELSE {})
          [] q = "/approvals/id" -> IF a THEN {"evidence-table"} ELSE {}
          [] q = "/backend" -> {"erp-rows"}
          [] q = "/memory" -> {"vendor-profiles"}
          [] q = "/eval" -> {"eval-headline"}
          [] OTHER -> {}]
  IN has[p]

-----------------------------------------------------------------------------
(* tour-state.ts *)

\* A payload that is no place is no tour.
ParseState(raw) == IF raw >= 0 THEN raw ELSE NoTour

\* The index of an older, longer script is read as the last beat.
ClampIndex(i) == CASE i < 0 -> 0 [] i > Last -> Last [] OTHER -> i

FirstAt(i, P(_)) ==
  CHOOSE k \in i..Last : P(k) /\ \A j \in i..Last : P(j) => k <= j

\* The first beat at or after the place whose page this is.
ResolveStep(place, p) ==
  LET i == ClampIndex(place)
      Here(k) == MatchRoute(k, p)
  IN IF \E k \in i..Last : Here(k) THEN FirstAt(i, Here) ELSE i

\* A pill that leads to the beat one is at, address or not.
ResumeAtOwn(i) == ClampIndex(i)

\* The beat the pill of a visitor off the script leads to: the first at or
\* after theirs that has an address.  The last one has.
ResumeTarget(i) ==
  LET Linkable(k) == RouteHref(k) # NoPage IN FirstAt(ClampIndex(i), Linkable)

-----------------------------------------------------------------------------
(* One render of TourOverlay, and the effect that follows it at once *)

Active == seen >= 0
StepIndex == ResolveStep(seen, page)
RouteOnTrack == Active /\ MatchRoute(StepIndex, page)
OnTrack == RouteOnTrack /\ missing # StepIndex
OffScript == Active /\ ~OnTrack

\* A slip: an effect that also runs on a page already being left.
Anyway(gone) == TRUE

MayAdvance(gone) == ~gone

IsNext(i, at) == i = at + 1

\* The page belongs to the beat after the place: the effect keeps that.
Advances(raw, p, gone, miss) ==
  LET at == ClampIndex(ParseState(raw))
      i == ResolveStep(at, p)
  IN /\ ParseState(raw) >= 0
     /\ MatchRoute(i, p)
     /\ miss # i
     /\ MayAdvance(gone)
     /\ IsNext(i, at)

\* The render on page p of what is in the storage.
Render(raw, p, gone, miss) ==
  LET place == ParseState(raw) IN
  /\ stored' = IF Advances(raw, p, gone, miss)
               THEN ResolveStep(place, p) ELSE raw
  /\ seen' = ParseState(stored')
  /\ leaving' = gone
  /\ missing' = miss

\* A new document: a new overlay, whose ref and measurement are fresh.
Load(p) ==
  /\ page' = p
  /\ going' = NoPage
  /\ shown' = Anchors(p, run', asked', paused')
  /\ Render(stored, p, FALSE, NoBeat)

\* A link of the application: the overlay stays.
Visit(p) ==
  /\ page' = p
  /\ shown' = Anchors(p, run', asked', paused')
  /\ Render(stored, p, leaving, missing)
  /\ UNCHANGED going

\* The frame after a render, a scroll or a resize: is the anchor there?
Measure ==
  /\ Active
  /\ Render(stored, page, leaving,
            IF RouteOnTrack /\ TOUR_STEPS[StepIndex].anchor \notin shown
            THEN StepIndex ELSE NoBeat)
  /\ UNCHANGED <<page, shown, going, world, bounds>>

-----------------------------------------------------------------------------
(* The tour's controls *)

Idle == going = NoPage

\* A button: the place is stored and the overlay told.
GoTo(i) ==
  /\ Render(i, page, leaving, missing)
  /\ UNCHANGED <<page, shown, going>>

\* A link: the place is stored for the next document, the overlay not told.
StageAndLeave(i) ==
  /\ leaving' = TRUE
  /\ stored' = i
  /\ going' = RouteHref(i)
  /\ UNCHANGED <<seen, missing, page, shown>>

\* The browser leaves for the staged page ...
Leave ==
  /\ ~Idle
  /\ UNCHANGED <<world, bounds>>
  /\ Load(going)

\* ... or the visitor opened the link in another tab and stays here.
Stay ==
  /\ ~Idle /\ moves < MaxMoves
  /\ going' = NoPage
  /\ moves' = moves + 1
  /\ UNCHANGED <<overlay, page, shown, world, resets, pauses>>

\* The launch button.
Launch ==
  /\ Idle /\ page = "/" /\ moves < MaxMoves
  /\ GoTo(0)
  /\ moves' = moves + 1
  /\ UNCHANGED <<world, resets, pauses>>

ClearState ==
  /\ stored' = NoTour /\ seen' = NoTour
  /\ UNCHANGED <<leaving, missing, page, shown, going>>

\* Escape, Skip tour, End tour.
EndTour ==
  /\ Active
  /\ ClearState
  /\ UNCHANGED <<world, bounds>>

\* Back is a button on the beat's own page, a link to another with an address.
Back ==
  /\ Idle /\ OnTrack /\ StepIndex > 0 /\ moves < MaxMoves
  /\ IF MatchRoute(StepIndex - 1, page)
     THEN GoTo(StepIndex - 1)
     ELSE RouteHref(StepIndex - 1) # NoPage /\ StageAndLeave(StepIndex - 1)
  /\ moves' = moves + 1
  /\ UNCHANGED <<world, resets, pauses>>

Finish == StepIndex = Last /\ ClearState

NextBeat ==
  /\ StepIndex # Last
  /\ TOUR_STEPS[StepIndex].advanceOn = "next"
  /\ IF RouteHref(StepIndex + 1) # NoPage /\ ~MatchRoute(StepIndex + 1, page)
     THEN StageAndLeave(StepIndex + 1)
     ELSE GoTo(StepIndex + 1)

\* The pill of a visitor off the script: a link, when it has an address.
Pill ==
  LET target == ResumeTarget(StepIndex) IN
  /\ RouteHref(target) # NoPage
  /\ StageAndLeave(target)

\* The card's own link is a plain one: nothing is staged.
ActionLink ==
  /\ TOUR_STEPS[StepIndex].href # NoPage
  /\ Load(TOUR_STEPS[StepIndex].href)

-----------------------------------------------------------------------------
(* What the cards ask for: the application's own controls *)

\* The intake form, accepted: the run stops for a person or ends.
Submit ==
  /\ page = "/" /\ "intake-form" \in shown /\ ~paused /\ ~refusing
  /\ run' \in {"parked", "ended"}
  /\ asked' = (run' = "parked")
  /\ UNCHANGED <<paused, refusing, bounds>>
  /\ Load("/runs/id")

\* Refused: the page again, with the reason, and the form still on it unless
\* the intake is paused.  As often as the visitor submits.
Refused ==
  /\ page = "/" /\ "intake-form" \in shown /\ (paused \/ refusing)
  /\ UNCHANGED <<world, bounds>>
  /\ Load("/")

Review ==
  /\ page = "/runs/id" /\ "approval-banner" \in shown
  /\ UNCHANGED <<world, bounds>>
  /\ Visit("/approvals/id")

\* Any decision on the approval leads to the run's page.
Decide(after) ==
  /\ page = "/approvals/id" /\ run = "parked"
  /\ run' = after
  /\ UNCHANGED <<asked, paused, refusing>>
  /\ Load("/runs/id")

Approve == Decide("ended") /\ UNCHANGED bounds

\* A first rejection parks a new draft.
Reject ==
  /\ Idle /\ moves < MaxMoves
  /\ \E after \in {"parked", "ended"} : Decide(after)
  /\ moves' = moves + 1
  /\ UNCHANGED <<resets, pauses>>

\* The approval went with the reset: the route answers with an error that
\* has no overlay, and the visitor who goes back finds no such page.
DecideGone ==
  /\ page = "/approvals/id" /\ ~asked
  /\ UNCHANGED <<world, bounds>>
  /\ Load("/approvals/id")

\* The page of a decided approval links to its run.
SeeTimeline ==
  /\ page = "/approvals/id" /\ asked /\ run = "ended"
  /\ UNCHANGED <<world, bounds>>
  /\ Visit("/runs/id")

\* The visitor does what the tour on the screen asks.
FollowCard ==
  /\ OnTrack
  /\ \/ UNCHANGED <<world, bounds>> /\ (Finish \/ NextBeat \/ ActionLink)
     \/ StepIndex = 1 /\ (Submit \/ Refused)
     \/ StepIndex = 3 /\ Review
     \/ StepIndex = 4 /\ (Approve \/ DecideGone \/ SeeTimeline)

FollowPill == OffScript /\ Pill /\ UNCHANGED <<world, bounds>>

Follow == Idle /\ (FollowCard \/ FollowPill)

-----------------------------------------------------------------------------
(* A visitor with a mind of their own, and the demo around them *)

\* The navigation bar and the pages' links.
Stray ==
  /\ Idle /\ moves < MaxMoves
  /\ UNCHANGED <<world, resets, pauses>>
  /\ \E p \in {"/", "/runs", "/memory", "/backend", "/eval"}
              \cup (IF run = "none" THEN {} ELSE {"/runs/id"}) :
       p # page /\ Visit(p)
  /\ moves' = moves + 1

\* An address typed, a bookmark, a reload, a stale link.
Type ==
  /\ Idle /\ moves < MaxMoves
  /\ UNCHANGED <<world, resets, pauses>>
  /\ \E p \in DOMAIN Pages : Load(p)
  /\ moves' = moves + 1

\* The page's controls, used without the card asking.
Use ==
  /\ Idle /\ moves < MaxMoves /\ ~(OnTrack /\ StepIndex \in {1, 3, 4})
  /\ Submit \/ Review \/ Approve \/ SeeTimeline

\* The day's budget is spent.
Pause ==
  /\ ~paused /\ pauses < MaxPauses
  /\ paused' = TRUE /\ pauses' = pauses + 1
  /\ UNCHANGED <<overlay, page, shown, going, run, asked, refusing, moves,
                 resets>>

\* The visitor's rate or session is used up, or no runner is wired: from now
\* on every submission is turned down.
Limit ==
  /\ ~refusing /\ pauses < MaxPauses
  /\ refusing' = TRUE /\ pauses' = pauses + 1
  /\ UNCHANGED <<overlay, page, shown, going, run, asked, paused, moves,
                 resets>>

\* The window, the session's horizon or the day is over; pages already
\* rendered stay as they are.
Reopen ==
  /\ paused \/ refusing
  /\ paused' \in {FALSE, paused} /\ refusing' \in {FALSE, refusing}
  /\ UNCHANGED <<overlay, page, shown, going, run, asked, bounds>>

\* The nightly reset gives back the budget but no visitor's limit; pages
\* already rendered stay as they are.
Reset ==
  /\ resets < MaxResets
  /\ run' = "none" /\ asked' = FALSE /\ paused' = FALSE
  /\ resets' = resets + 1
  /\ UNCHANGED <<overlay, page, shown, going, refusing, moves, pauses>>

-----------------------------------------------------------------------------
\* A tab on the home page, with or without what an earlier script left.
Init ==
  /\ stored \in {NoTour, Corrupt, Last + 1} /\ seen = ParseState(stored)
  /\ page = "/" /\ shown = Anchors("/", "none", FALSE, FALSE)
  /\ missing = NoBeat /\ leaving = FALSE /\ going = NoPage
  /\ run = "none" /\ asked = FALSE /\ paused = FALSE /\ refusing \in BOOLEAN
  /\ moves = 0 /\ resets = 0 /\ pauses = 0

Next ==
  \/ Measure \/ Leave \/ Stay
  \/ Launch \/ EndTour \/ Back \/ Follow \/ Reject
  \/ Stray \/ Type \/ Use
  \/ Pause \/ Limit \/ Reopen \/ Reset

Spec == Init /\ [][Next]_vars

\* Frames come, a followed link loads, and a visitor who takes the tour goes
\* on doing what it asks; straying is bounded by MaxMoves.
FairSpec == Spec /\ WF_vars(Measure) /\ WF_vars(Leave) /\ WF_vars(Follow)

-----------------------------------------------------------------------------
(* Properties *)

TypeOK ==
  /\ stored \in Beats \cup {NoTour, Corrupt, Last + 1}
  /\ seen \in Beats \cup {NoTour, Last + 1}
  /\ page \in DOMAIN Pages /\ going \in DOMAIN Pages \cup {NoPage}
  /\ shown \subseteq {TOUR_STEPS[i].anchor : i \in Beats}
  /\ missing \in Beats \cup {NoBeat}
  /\ {leaving, asked, paused, refusing} \subseteq BOOLEAN
  /\ run \in {"none", "parked", "ended"}
  /\ moves \in 0..MaxMoves
  /\ resets \in 0..MaxResets /\ pauses \in 0..MaxPauses

\* The beat a tour link hands over is the beat the next page starts from:
\* renders of the page being left, and the arrival itself, leave it alone
\* ("the outgoing page must not rewrite what it is handing over",
\* stageAndLeave), unless the visitor ends the tour meanwhile.
HandoverIsKept ==
  [][~Idle /\ stored' # stored => stored' = NoTour]_vars

\* Whatever the visitor strayed to, the demo reset or a run did, and however
\* often the intake paused or turned them down on the way, somebody who does
\* what the card or the pill asks comes to the end of the tour once the intake
\* takes their submissions again (resumeTarget: no "stranding the visitor
\* mid-tour").  Until then its second beat may ask for a form that is refused
\* every time, or is not there.
TourFinishes ==
  <>[](~paused /\ ~refusing) => (Active ~> ~Active)
=============================================================================
