-------------------------------- MODULE GpuPage --------------------------------
(***************************************************************************)
(* The GPU detail window: openGpuDetails of the dashboard, which opens it  *)
(* or brings it to the front, and the page gpu.html in it, which asks for  *)
(* get_stats once a second.  The page writes the identity of the GPU once  *)
(* and the figures at every answer that has a GPU.                         *)
(*                                                                         *)
(* An answer is the id of the card it is about, or 0 without a GPU: that   *)
(* one answer is about one card is OneCardPerReading of Readings.          *)
(***************************************************************************)
EXTENDS Naturals, SequencesExt

CONSTANTS
    MaxCard,        \* cards are card0 .. card<MaxCard>
    MaxChanges,     \* how often a card comes or goes
    MaxClicks,      \* clicks on the GPU card under way at once
    MaxUpdates      \* updates of the page under way at once

ASSUME GpuPageAssumption ==
    /\ MaxCard \in Nat /\ MaxChanges \in Nat /\ MaxClicks \in Nat /\ MaxUpdates \in Nat

VARIABLES
    drm,        \* the AMD card with each number, or 0
    changes,    \* how often a card has come or gone
    window,     \* whether the detail window is there
    looking,    \* clicks that wait for getByLabel
    focusing,   \* clicks that have found the window and wait for setFocus
    opening,    \* clicks that have found none and ask for one
    asked,      \* calls of get_stats by the page that have not read the card yet
    answers,    \* what the others have read, on its way to the page
    identity,   \* the card the identity table is about, 0 while "Detecting..."
    shown,      \* the card the figures are of, 0 before the first
    wanted,     \* history: a click has not been overruled by closing the window
    sameCards   \* history: no card has come or gone since the window opened

machine == <<drm, changes>>
clicks == <<looking, focusing, opening>>
page == <<asked, answers, identity, shown>>
gpuVars == <<machine, window, clicks, page, wanted, sameCards>>

CardNo == 0 .. MaxCard
Ids == 1 .. MaxCard + MaxChanges + 1

(* The card of find_amd_card, or 0. *)
FirstCard ==
    LET there == {n \in CardNo : drm[n] # 0}
    IN  IF there = {} THEN 0 ELSE drm[CHOOSE n \in there : \A m \in there : n <= m]

GpuInit ==
    /\ drm \in [CardNo -> 0 .. MaxCard + 1]
    /\ \A n \in CardNo : drm[n] \in {0, n + 1}
    /\ changes = 0
    /\ window = FALSE
    /\ looking = 0 /\ focusing = 0 /\ opening = 0
    /\ asked = 0 /\ answers = <<>> /\ identity = 0 /\ shown = 0
    /\ wanted = FALSE /\ sameCards = TRUE

CardChanges(n) ==
    /\ changes < MaxChanges
    /\ changes' = changes + 1
    /\ drm' = [drm EXCEPT ![n] = IF @ = 0 THEN MaxCard + changes + 2 ELSE 0]
    /\ sameCards' = FALSE
    /\ UNCHANGED <<window, clicks, page, wanted>>

-------------------------------------------------------------------------------
(* openGpuDetails. *)

UnderWay == looking + focusing + opening

(* Variant: a click is ignored while another one is under way. *)
ClickDebounced ==
    /\ looking' = IF UnderWay > 0 THEN looking ELSE looking + 1
    /\ wanted' = TRUE
    /\ UNCHANGED <<machine, window, focusing, opening, page, sameCards>>

Click ==
    /\ UnderWay < MaxClicks
    /\ looking' = looking + 1
    /\ wanted' = TRUE
    /\ UNCHANGED <<machine, window, focusing, opening, page, sameCards>>

(* Variant: no return after setFocus. *)
LookUpWithoutReturn ==
    /\ looking > 0
    /\ looking' = looking - 1
    /\ focusing' = IF window THEN focusing + 1 ELSE focusing
    /\ opening' = opening + 1
    /\ UNCHANGED <<machine, window, page, wanted, sameCards>>

LookUp ==
    /\ looking > 0
    /\ looking' = looking - 1
    /\ IF window THEN focusing' = focusing + 1 /\ UNCHANGED opening
                 ELSE opening' = opening + 1 /\ UNCHANGED focusing
    /\ UNCHANGED <<machine, window, page, wanted, sameCards>>

(* setFocus returns, or throws when the window has gone. *)
Focus ==
    /\ focusing > 0
    /\ focusing' = focusing - 1
    /\ UNCHANGED <<machine, window, looking, opening, page, wanted, sameCards>>

(* new WebviewWindow.  There is one window of a label: where it exists already
   the request fails, and nothing happens. *)
OpenWindow ==
    /\ opening > 0
    /\ opening' = opening - 1
    /\ window' = TRUE
    /\ sameCards' = (sameCards \/ ~window)
    /\ UNCHANGED <<machine, looking, focusing, page, wanted>>

(* Variant: the page is hidden, not ended. *)
CloseWindowHiding ==
    /\ window
    /\ window' = FALSE /\ wanted' = FALSE
    /\ asked' = 0 /\ answers' = <<>>
    /\ UNCHANGED <<machine, clicks, identity, shown, sameCards>>

(* The user closes the window, which ends its page and what it waits for. *)
CloseWindow ==
    /\ window
    /\ window' = FALSE /\ wanted' = FALSE
    /\ asked' = 0 /\ answers' = <<>> /\ identity' = 0 /\ shown' = 0
    /\ UNCHANGED <<machine, clicks, sameCards>>

-------------------------------------------------------------------------------
(* update() of the page, at the load and every second. *)

GpuTimerFires ==
    /\ window
    /\ asked + Len(answers) < MaxUpdates
    /\ asked' = asked + 1
    /\ UNCHANGED <<machine, window, clicks, answers, identity, shown, wanted, sameCards>>

(* get_stats reads the card for one of its callers. *)
ReadCard ==
    /\ asked > 0
    /\ asked' = asked - 1
    /\ answers' = Append(answers, FirstCard)
    /\ UNCHANGED <<machine, window, clicks, identity, shown, wanted, sameCards>>

(* Variant: with the identity there, the rest is not written either. *)
GpuUpdateContinuesOnce(i) ==
    /\ answers' = RemoveAt(answers, i)
    /\ IF answers[i] # 0 /\ identity = 0 THEN shown' = answers[i] /\ identity' = answers[i]
                                         ELSE UNCHANGED <<identity, shown>>
    /\ UNCHANGED <<machine, window, clicks, asked, wanted, sameCards>>

(* After its await: without a GPU the page stays as it is.  The identity is
   written unless it has been; answers come in any order. *)
GpuUpdateContinues(i) ==
    /\ answers' = RemoveAt(answers, i)
    /\ IF answers[i] = 0
       THEN UNCHANGED <<identity, shown>>
       ELSE /\ shown' = answers[i]
            /\ identity' = IF identity = 0 THEN answers[i] ELSE identity
    /\ UNCHANGED <<machine, window, clicks, asked, wanted, sameCards>>

GpuNext ==
    \/ \E n \in CardNo : CardChanges(n)
    \/ Click \/ LookUp \/ Focus \/ OpenWindow \/ CloseWindow
    \/ GpuTimerFires \/ ReadCard
    \/ \E i \in DOMAIN answers : GpuUpdateContinues(i)

GpuSpec == GpuInit /\ [][GpuNext]_gpuVars

(* The timer fires while there is a page, get_stats answers (EveryCallAnswered
   of GetStats), and every answer reaches its update: at the latest when it is
   the oldest. *)
GpuFairSpec ==
    GpuSpec /\ WF_gpuVars(GpuTimerFires) /\ WF_gpuVars(ReadCard)
         /\ WF_gpuVars(answers # <<>> /\ GpuUpdateContinues(1))

-------------------------------------------------------------------------------
GpuTypeOK ==
    /\ drm \in [CardNo -> Ids \cup {0}]
    /\ changes \in 0 .. MaxChanges
    /\ window \in BOOLEAN /\ wanted \in BOOLEAN /\ sameCards \in BOOLEAN
    /\ looking \in Nat /\ focusing \in Nat /\ opening \in Nat /\ UnderWay <= MaxClicks
    /\ asked \in Nat
    /\ answers \in Seq(Ids \cup {0}) /\ asked + Len(answers) <= MaxUpdates
    /\ identity \in Ids \cup {0} /\ shown \in Ids \cup {0}

(* gpu.html:338-416: the identity is written once and the figures with every
   answer.  One never stands without the other, and as long as no card has come
   or gone since the window was opened both are of the card there is. *)
NamesItsFigures ==
    /\ identity = 0 <=> shown = 0
    /\ window /\ sameCards => {identity, shown} \subseteq {0, FirstCard}

(* dashboard.html:698-720: however clicks and their lookups overlap with each
   other and with the closing of the window, once all are through a window is
   there, unless it was closed after the last click. *)
ClickLeavesWindow ==
    wanted /\ UnderWay = 0 => window

(* gpu.html:338-376: when at last the window stays and so does a card, the page
   comes to show the figures of that card, whatever old answers were on their
   way.  Without a card it keeps the last figures for ever (gpu.html:343). *)
FiguresCatchUp ==
    \A id \in Ids : <>[](window /\ FirstCard = id) => <>[](shown = id)
===============================================================================
