---------------------------- MODULE AsideScreens ----------------------------
(***************************************************************************)
(* The header's buttons of the app: the management and the settings screen *)
(* take the place of what else is on screen, wizard or recovery card.      *)
(***************************************************************************)
EXTENDS Integers

CONSTANTS MaxVisits   \* bound: visits of these screens

ASSUME VisitConstants == MaxVisits \in Nat

VARIABLES
  aside,       \* the management or the settings screen is open
  visits       \* bookkeeping: bounded by MaxVisits

asideVars == <<aside, visits>>

AsideInit == aside = FALSE /\ visits = 0

GoAside == /\ ~aside /\ visits < MaxVisits
           /\ aside' = TRUE /\ visits' = visits + 1

ComeBack == aside /\ aside' = FALSE /\ UNCHANGED visits
=============================================================================
