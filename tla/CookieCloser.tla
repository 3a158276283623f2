----------------------------- MODULE CookieCloser -----------------------------
(***************************************************************************)
(* close_cookies_in_session: polls for a banner, then clicks an accept text *)
(* (heuristic_only, the way a recipe runs) or asks the language model what  *)
(* to click, at most MaxAttempts times.  The banner is injected by the page *)
(* at a moment of its own.                                                  *)
(***************************************************************************)
EXTENDS Integers

CONSTANT MaxAttempts  \* _MAX_ATTEMPTS

ASSUME AttemptsAssumption == MaxAttempts \in Nat \ {0}

VARIABLES wall,       \* the banner: "none", "coming", or "up"
          closer,     \* where the closer stands
          heuristic,  \* heuristic_only
          signal,     \* signal_found
          attempt,
          accepted,   \* last_click_selector is set
          action      \* of the CloseResult

cookieVars == <<wall, closer, heuristic, signal, attempt, accepted, action>>

CookiesIdle ==
    /\ closer = "idle"
    /\ heuristic = FALSE
    /\ signal = FALSE
    /\ attempt = 1
    /\ accepted = FALSE
    /\ action = "none"

InitCookies == wall \in {"none", "coming", "up"} /\ CookiesIdle

ReturnCookies ==
    /\ closer \in {"ok", "failed"}
    /\ closer' = "idle"
    /\ heuristic' = FALSE
    /\ signal' = FALSE
    /\ attempt' = 1
    /\ accepted' = FALSE
    /\ action' = "none"
    /\ UNCHANGED wall

StartCookies(byHeuristic) ==
    /\ closer = "idle"
    /\ closer' = "poll"
    /\ heuristic' = byHeuristic
    /\ UNCHANGED <<wall, signal, attempt, accepted, action>>

Return(state, what) ==
    /\ closer' = state
    /\ action' = what
    /\ UNCHANGED <<heuristic, signal, attempt, accepted>>

(* The consent script of the page shows its banner.                          *)
BannerAppears ==
    /\ closer \in {"poll", "detect", "ask"}
    /\ wall = "coming"
    /\ wall' = "up"
    /\ UNCHANGED <<closer, heuristic, signal, attempt, accepted, action>>

(* A banner that is up is a signal; so is a page that grew, banner or not;   *)
(* and the poll may time out on a page whose script cannot be asked.         *)
PollForBanner ==
    /\ closer = "poll"
    /\ signal' \in BOOLEAN
    /\ closer' = "detect"
    /\ UNCHANGED <<wall, heuristic, attempt, accepted, action>>

(* A click may remove the banner, and may hit something else.                *)
Clicked == wall' \in {wall, "none"}

(* What the overlay check may answer: a page that cannot be asked, as while   *)
(* it navigates, counts as one without an overlay.                           *)
OverlayPresent == IF wall = "up" THEN BOOLEAN ELSE {FALSE}

NothingToClose ==
    /\ closer = "detect"
    /\ heuristic
    /\ ~signal
    /\ FALSE \in OverlayPresent
    /\ Return("ok", "no_banner_found")
    /\ UNCHANGED wall

AcceptByText(found) ==
    /\ closer = "detect"
    /\ heuristic
    /\ signal \/ TRUE \in OverlayPresent
    /\ IF found THEN Clicked /\ Return("ok", "clicked")
                ELSE Return("failed", "failed") /\ UNCHANGED wall

CloseByHeuristic == NothingToClose \/ \E found \in BOOLEAN : AcceptByText(found)

-----------------------------------------------------------------------------
(* What is believed once nothing is found: a closer that has clicked takes   *)
(* the banner for gone; one that has not looks for an overlay first.         *)
NoCandidates ==
    /\ closer = "detect"
    /\ ~heuristic
    /\ \/ accepted /\ Return("ok", "clicked")
       \/ ~accepted /\ FALSE \in OverlayPresent /\ Return("ok", "no_banner_found")
       \/ ~accepted /\ TRUE \in OverlayPresent /\ Return("ask", action)
    /\ UNCHANGED wall

Candidates ==
    /\ closer = "detect"
    /\ ~heuristic
    /\ Return("ask", action)
    /\ UNCHANGED wall

ModelFails ==
    /\ closer = "ask"
    /\ Return("failed", "failed")
    /\ UNCHANGED wall

TryAgain(clickedNow) ==
    /\ accepted' = (accepted \/ clickedNow)
    /\ UNCHANGED <<heuristic, signal>>
    /\ IF attempt = MaxAttempts
       THEN closer' = "failed" /\ action' = "failed" /\ UNCHANGED attempt
       ELSE closer' = "detect" /\ attempt' = attempt + 1 /\ UNCHANGED action

ModelSeesNoBanner ==
    /\ closer = "ask"
    /\ \/ accepted /\ Return("ok", "clicked")
       \/ ~accepted /\ FALSE \in OverlayPresent /\ Return("ok", "no_banner_found")
       \/ ~accepted /\ TRUE \in OverlayPresent /\ TryAgain(FALSE)
    /\ UNCHANGED wall

ModelChooses ==
    /\ closer = "ask"
    /\ \/ Clicked /\ Return("ok", "clicked")
       \/ Clicked /\ TryAgain(TRUE)
       \/ UNCHANGED wall /\ TryAgain(FALSE)

CookieNext ==
    \/ BannerAppears \/ PollForBanner \/ CloseByHeuristic
    \/ NoCandidates \/ Candidates \/ ModelFails \/ ModelSeesNoBanner \/ ModelChooses

-----------------------------------------------------------------------------
(* "No banner" is reported only once an overlay check has found none ("verify *)
(* no overlay is still blocking the viewport", cookie_closer.py:449): what    *)
(* the language model or the poll overlooked is found out.                   *)
(* Not kept by the code (README, section 3).                                 *)
NoBannerMeansNoBanner ==
    closer = "ok" /\ action = "no_banner_found" => wall # "up"
=============================================================================
