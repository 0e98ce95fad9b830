----------------------------- MODULE Translator -----------------------------
(***************************************************************************)
(* The Translator view, what it asks of a translation provider, and the    *)
(* installation of offline models (src/src/web/js/views/translator.ts,     *)
(* translation-provider.ts, translator-preferences.ts and                  *)
(* events/settings/translator.ts).                                         *)
(*                                                                         *)
(* The text is translated 450 ms after the last change of the text or of   *)
(* the languages; a failed request is repeated once; an answer counts only *)
(* if no later translation was begun.  Offline models translate a pair     *)
(* directly or through English and are installed from a dialog, which is   *)
(* modal: while it is open only timers and answers happen beneath.  The    *)
(* text of an answer is what was asked; the Explain button, the use of the *)
(* translator as a dictionary, names, sizes and flags are left out.        *)
(***************************************************************************)
EXTENDS Naturals, FiniteSets

CONSTANTS
    Codes,              \* the languages offered, "en" among them
    Profiles,           \* the learning profiles: languages, and "other"
    Locale,             \* the language of the interface
    DefaultCode,        \* the first language offered
    Typed,              \* what may stand in the text field; "" is blank
    Providers,          \* "offline", "deepl", "google" and "lmstudio"
    MaxTranslatorActs   \* a bound on what the user does

VARIABLES
    prefs,      \* [profile, source, target, provider, offline, key, model]
    models,     \* the installed models, pairs of languages
    view,       \* the view shown, "translator" or "settings"
    page,       \* the Translator as drawn: [typed, from, to, enabled, status, result, busy]
    timer,      \* translateTimer is running
    generation, \* translateGeneration
    asked,      \* the requests not answered: [generation, text, from, to, tries]
    dialog,     \* the download dialog: [open, from, to, ticked, running]
    redrawn,    \* the languages shown were replaced since the text was asked
    translatorActs

translatorVars == <<prefs, models, view, page, timer, generation, asked, dialog, redrawn,
                    translatorActs>>

NoResult == [text |-> "", from |-> "", to |-> ""]

Closed == [open |-> FALSE, from |-> "", to |-> "", ticked |-> {}, running |-> FALSE]

TranslatorTypeOK ==
    /\ prefs.profile \in Profiles /\ {prefs.source, prefs.target} \subseteq Codes \cup {""}
    /\ prefs.provider \in Providers
    /\ models \subseteq Codes \X Codes
    /\ view \in {"translator", "settings"}
    /\ page.status \in {"ready", "translating", "done", "error", "noModel", "unavailable"}
    /\ \A r \in asked : r.generation \in 1 .. generation /\ r.tries \in 1 .. 2 /\ r.text # ""

Act == translatorActs < MaxTranslatorActs /\ translatorActs' = translatorActs + 1

\* The pair of the profile; the profile "other" names its own languages.
ProfilePair(p) ==
    IF p.profile # "other"
    THEN [from |-> p.profile, to |-> Locale]
    ELSE [from |-> p.source, to |-> IF p.target = "" THEN Locale ELSE p.target]

CanUseProvider(p) ==
    /\ ProfilePair(p).from # ""
    /\ CASE p.provider = "offline" -> p.offline
         [] p.provider = "deepl" -> p.key
         [] p.provider = "lmstudio" -> p.model
         [] OTHER -> TRUE

\* A model translates the pair, or two do through English.
HasModel(m, from, to) ==
    \/ from = "" \/ to = "" \/ from = to
    \/ <<from, to>> \in m
    \/ from # "en" /\ to # "en" /\ {<<from, "en">>, <<"en", to>>} \subseteq m

Pick(candidates, fallback) ==
    LET offered == {i \in DOMAIN candidates : candidates[i] \in Codes}
    IN IF offered = {} THEN fallback
       ELSE candidates[CHOOSE i \in offered : \A j \in offered : i <= j]

\* ensureSelectedPair: the languages selected, or those of the profile "other"
SelectedPair(p, g) ==
    LET pair == ProfilePair(p)
        shown == IF p.profile = "other" THEN pair ELSE [from |-> g.from, to |-> g.to]
    IN [from |-> Pick(<<shown.from, pair.from>>, DefaultCode),
        to |-> Pick(<<shown.to, pair.to>>, DefaultCode)]

\* renderTranslator: the page g drawn with preferences p and models m
Drawn(p, m, g) ==
    LET pair == SelectedPair(p, g)
        can == CanUseProvider(p) /\ (p.provider = "offline" => m # {})
    IN [g EXCEPT !.from = pair.from, !.to = pair.to, !.enabled = can,
                 !.status = IF ~can THEN "unavailable" ELSE IF g.busy THEN @ ELSE "ready"]

Render(p, m, g) ==
    /\ page' = Drawn(p, m, g)
    /\ redrawn' = (redrawn \/ page'.from # g.from \/ page'.to # g.to)

\* What the user can reach: the view shown, unless the dialog covers it
At(v) == view = v /\ ~dialog.open

TranslatorInit ==
    /\ prefs \in [profile : Profiles, source : {""}, target : {""}, provider : Providers,
                  offline : BOOLEAN, key : {FALSE}, model : {FALSE}]
    /\ models \in IF prefs.offline THEN {{<<"en", Locale>>, <<Locale, "en">>}} ELSE {{}}
    /\ view = "translator"
    /\ page = Drawn(prefs, models,
                    [typed |-> "", from |-> "", to |-> "", enabled |-> FALSE,
                     status |-> "ready", result |-> NoResult, busy |-> FALSE])
    /\ timer = FALSE /\ generation = 0 /\ asked = {} /\ dialog = Closed /\ redrawn = FALSE
    /\ translatorActs = 0

-----------------------------------------------------------------------------
(* The view                                                                *)

Type(text) ==
    /\ UNCHANGED <<prefs, models, view, generation, asked, dialog, redrawn>>
    /\ At("translator") /\ page.enabled /\ text # page.typed /\ Act
    /\ page' = [page EXCEPT !.typed = text]
    /\ timer' = TRUE

\* saveOtherProfilePair: the profile "other" keeps the languages chosen
KeepPair(from, to) ==
    prefs' = IF prefs.profile = "other" THEN [prefs EXCEPT !.source = from, !.target = to]
             ELSE prefs

\* A language is chosen, or the two are exchanged.
Choose(from, to) ==
    /\ UNCHANGED <<models, view, generation, asked, dialog>>
    /\ At("translator") /\ Act
    /\ <<from, to>> # <<page.from, page.to>>
    /\ \/ from = page.from \/ to = page.to
       \/ from = page.to /\ to = page.from
    /\ KeepPair(from, to)
    /\ timer' = TRUE
    /\ Render(prefs', models, [page EXCEPT !.from = from, !.to = to])

\* translateNow, by the outcome of its checks
Translate ==
    LET pair == SelectedPair(prefs, page)
        missing == prefs.provider = "offline" /\ ~HasModel(models, pair.from, pair.to)
    IN /\ UNCHANGED <<prefs, models, view, dialog, translatorActs>>
       /\ timer /\ timer' = FALSE
       /\ generation' = generation + 1
       /\ CASE page.typed = "" ->
                 /\ page' = [page EXCEPT !.result = NoResult, !.status = "ready", !.busy = FALSE]
                 /\ UNCHANGED <<asked, redrawn>>
            [] page.typed # "" /\ ~CanUseProvider(prefs) ->
                 /\ page' = [page EXCEPT !.busy = FALSE]
                 /\ UNCHANGED <<asked, redrawn>>
            [] page.typed # "" /\ CanUseProvider(prefs) /\ missing ->
                 /\ page' = [page EXCEPT !.status = "noModel", !.busy = FALSE]
                 /\ UNCHANGED <<asked, redrawn>>
            [] OTHER ->
                 /\ page' = [page EXCEPT !.status = "translating", !.busy = TRUE]
                 /\ asked' = asked \cup {[generation |-> generation', text |-> page.typed,
                                          from |-> pair.from, to |-> pair.to, tries |-> 1]}
                 /\ redrawn' = FALSE

\* Slip: any answer counts.
InTimeAnyhow(r) == TRUE

\* An answer counts if no later translation was begun.
InTime(r) == r.generation = generation

Answer(r) ==
    /\ UNCHANGED <<prefs, models, view, timer, generation, dialog, redrawn, translatorActs>>
    /\ r \in asked /\ asked' = asked \ {r}
    /\ page' = IF InTime(r)
               THEN [page EXCEPT !.result = [text |-> r.text, from |-> r.from, to |-> r.to],
                                 !.status = "done", !.busy = FALSE]
               ELSE page

\* A failed request is repeated once, unless a local model failed; a text in
\* its own language is not sent and cannot fail.
Fail(r) ==
    /\ UNCHANGED <<prefs, models, view, timer, generation, dialog, redrawn, translatorActs>>
    /\ r \in asked /\ r.from # r.to
    /\ IF r.tries = 1 /\ prefs.provider # "lmstudio"
       THEN asked' = (asked \ {r}) \cup {[r EXCEPT !.tries = 2]} /\ UNCHANGED page
       ELSE /\ asked' = asked \ {r}
            /\ page' = IF InTime(r) THEN [page EXCEPT !.status = "error", !.busy = FALSE] ELSE page

-----------------------------------------------------------------------------
(* The settings                                                            *)

\* Every entry into the view draws it.
Show(v) ==
    /\ UNCHANGED <<prefs, models, timer, generation, asked, dialog>>
    /\ ~dialog.open /\ v # view /\ Act
    /\ view' = v
    /\ IF v = "translator" THEN Render(prefs, models, page) ELSE UNCHANGED <<page, redrawn>>

\* The languages selected stay when the profile is another one, except "other".
SwitchProfile(profile) ==
    /\ UNCHANGED <<models, view, timer, generation, asked, dialog>>
    /\ ~dialog.open /\ profile # prefs.profile /\ Act
    /\ prefs' = [prefs EXCEPT !.profile = profile]
    /\ IF view = "translator" THEN Render(prefs', models, page) ELSE UNCHANGED <<page, redrawn>>

ChooseProvider(provider) ==
    /\ UNCHANGED <<models, view, timer, generation, asked, dialog>>
    /\ At("settings") /\ provider # prefs.provider /\ Act
    /\ prefs' = [prefs EXCEPT !.provider = provider]
    /\ Render(prefs', models, page)

\* The languages of the profile "other"
ChooseProfileLanguages(source, target) ==
    /\ UNCHANGED <<models, view, timer, generation, asked, dialog>>
    /\ At("settings") /\ prefs.profile = "other" /\ Act
    /\ source = prefs.source \/ target = prefs.target
    /\ <<source, target>> # <<prefs.source, prefs.target>>
    /\ prefs' = [prefs EXCEPT !.source = source, !.target = target]
    /\ Render(prefs', models, page)

\* The key of DeepL and the model of LM Studio do not redraw the Translator.
EnterKey(key, model) ==
    /\ UNCHANGED <<models, view, page, timer, generation, asked, dialog, redrawn>>
    /\ At("settings") /\ Act
    /\ <<key, model>> # <<prefs.key, prefs.model>>
    /\ prefs' = [prefs EXCEPT !.key = key, !.model = model]

OfflineOff ==
    /\ UNCHANGED <<models, view, timer, generation, asked, dialog>>
    /\ At("settings") /\ prefs.offline /\ Act
    /\ prefs' = [prefs EXCEPT !.offline = FALSE]
    /\ Render(prefs', models, page)

-----------------------------------------------------------------------------
(* The download of models                                                  *)

OpenDialog(from, to, ticked) ==
    /\ UNCHANGED <<prefs, models, view, page, timer, generation, asked, redrawn>>
    /\ Act
    /\ dialog' = [Closed EXCEPT !.open = TRUE, !.from = from, !.to = to, !.ticked = ticked]

\* The box of the settings, ticked
OfflineOn ==
    LET pair == ProfilePair(prefs)
    IN /\ At("settings") /\ ~prefs.offline /\ pair.from # ""
       /\ OpenDialog("", "", {pair.from, pair.to})

\* The offer beside a text whose pair has no model
DownloadForPair ==
    /\ At("translator") /\ page.status = "noModel"
    /\ OpenDialog(page.from, page.to, {page.from, page.to})

Tick(code) ==
    /\ UNCHANGED <<prefs, models, view, page, timer, generation, asked, redrawn>>
    /\ dialog.open /\ ~dialog.running /\ Act
    /\ dialog' = [dialog EXCEPT !.ticked = IF code \in @ THEN @ \ {code} ELSE @ \cup {code}]

CancelDownload ==
    /\ UNCHANGED <<prefs, models, view, timer, generation, asked>>
    /\ dialog.open /\ ~dialog.running /\ Act
    /\ dialog' = Closed
    /\ Render(prefs, models, page)

Confirm ==
    /\ UNCHANGED <<prefs, models, view, page, timer, generation, asked, redrawn>>
    /\ dialog.open /\ ~dialog.running /\ dialog.ticked # {} /\ Act
    /\ dialog' = [dialog EXCEPT !.running = TRUE]

\* The models there may be after an installation: each language asked for may
\* turn out to have none.
Installable ==
    LET pair == ProfilePair(prefs)
        languages == (dialog.ticked \cup {pair.from, pair.to, dialog.from, dialog.to}) \ {"", "en"}
    IN {models \cup {<<a, "en">> : a \in S} \cup {<<"en", a>> : a \in S} : S \in SUBSET languages}

\* Slip: only the pair of the Translator is looked at.
MustWorkForTheView == [from |-> dialog.from, to |-> dialog.to]

\* The pair without which an installation counts as failed
MustWork == ProfilePair(prefs)

\* The installation ended; the models are asked for again, which may fail.
Installed ==
    /\ UNCHANGED <<view, timer, generation, asked, translatorActs>>
    /\ dialog.running
    /\ models' \in Installable \cup {{}}
    /\ LET works == HasModel(models', MustWork.from, MustWork.to)
       IN /\ prefs' = [prefs EXCEPT !.offline = works]
          /\ dialog' = IF works THEN Closed ELSE [dialog EXCEPT !.running = FALSE]
    /\ Render(prefs', models', page)

\* The installation failed: the offline translator is switched off.
InstallFails ==
    /\ UNCHANGED <<models, view, timer, generation, asked, translatorActs>>
    /\ dialog.running
    /\ dialog' = [dialog EXCEPT !.running = FALSE]
    /\ prefs' = [prefs EXCEPT !.offline = FALSE]
    /\ Render(prefs', models, page)

TranslatorNext ==
    \/ \E text \in Typed : Type(text)
    \/ \E from, to \in Codes : Choose(from, to)
    \/ Translate
    \/ \E r \in asked : Answer(r) \/ Fail(r)
    \/ \E v \in {"translator", "settings"} : Show(v)
    \/ \E profile \in Profiles : SwitchProfile(profile)
    \/ \E provider \in Providers : ChooseProvider(provider)
    \/ \E source, target \in Codes \cup {""} : ChooseProfileLanguages(source, target)
    \/ \E key, model \in BOOLEAN : EnterKey(key, model)
    \/ OfflineOff \/ OfflineOn \/ DownloadForPair
    \/ \E code \in Codes : Tick(code)
    \/ CancelDownload \/ Confirm \/ Installed \/ InstallFails

-----------------------------------------------------------------------------
(* What the user may rely on                                               *)

\* Once the text and the languages have rested and a view that can translate
\* says the text is translated, the result is that of the text typed, in the languages shown:
\* no answer to an earlier text or for another pair stands there, in whatever
\* order requests, retries and failures end.  Only where a change of profile
\* or of its languages replaced the languages while the answer was awaited
\* does the result keep the pair that was asked.
ResultIsOfTheText ==
    view = "translator" /\ page.enabled /\ page.status = "done" /\ ~timer =>
        /\ page.result.text = page.typed
        /\ ~redrawn => page.result.from = page.from /\ page.result.to = page.to

\* The view is busy exactly while the latest translation is under way: an
\* overtaken answer neither ends nor prolongs it.
BusyWhileAsked == page.busy = (\E r \in asked : r.generation = generation)

\* The offline translator is switched on only when the models there translate
\* the pair of the profile, whichever pair the models were downloaded for.
OnlyWorkingModelsAreUsed ==
    ~prefs.offline /\ prefs'.offline =>
        HasModel(models', ProfilePair(prefs').from, ProfilePair(prefs').to)

\* The three of them, as one property of the Translator's behaviour
TranslatorIsHonest ==
    /\ [](TranslatorTypeOK /\ ResultIsOfTheText /\ BusyWhileAsked)
    /\ [][OnlyWorkingModelsAreUsed]_translatorVars
=============================================================================
