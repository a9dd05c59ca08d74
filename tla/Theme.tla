------------------------------- MODULE Theme -------------------------------
(***************************************************************************)
(* The theme of the console in the tabs of one browser                     *)
(* (web/src/components/theme-provider.tsx and theme-toggle.tsx).  A tab    *)
(* keeps a theme and draws it in an effect that runs after the render; the *)
(* tabs share localStorage, which tells the others of a change by an event *)
(* each, and "system" follows the preference of the operating system.      *)
(***************************************************************************)
EXTENDS Naturals, Sequences

CONSTANTS
    Tabs,      \* the tabs of the browser
    MaxMail    \* bound: storage events under way to one tab

VARIABLES
    stored,    \* localStorage, Nothing when the key is absent
    system,    \* what matchMedia answers
    theme,     \* the state of each tab
    drawn,     \* the theme whose effect ran last, Nothing before the first
    shown,     \* the class of the root element
    due,       \* the change of the media query is not dispatched yet
    mail,      \* storage events not dispatched yet
    crossed    \* history: the last change met another, or a tab that loads

themeVars == <<stored, system, theme, drawn, shown, due, mail, crossed>>
tabVars == <<theme, drawn, shown, due>>

Nothing == "nothing"
Resolved == {"dark", "light"}
Themes == Resolved \cup {"system"}

\* An absent or unknown value is the default theme.
Read(value) == IF value \in Themes THEN value ELSE "system"

Resolve(t, preference) == IF t = "system" THEN preference ELSE t

\* The effects run together the first time: before, nobody listens.
Ready(tab) == drawn[tab] # Nothing

\* Slip: the wrong themes leave the effect early.
ListensFixed(tab) == drawn[tab] \in Resolved

\* The effect of "system" listens to the media query until the next one runs.
Listens(tab) == drawn[tab] = "system"

ThemeInit ==
    /\ stored = Nothing /\ system \in Resolved
    /\ theme = [tab \in Tabs |-> "system"]
    /\ drawn = [tab \in Tabs |-> Nothing] /\ shown = [tab \in Tabs |-> Nothing]
    /\ due = [tab \in Tabs |-> FALSE] /\ mail = [tab \in Tabs |-> <<>>]
    /\ crossed = FALSE

\* A reload: the state is read from localStorage, the events of the old page are lost.
Load(tab) ==
    /\ theme' = [theme EXCEPT ![tab] = Read(stored)]
    /\ drawn' = [drawn EXCEPT ![tab] = Nothing]
    /\ shown' = [shown EXCEPT ![tab] = Nothing]
    /\ due' = [due EXCEPT ![tab] = FALSE] /\ mail' = [mail EXCEPT ![tab] = <<>>]
    /\ UNCHANGED <<stored, system, crossed>>

\* localStorage tells the tabs that listen and did not make the change.
Store(value, tellers) ==
    /\ value # stored
    /\ \A tab \in Tabs : Len(mail[tab]) < MaxMail
    /\ stored' = value
    /\ mail' = [tab \in Tabs |-> IF tab \in tellers \/ ~Ready(tab) THEN mail[tab]
                                 ELSE Append(mail[tab], value)]
    /\ crossed' = \E tab \in Tabs : mail[tab] # <<>> \/ ~Ready(tab)
    /\ UNCHANGED system

\* setTheme, and the same for the key: stored and set in one go.
Choose(tab, t) ==
    /\ Ready(tab)
    /\ \/ Store(t, {tab})
       \/ t = stored /\ UNCHANGED <<stored, system, mail, crossed>>
    /\ theme' = [theme EXCEPT ![tab] = t]
    /\ UNCHANGED <<drawn, shown, due>>

\* The menu.
SetTheme(tab) == \E t \in Themes : Choose(tab, t)

\* The key "d": the opposite of what the theme resolves to.
ToggleTheme(tab) ==
    \E t \in Resolved \ {Resolve(theme[tab], system)} : Choose(tab, t)

\* Somebody clears the key with the tools of the browser.
RemoveTheme ==
    /\ Store(Nothing, {})
    /\ UNCHANGED tabVars

\* Slip: a value that is no theme changes nothing.
HandleStorageKnown(tab) ==
    /\ mail[tab] # <<>>
    /\ theme' = [theme EXCEPT ![tab] = IF Head(mail[tab]) \in Themes THEN Head(mail[tab]) ELSE @]
    /\ mail' = [mail EXCEPT ![tab] = Tail(@)]
    /\ UNCHANGED <<stored, system, drawn, shown, due, crossed>>

HandleStorage(tab) ==
    /\ mail[tab] # <<>>
    /\ theme' = [theme EXCEPT ![tab] = Read(Head(mail[tab]))]
    /\ mail' = [mail EXCEPT ![tab] = Tail(@)]
    /\ UNCHANGED <<stored, system, drawn, shown, due, crossed>>

\* The effect of a theme: it is drawn, the listener of the one before goes.
Draw(tab) ==
    /\ drawn[tab] # theme[tab]
    /\ drawn' = [drawn EXCEPT ![tab] = theme[tab]]
    /\ shown' = [shown EXCEPT ![tab] = Resolve(theme[tab], system)]
    /\ UNCHANGED <<stored, system, theme, due, mail, crossed>>

\* The operating system turns dark or light; matchMedia answers so at once.
SystemChange ==
    /\ system' \in Resolved \ {system}
    /\ due' = [tab \in Tabs |-> Ready(tab)]
    /\ UNCHANGED <<stored, theme, drawn, shown, mail, crossed>>

\* The change is dispatched, to a listener if there is one by now.
HandleChange(tab) ==
    /\ due[tab]
    /\ due' = [due EXCEPT ![tab] = FALSE]
    /\ shown' = [shown EXCEPT ![tab] = IF Listens(tab) THEN system ELSE @]
    /\ UNCHANGED <<stored, system, theme, drawn, mail, crossed>>

ThemeNext ==
    \/ \E tab \in Tabs :
          Load(tab) \/ SetTheme(tab) \/ ToggleTheme(tab) \/ HandleStorage(tab)
            \/ Draw(tab) \/ HandleChange(tab)
    \/ RemoveTheme \/ SystemChange

ThemeSpec == ThemeInit /\ [][ThemeNext]_themeVars

-----------------------------------------------------------------------------
\* Every variable has its type.
ThemeTypeOK ==
    /\ stored \in Themes \cup {Nothing} /\ system \in Resolved
    /\ theme \in [Tabs -> Themes]
    /\ drawn \in [Tabs -> Themes \cup {Nothing}]
    /\ shown \in [Tabs -> Resolved \cup {Nothing}]
    /\ due \in [Tabs -> BOOLEAN]
    /\ mail \in [Tabs -> Seq(Themes \cup {Nothing})]
    /\ crossed \in BOOLEAN

\* In a tab that has nothing left to do the page is drawn in its theme, whatever
\* the order in which themes, the system's preference and the effects changed.
DrawnIsTheme ==
    \A tab \in Tabs :
        drawn[tab] = theme[tab] /\ ~due[tab] => shown[tab] = Resolve(theme[tab], system)

\* When every event has arrived all tabs have the theme that is stored, unless
\* the last change met another one or a tab that had not begun to listen.
TabsAgree ==
    ~crossed /\ (\A tab \in Tabs : mail[tab] = <<>>) =>
        \A tab \in Tabs : theme[tab] = Read(stored)
=============================================================================
