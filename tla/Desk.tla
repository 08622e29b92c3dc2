--------------------------------- MODULE Desk ---------------------------------
(* The parts of the desk around its core (Master, Monitor, Gateway): the Discord
   side, the files that the operator steers by, the analysts that wake by the
   clock, the client of Unusual Whales, the evaluation of closed trades, the exit
   rules and the fan-out over accounts. Apart from the kill switch, which every
   part that reads it finds set or clear at any time, they have no state in
   common before the signal queue: a behaviour keeps one of them busy and leaves
   the others as they start. *)
EXTENDS ControlFiles, DiscordAnalysts, Learning, ExitRules, Accounts, MarketAnalysts,
        SocialTrends, UWClient

VARIABLE part   \* the part that is busy

Parts == {"control", "discord", "learning", "exits", "accounts", "market", "social", "uw"}

deskVars == <<controlVars, discordVars, learningVars, exitRulesVars, accountVars, marketVars,
              socialVars, uwVars, part>>

\* What an idle part starts with is one choice of what it may start with.
DeskInit ==
    /\ part \in Parts
    /\ ControlInit /\ (part # "control" => killFile = Text({}))
    /\ DiscordInit /\ (part # "discord" => channel = Channel["vinod_spx"])
    /\ LearningInit /\ (part # "learning" => configs = CHOOSE c \in FirstParameters : TRUE)
    /\ ExitRulesInit
    /\ AccountsInit /\ (part # "accounts" => override /\ \A a \in AccountIds : accounts[a] = [paper |-> TRUE, enabled |-> TRUE])
    /\ MarketInit /\ (part # "market" => analyst = "mag7")
    /\ SocialInit
    /\ UwInit

ControlStep ==
    /\ part = "control" /\ ControlNext
    /\ UNCHANGED <<discordVars, learningVars, exitRulesVars, accountVars, marketVars, socialVars, uwVars, part>>
DiscordStep ==
    /\ part = "discord" /\ DiscordNext
    /\ UNCHANGED <<controlVars, learningVars, exitRulesVars, accountVars, marketVars, socialVars, uwVars, part>>
LearningStep ==
    /\ part = "learning" /\ LearningNext
    /\ UNCHANGED <<controlVars, discordVars, exitRulesVars, accountVars, marketVars, socialVars, uwVars, part>>
ExitRulesStep ==
    /\ part = "exits" /\ ExitRulesNext
    /\ UNCHANGED <<controlVars, discordVars, learningVars, accountVars, marketVars, socialVars, uwVars, part>>
AccountsStep ==
    /\ part = "accounts" /\ AccountsNext
    /\ UNCHANGED <<controlVars, discordVars, learningVars, exitRulesVars, marketVars, socialVars, uwVars, part>>
MarketStep ==
    /\ part = "market" /\ MarketNext
    /\ UNCHANGED <<controlVars, discordVars, learningVars, exitRulesVars, accountVars, socialVars, uwVars, part>>
SocialStep ==
    /\ part = "social" /\ SocialNext
    /\ UNCHANGED <<controlVars, discordVars, learningVars, exitRulesVars, accountVars, marketVars, uwVars, part>>
UwStep ==
    /\ part = "uw" /\ UwNext
    /\ UNCHANGED <<controlVars, discordVars, learningVars, exitRulesVars, accountVars, marketVars, socialVars, part>>

DeskNext ==
    \/ ControlStep \/ DiscordStep \/ LearningStep \/ ExitRulesStep
    \/ AccountsStep \/ MarketStep \/ SocialStep \/ UwStep

DeskSpec == DeskInit /\ [][DeskNext]_deskVars
=============================================================================
