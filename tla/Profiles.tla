------------------------------- MODULE Profiles -------------------------------
(***************************************************************************)
(* What a person has told Algebra, beside the account itself: the answers  *)
(* of the onboarding, the guardrails, the commerce profile the agent reads *)
(* and adds to, the sealed home address and the cards.                     *)
(*                                                                         *)
(* An attribute of the profile is named by the request that wrote it and   *)
(* by its key: the questionnaire's answers share theirs, an agent's notes  *)
(* have keys of their own.                                                 *)
(***************************************************************************)
EXTENDS Accounts

VARIABLES
  guardrails, \* user_guardrails: the request that set them, or NONE
  address,    \* private_profiles, shipping:home: [id, sealedFor], or NONE
  profile,    \* commerce_profiles: [shipping, attributes], or NONE
  onboarded,  \* users.onboarded_at
  cards,      \* payment_sources: NONE, live or revoked
  vault,      \* the card vault's: NONE, live or revoked
  said,       \* history: attributes written
  raced       \* history: attributes written while another request was about to write

profileRows == <<guardrails, address, profile, onboarded>>
cardRows == <<cards, vault>>
profileVars == <<profileRows, cardRows, said, raced>>

ProfileOps == {"onboard", "guard", "note", "addcard", "dropcard"}
Empty == [shipping |-> FALSE, attributes |-> {}]
Attributes == [by : Calls, key : {"shopping", "food", "note"}]
CommerceProfile == [shipping : BOOLEAN, attributes : SUBSET Attributes]

ASSUME NoProfileAssumption == NONE \notin CommerceProfile

ProfilesInit ==
  /\ guardrails = NONE /\ address = NONE /\ profile = NONE /\ onboarded = FALSE
  /\ cards = [c \in Calls |-> NONE]
  /\ vault = [c \in Calls |-> NONE]
  /\ said = {} /\ raced = {}

-----------------------------------------------------------------------------
\* setMyGuardrails.
SetGuardrails(c) ==
  /\ At(c, {"guard"}, "idle")
  /\ ListActiveSessions # {}
  /\ guardrails' = c
  /\ Done(c)
  /\ UNCHANGED <<accountVars, address, profile, onboarded, cardRows, said, raced>>

\* OnboardingService.Complete, in a session: the guardrails first; a name, an address and
\* a diet are given or not.
Complete(c) ==
  /\ At(c, {"onboard"}, "idle")
  /\ guardrails' = c
  /\ \E s \in ListActiveSessions, named, housed, diet \in BOOLEAN :
       Keep(c, [agent |-> s, housed |-> housed, copy |-> NONE,
                todo |-> IF diet THEN <<"shopping", "food", "alias">> ELSE <<"shopping", "alias">>],
            IF named THEN "myname" ELSE "home")
  /\ UNCHANGED <<accountVars, address, profile, onboarded, cardRows, said, raced>>

\* UpdateName, within it.
ReadName(c) ==
  /\ At(c, {"onboard"}, "myname")
  /\ Keep(c, [mem[c] EXCEPT !.copy = user], "setname")
  /\ UNCHANGED <<accountVars, profileVars>>

WriteName(c) ==
  /\ At(c, {"onboard"}, "setname")
  /\ user' = [user EXCEPT !.name = Own, !.avatar = mem[c].copy.avatar]
  /\ renamed' = renamed \cup {r \in ByOp({"oauth"}) : ~Idle(r)}
  /\ Goto(c, "home")
  /\ UNCHANGED <<linked, sessions, agents, tokens, owed, stranded, profileVars>>

\* StoreShipping: sealed for the row's ID and stored under the alias with that ID; an
\* address that lacks a part ends the onboarding here.
\* Broken variant: the upsert keeps the ID of the row that was there.
PutKeepingID(id) == [id |-> IF address = NONE THEN id ELSE address.id, sealedFor |-> id]
Put(id) == [id |-> id, sealedFor |-> id]
StoreShipping(c) ==
  /\ At(c, {"onboard"}, "home")
  /\ IF mem[c].housed
       THEN \/ address' = Put(c) /\ Goto(c, "profile?")
            \/ Done(c) /\ UNCHANGED address
       ELSE Goto(c, "profile?") /\ UNCHANGED address
  /\ UNCHANGED <<accountVars, guardrails, profile, onboarded, cardRows, said, raced>>

\* An agent's SetPreferences or SetDefaultAliases, one of which may clear the alias.
UpdateProfile(c) ==
  /\ At(c, {"note"}, "idle")
  /\ \E s \in Calls, patch \in {"note", "alias", "unalias"} :
       /\ agents[s] = "live"
       /\ Keep(c, [agent |-> s, housed |-> TRUE, copy |-> NONE, todo |-> <<patch>>], "profile?")
  /\ UNCHANGED <<accountVars, profileVars>>

\* getOrEmptyFor, by an agent that still has the permission.
ReadProfile(c) ==
  /\ At(c, {"onboard", "note"}, "profile?")
  /\ IF agents[mem[c].agent] = "live"
       THEN Keep(c, [mem[c] EXCEPT !.copy = IF profile = NONE THEN Empty ELSE profile], "profile!")
       ELSE Done(c)
  /\ UNCHANGED <<accountVars, profileVars>>

\* Broken variant: the attributes take the place of those that were there.
Replaced(attributes, a) == {a}
MergePreferences(attributes, a) ==
  {b \in attributes : a.key = "note" \/ b.key # a.key} \cup {a}

Patched(c, copy, patch) ==
  CASE patch = "alias" -> [copy EXCEPT !.shipping = @ \/ mem[c].housed]
    [] patch = "unalias" -> [copy EXCEPT !.shipping = FALSE]
    [] OTHER -> [copy EXCEPT !.attributes = MergePreferences(@, [by |-> c, key |-> patch])]

\* Upsert: the whole row, from the copy.
WriteProfile(c) ==
  /\ At(c, {"onboard", "note"}, "profile!")
  /\ LET patch == Head(mem[c].todo)
         new == IF patch \in {"alias", "unalias"} THEN {} ELSE {[by |-> c, key |-> patch]}
     IN  /\ profile' = Patched(c, mem[c].copy, patch)
         /\ said' = said \cup new
         /\ raced' = raced \cup IF \E d \in Calls \ {c} : pc[d] = "profile!" THEN new ELSE {}
  /\ LET left == Tail(mem[c].todo)
     IN  IF left # <<>> THEN Keep(c, [mem[c] EXCEPT !.todo = left, !.copy = NONE], "profile?")
         ELSE IF Op(c) = "onboard" THEN Goto(c, "finish") ELSE Done(c)
  /\ UNCHANGED <<accountVars, guardrails, address, onboarded, cardRows>>

MarkOnboarded(c) ==
  /\ At(c, {"onboard"}, "finish")
  /\ onboarded' = TRUE
  /\ Done(c)
  /\ UNCHANGED <<accountVars, guardrails, address, profile, cardRows, said, raced>>

-----------------------------------------------------------------------------
\* AddCard: tokenised at the vault, then stored.
AddCard(c) ==
  /\ At(c, {"addcard"}, "idle")
  /\ vault' = [vault EXCEPT ![c] = "live"]
  /\ Goto(c, "store")
  /\ UNCHANGED <<accountVars, profileRows, cards, said, raced>>

CreateSource(c) ==
  /\ At(c, {"addcard"}, "store")
  /\ cards' = [cards EXCEPT ![c] = "live"]
  /\ Done(c)
  /\ UNCHANGED <<accountVars, profileRows, vault, said, raced>>

\* RevokeSource: at the vault first, which refuses a card it does not know.
RevokeSource(c) ==
  /\ At(c, {"dropcard"}, "idle")
  /\ \E s \in Calls :
       /\ cards[s] # NONE
       /\ IF vault[s] = NONE
            THEN Done(c) /\ UNCHANGED vault
            ELSE vault' = [vault EXCEPT ![s] = "revoked"] /\ Keep(c, s, "revoke row")
  /\ UNCHANGED <<accountVars, profileRows, cards, said, raced>>

RevokeRow(c) ==
  /\ At(c, {"dropcard"}, "revoke row")
  /\ cards' = [cards EXCEPT ![mem[c]] = "revoked"]
  /\ Done(c)
  /\ UNCHANGED <<accountVars, profileRows, vault, said, raced>>

\* The sandbox vault lives in the process.
VaultForgets ==
  /\ job.slow /\ \E s \in Calls : vault[s] # NONE
  /\ vault' = [s \in Calls |-> NONE]
  /\ UNCHANGED <<job, cut, requests, accountVars, profileRows, cards, said, raced>>

ProfilesStep(c) ==
  \/ SetGuardrails(c) \/ Complete(c) \/ ReadName(c) \/ WriteName(c) \/ StoreShipping(c)
  \/ UpdateProfile(c) \/ ReadProfile(c) \/ WriteProfile(c) \/ MarkOnboarded(c)
  \/ AddCard(c) \/ CreateSource(c) \/ RevokeSource(c) \/ RevokeRow(c)

ProfilesNext ==
  \/ AccountsNext /\ UNCHANGED profileVars
  \/ \E c \in Calls :
       \/ ProfilesStep(c) /\ UNCHANGED <<job, cut>>
       \/ Op(c) \in ProfileOps /\ Fails(c) /\ UNCHANGED <<accountVars, profileVars>>
  \/ VaultForgets

-----------------------------------------------------------------------------
(* Properties *)

StoredProfile == [id : Calls, sealedFor : Calls]
CardStates == {NONE, "live", "revoked"}

ProfilesTypeOK ==
  /\ guardrails \in Calls \cup {NONE}
  /\ address # NONE => address \in StoredProfile
  /\ profile # NONE => profile \in CommerceProfile
  /\ onboarded \in BOOLEAN
  /\ cards \in [Calls -> CardStates]
  /\ vault \in [Calls -> CardStates]
  /\ said \subseteq Attributes /\ raced \subseteq said

\* What an agent or the questionnaire wrote is in the profile until the same key is
\* written again, whatever is written after it (commerceprofile.go:46-49), unless another
\* request was between its read and its write of the whole row.
AttributesKept ==
  \A a \in said \ raced :
    \E b \in profile.attributes : b = a \/ (a.key # "note" /\ b.key = a.key)

\* The stored address opens under the ID of its row (resolver.go:65-69), and a card that
\* is shown as revoked is not live at the vault.
AddressOpens == address # NONE => address.id = address.sealedFor
RevokedAtVault == \A s \in Calls : cards[s] = "revoked" => vault[s] # "live"

\* The three records of what the user said stay true to it under concurrent writes,
\* failures half way and a vault that restarts.
RecordsAgree == AttributesKept /\ AddressOpens /\ RevokedAtVault
=============================================================================
