------------------------------ MODULE Ceremonies ------------------------------
(***************************************************************************)
(* The ceremonies that run as sessions, one script per party.  The async   *)
(* *_run function of a ceremony alternates between sending (broadcast or   *)
(* send_to) and awaiting a fixed number of messages from anyone (recv); a  *)
(* script is the sequence of those rounds.  A message carries no tag of    *)
(* its round: `kind' is what its bytes deserialize as.                     *)
(***************************************************************************)
EXTENDS Naturals, Sequences

CONSTANTS
    N,              \* max_signers, or the number of signers of a signing
    Misconfigured,  \* parties whose setup makes them contribute a wrong term
    Browser         \* parties that run the browser build

ASSUME CeremonyAssumption ==
    /\ N \in Nat \ {0, 1}
    /\ Misconfigured \subseteq 1..N
    /\ Browser \subseteq 1..N

\* FROST identifiers are the positions in the sorted list of party names.
Party == 1..N

\* SetupMsg::coordinator_id, and the seed holder of an import.
Coordinator == 1

Kind == {"r1", "r2", "meta", "hash", "vk", "commit", "package", "share",
         "partials"}

Error == {"LIB_SERIALIZATION_ERROR", "LIB_INVALID_BUFFER_SIZE", "LIB_DKG_ERROR",
          "LIB_KEY_IMPORT_ERROR", "LIB_RESHARE_ERROR", "LIB_BLAME"}

\* One round of a script: broadcast the kinds of `send' in order, then await
\* `need' messages that must be of kind `recv'; `err' is what the function
\* returns for a message that is not acceptable.
Round(send, recv, need, err) ==
    [send |-> send, recv |-> recv, need |-> need, err |-> err]

\* The last sends before the function returns Ok.
Finish(send) == Round(send, "none", 0, "none")

RoundRecord == [send : Seq(Kind), recv : Kind \cup {"none"}, need : 0..(N - 1),
                err : Error \cup {"none"}]
-----------------------------------------------------------------------------
\* dkg_run, key_import_run and reshare_run: round-1 packages, then round-2 ones.
DkgRounds ==
    <<Round(<<"r1">>, "r1", N - 1, "LIB_SERIALIZATION_ERROR"),
      Round(<<"r2">>, "r2", N - 1, "LIB_SERIALIZATION_ERROR")>>

MetadataRoundsSilent(creator, err) ==
    IF creator
    THEN <<Round(<<"meta", "hash">>, "hash", N - 1, err)>>
    ELSE <<Round(<<>>, "meta", 1, "LIB_INVALID_BUFFER_SIZE"),
           Round(<<>>, "hash", N - 1, err)>>

MetadataRoundsTrusting(creator, err) ==
    IF creator THEN <<Finish(<<"meta">>)>>
    ELSE <<Round(<<>>, "meta", 1, "LIB_INVALID_BUFFER_SIZE")>>

\* The metadata exchange of frozt: one party creates the blob, everyone adopts
\* it and compares its hash with everyone else's.
MetadataRounds(creator, err) ==
    IF creator
    THEN <<Round(<<"meta", "hash">>, "hash", N - 1, err)>>
    ELSE <<Round(<<>>, "meta", 1, "LIB_INVALID_BUFFER_SIZE"),
           Round(<<"hash">>, "hash", N - 1, err)>>

\* The seed holder broadcasts a verifying key, the others compare it.
VkRounds(holder) ==
    IF holder THEN <<Finish(<<"vk">>)>>
    ELSE <<Round(<<>>, "vk", 1, "LIB_KEY_IMPORT_ERROR"), Finish(<<>>)>>

\* A party whose setup names it as the seed holder.
SeedHolder(p) == p = Coordinator \/ p \in Misconfigured

FroztDkg(p) ==
    DkgRounds \o MetadataRounds(p = Coordinator, "LIB_DKG_ERROR")
              \o <<Finish(<<>>)>>

FromtDkg(p) == DkgRounds \o <<Finish(<<>>)>>

Reshare(p) == DkgRounds \o <<Finish(<<>>)>>

FroztKeyImport(p) ==
    DkgRounds \o MetadataRounds(SeedHolder(p), "LIB_KEY_IMPORT_ERROR")
              \o VkRounds(SeedHolder(p))

FromtKeyImport(p) == DkgRounds \o VkRounds(SeedHolder(p))

FroztSign(p) ==
    <<Round(<<"commit">>, "commit", N - 1, "LIB_SERIALIZATION_ERROR")>>
    \o (IF p = Coordinator
        THEN <<Round(<<"package", "share">>, "share", N - 1,
                     "LIB_SERIALIZATION_ERROR")>>
        ELSE <<Round(<<>>, "package", 1, "LIB_SERIALIZATION_ERROR"),
               Round(<<"share">>, "share", N - 1, "LIB_SERIALIZATION_ERROR")>>)
    \o <<Finish(<<>>)>>

FromtSign(p) ==
    <<Round(<<"commit">>, "commit", N - 1, "LIB_SERIALIZATION_ERROR"),
      Round(<<"share">>, "share", N - 1, "LIB_SERIALIZATION_ERROR"),
      Finish(<<>>)>>

KeyImage(p) ==
    <<Round(<<"partials">>, "partials", N - 1, "LIB_SERIALIZATION_ERROR"),
      Finish(<<>>)>>

CeremonyName == {"FroztDkg", "FromtDkg", "Reshare", "FroztKeyImport",
                 "FromtKeyImport", "FroztSign", "FromtSign", "KeyImage"}

Script(c, p) ==
    CASE c = "FroztDkg"       -> FroztDkg(p)
      [] c = "FromtDkg"       -> FromtDkg(p)
      [] c = "Reshare"        -> Reshare(p)
      [] c = "FroztKeyImport" -> FroztKeyImport(p)
      [] c = "FromtKeyImport" -> FromtKeyImport(p)
      [] c = "FroztSign"      -> FroztSign(p)
      [] c = "FromtSign"      -> FromtSign(p)
      [] c = "KeyImage"       -> KeyImage(p)

\* The browser builds have copies of their own of six of these functions, and
\* share dkg_run, key_import_run, reshare_run and sign_run with the native ones.
WasmFroztDkgQuiet(p) ==
    DkgRounds \o MetadataRoundsSilent(p = Coordinator, "LIB_DKG_ERROR")
              \o <<Finish(<<>>)>>

WasmFroztDkg(p) == FroztDkg(p)
WasmFroztKeyImport(p) == FroztKeyImport(p)
WasmFroztSign(p) == FroztSign(p)
WasmFromtDkg(p) == FromtDkg(p)
WasmFromtKeyImport(p) == FromtKeyImport(p)
WasmKeyImage(p) == KeyImage(p)

WasmScript(c, p) ==
    CASE c = "FroztDkg"       -> WasmFroztDkg(p)
      [] c = "FromtDkg"       -> WasmFromtDkg(p)
      [] c = "FroztKeyImport" -> WasmFroztKeyImport(p)
      [] c = "FromtKeyImport" -> WasmFromtKeyImport(p)
      [] c = "FroztSign"      -> WasmFroztSign(p)
      [] c = "KeyImage"       -> WasmKeyImage(p)
      [] OTHER                -> Script(c, p)

\* Native and browser parties meet in one ceremony.
Scripts ==
    [c \in CeremonyName |-> [p \in Party |->
        IF p \in Browser THEN WasmScript(c, p) ELSE Script(c, p)]]
-----------------------------------------------------------------------------
\* The constant term a party commits to in its round-1 package: random in a
\* DKG, its additive share in a resharing, 1 or the seed's key less N - 1 in an
\* import.  "off" is the term of a party whose setup is wrong: other old
\* identifiers in a resharing, itself as a second seed holder in an import.
Term(c, p) ==
    IF p \in Misconfigured /\ c \in {"Reshare", "FroztKeyImport", "FromtKeyImport"}
    THEN "off" ELSE "term"
=============================================================================
