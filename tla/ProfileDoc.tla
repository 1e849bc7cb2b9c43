----------------------------- MODULE ProfileDoc -----------------------------
(***************************************************************************)
(* The data of ProfileDock's metadata: what a profile and a metadata       *)
(* document are, when a document is valid, and the updates the storage     *)
(* layer can apply to one (models.py, validation.py, storage.py).          *)
(*                                                                         *)
(* A document is a function from profile ids to profiles: the list order   *)
(* of profiles.json and the fields fixed at creation (created_at,          *)
(* data_dir) are abstracted.  "name" stands for every attribute that has a *)
(* mutator of its own and no constraint (name, tags, last_launched_at),    *)
(* "locale" for every launch setting that no other field constrains        *)
(* (default_tabs, start_urls, window size, proxy, user_agent, timezone).   *)
(* The engine and the browser are kept apart because they are validated    *)
(* together.                                                               *)
(***************************************************************************)
CONSTANTS
    Ids,        \* profile ids
    Names,      \* profile names
    Engines,    \* the engines in use, of AllEngines
    Browsers,   \* browser aliases, channels and executables
    Locales,    \* values of the unconstrained launch settings
    Supports,   \* the <<engine, browser>> pairs validate_browser accepts
    None,       \* Python's None
    NoProfile   \* "no profile with this id in the document"

AllEngines == {"direct", "playwright"}
Fields  == {"engine", "browser", "locale"}

EngineValue == Engines \cup {None}
Config == [engine  : EngineValue,
           browser : Browsers \cup {None},
           locale  : Locales \cup {None}]
Profile == [name : Names, engine : EngineValue, config : Config]
Doc == [Ids -> Profile \cup {NoProfile}]

ASSUME DocAssumption ==
    /\ Engines \subseteq AllEngines
    /\ None \notin Engines \cup Browsers \cup Locales
    /\ NoProfile \notin Profile
    /\ Supports \subseteq AllEngines \X Browsers

EmptyDoc == [i \in Ids |-> NoProfile]
DefaultConfig == [engine |-> None, browser |-> None, locale |-> None]
NewProfile(n, e) == [name |-> n, engine |-> e, config |-> DefaultConfig]

-----------------------------------------------------------------------------
(* Validation. *)

\* The launch preset's engine wins over the profile's, "direct" is the default.
EffectiveEngine(c, e) ==
    IF c.engine # None THEN c.engine ELSE IF e # None THEN e ELSE "direct"

ValidConfig(c, e) ==
    c.browser # None => <<EffectiveEngine(c, e), c.browser>> \in Supports

ValidDoc(d) ==
    \A i \in Ids : d[i] # NoProfile => ValidConfig(d[i].config, d[i].engine)

-----------------------------------------------------------------------------
(* The updates of the storage layer, as data and as functions on documents. *)

Update ==
    [kind : {"add"}, id : Ids, name : Names, engine : EngineValue]
      \cup [kind : {"remove"}, id : Ids]
      \cup [kind : {"name"}, id : Ids, value : Names]
      \cup [kind : {"engine"}, id : Ids, value : EngineValue]
      \cup [kind : {"config"}, id : Ids, value : Config]

\* mutate(p) if p.id == profile_id else p: a missing id leaves the document alone.
Mutate(d, i, field, v) ==
    IF d[i] = NoProfile THEN d ELSE [d EXCEPT ![i] = [d[i] EXCEPT ![field] = v]]

Apply(u, d) ==
    IF u.kind = "add" THEN [d EXCEPT ![u.id] = NewProfile(u.name, u.engine)]
    ELSE IF u.kind = "remove" THEN [d EXCEPT ![u.id] = NoProfile]
    ELSE Mutate(d, u.id, u.kind, u.value)

\* A second entry with the same id is rejected by validate_duplicate_ids.
Appliable(u, d) == u.kind = "add" => d[u.id] = NoProfile

=============================================================================
