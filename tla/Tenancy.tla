------------------------------ MODULE Tenancy ------------------------------
(***************************************************************************)
(* What administrators change and a scan request reads: API keys, the      *)
(* status of the tenant with its cache, tenant settings, the policy        *)
(* overrides of a department and an application, and the proxy provider    *)
(* (api/v1/endpoints/keys.py, settings.py, proxy_settings.py,              *)
(* applications.py, departments.py, admin/tenants.py and their             *)
(* repositories; services/policy_resolver.py).                             *)
(*                                                                         *)
(* There is one tenant with one department and one application.  An        *)
(* endpoint that reads a row and writes it back without a lock is two      *)
(* steps of its administrator.  A dictionary of settings is a function on  *)
(* the names it sets, nested sections flattened.                           *)
(***************************************************************************)
EXTENDS Integers, Sequences, FiniteSets, Detection

CONSTANTS
    Keys,             \* API keys ever issued
    Admins,           \* administrators' requests served at a time
    Addresses,        \* client addresses
    NoVal,            \* no row, no record, no cache entry
    FirstKeys,        \* FirstKeys[k]: the row of k at the start, or NoVal
    Platform,         \* the platform settings, below the tenant's own
    ThresholdBodies,  \* bodies of PUT /settings/thresholds
    LayerBodies,      \* bodies of PUT /settings/layers
    LimitBodies,      \* bodies of PUT /settings/rate_limit
    JudgeBodies,      \* bodies of PUT /settings/llm
    Overrides,        \* bodies of PUT /policy
    SectionBodies,    \* SectionBodies[s]: bodies of PATCH for section s of an override
    ProviderConfigs,  \* bodies of PUT /settings/proxy
    MaxAdminOps       \* bound: administrative operations in a behaviour

VARIABLES
    keys,         \* keys[k]: the row of k, or NoVal
    tenant,       \* the status of the tenant row
    tenantCache,  \* the status in Redis, or NoVal
    stored,       \* stored[s]: the tenant's settings record s, or NoVal
    override,     \* override[l]: policy_override of the department or application
    rows,         \* rows[l]: whether the department or application exists
    provider,     \* the proxy provider configuration, or NoVal
    admin,        \* admin[a]: how far a's request is
    adminOps      \* operations begun

tenancyVars == <<keys, tenant, tenantCache, stored, override, rows, provider, admin, adminOps>>

KeyRow == [revoked : BOOLEAN, expires : {"never", "grace", "past"}, type : {"live", "trial"},
           app : BOOLEAN, ips : SUBSET Addresses, parent : Keys \cup {NoVal}]

\* The thresholds a record may set are numbers.
ThresholdNames == {"block", "sanitize", "pii_block", "pii_sanitize", "tox_block"}
Numeric(settings) == \A n \in ThresholdNames \cap DOMAIN settings : settings[n] \in Int

ASSUME TenancyAssumption ==
    /\ NoVal \notin KeyRow
    /\ FirstKeys \in [Keys -> KeyRow \cup {NoVal}]
    /\ \A s \in DOMAIN Platform : Numeric(Platform[s])
    /\ \A b \in ThresholdBodies \cup LayerBodies \cup LimitBodies \cup JudgeBodies \cup Overrides : Numeric(b)

SupportedProviders == {"openai", "ollama", "custom"}
\* A credential: none, in the clear (in a body only), encrypted, or encrypted
\* under another secret_key.
Credential == {"absent", "plain", "good", "stale"}
\* model: the provider its default model names.
ProviderConfig == [provider : SupportedProviders, model : STRING, key : Credential]
\* The sections of an override that carry a credential: the model of the judge
\* and the proxy provider.
ENCRYPTED_SECTIONS == {"judge", "proxy"}
Sections == {"thresholds", "layers", "limit", "judge"}
Levels == {"dept", "app"}
Idle == [pc |-> "idle", what |-> NoVal, value |-> NoVal, absent |-> FALSE]

\* {**base, **override}
Merge(base, over) ==
    [n \in DOMAIN base \cup DOMAIN over |-> IF n \in DOMAIN over THEN over[n] ELSE base[n]]
\* A section that brings no credential keeps the one it is merged into.
MergeSection(base, over) ==
    Merge(base, IF over.key = "absent" THEN [n \in DOMAIN over \ {"key"} |-> over[n]] ELSE over)
deep_merge(base, over) ==
    [n \in DOMAIN base \cup DOMAIN over |->
        CASE n \notin DOMAIN over -> base[n]
          [] n \in DOMAIN over /\ (n \notin DOMAIN base \/ n \notin ENCRYPTED_SECTIONS) -> over[n]
          [] OTHER -> MergeSection(base[n], over[n])]
Ordered(t) == 0 < t.sanitize /\ t.sanitize < t.block /\ t.block <= 100
Begins == adminOps < MaxAdminOps /\ adminOps' = adminOps + 1
AdminIdle(a) == admin[a] = Idle

\* get_by_id of both repositories: only what is active is found.
found(level) == rows[level] = "active"
-----------------------------------------------------------------------------
(* API keys *)

active_key(k) == keys[k] # NoVal /\ ~keys[k].revoked

create_key(k, row) ==
    /\ Begins
    /\ keys[k] = NoVal
    /\ row \in KeyRow /\ ~row.revoked /\ row.expires # "past" /\ row.parent = NoVal
    /\ row.app => found("app")
    /\ ~row.app => found("dept")
    /\ keys' = [keys EXCEPT ![k] = row]
    /\ UNCHANGED <<tenant, tenantCache, stored, override, rows, provider, admin>>

\* PUT /keys: one read and one write of the allowlist column only.
update_key(k, ips) ==
    /\ Begins
    /\ active_key(k)
    /\ keys' = [keys EXCEPT ![k].ips = ips]
    /\ UNCHANGED <<tenant, tenantCache, stored, override, rows, provider, admin>>

delete_key(k) ==
    /\ Begins
    /\ active_key(k)
    /\ keys' = [keys EXCEPT ![k].revoked = TRUE]
    /\ UNCHANGED <<tenant, tenantCache, stored, override, rows, provider, admin>>

\* Rotation reads the row, refuses a key that has an expiry, and writes later.
rotate_key_read(a, k) ==
    /\ Begins
    /\ AdminIdle(a)
    /\ active_key(k)
    /\ keys[k].expires = "never"
    /\ admin' = [admin EXCEPT ![a] = [Idle EXCEPT !.pc = "rotate", !.what = k, !.value = keys[k]]]
    /\ UNCHANGED <<keys, tenant, tenantCache, stored, override, rows, provider>>

Successor(k, row) == [row EXCEPT !.parent = k]

\* The UPDATE writes expires_at only: a revocation committed meanwhile stays.
rotate_key(a, new) ==
    /\ admin[a].pc = "rotate"
    /\ keys[new] = NoVal
    /\ keys' = [keys EXCEPT ![new] = Successor(admin[a].what, admin[a].value),
                            ![admin[a].what].expires = "grace"]
    /\ admin' = [admin EXCEPT ![a] = Idle]
    /\ UNCHANGED <<tenant, tenantCache, stored, override, rows, provider, adminOps>>

\* The grace period or the lifetime of a key ends.
key_expires(k) ==
    /\ keys[k] # NoVal
    /\ keys[k].expires = "grace"
    /\ keys' = [keys EXCEPT ![k].expires = "past"]
    /\ UNCHANGED <<tenant, tenantCache, stored, override, rows, provider, admin, adminOps>>
-----------------------------------------------------------------------------
(* The tenant *)

\* suspend and reactivate: the commit first, then the cached status is dropped.
set_status(a, status) ==
    /\ Begins
    /\ AdminIdle(a)
    /\ tenant' = status
    /\ admin' = [admin EXCEPT ![a] = [Idle EXCEPT !.pc = "drop"]]
    /\ UNCHANGED <<keys, tenantCache, stored, override, rows, provider>>

\* A Redis that does not answer leaves the entry to its expiry.
drop_tenant_cache(a, fails) ==
    /\ admin[a].pc = "drop"
    /\ tenantCache' = IF fails THEN tenantCache ELSE NoVal
    /\ admin' = [admin EXCEPT ![a] = Idle]
    /\ UNCHANGED <<keys, tenant, stored, override, rows, provider, adminOps>>

\* Mutant of tenant_cache_expires: the entry is written without an expiry.
tenant_cache_expires_Never ==
    /\ FALSE
    /\ tenantCache' = NoVal
    /\ UNCHANGED <<keys, tenant, stored, override, rows, provider, admin, adminOps>>

tenant_cache_expires ==
    /\ tenantCache # NoVal
    /\ tenantCache' = NoVal
    /\ UNCHANGED <<keys, tenant, stored, override, rows, provider, admin, adminOps>>
-----------------------------------------------------------------------------
(* Settings: read the record, change it, write it whole *)

default_thresholds == [block |-> Env.block, sanitize |-> Env.sanitize]
default_layers == [rule |-> TRUE, ml |-> TRUE, llm |-> TRUE]
default_rate_limit == [limit |-> Env.limit]
default_llm == [provider |-> Env.judge]

Current(section, default) == IF stored[section] = NoVal THEN default ELSE stored[section]

Edit(a, section, value) ==
    /\ Begins
    /\ AdminIdle(a)
    /\ admin' = [admin EXCEPT ![a] = [pc |-> "save", what |-> section, value |-> value,
                                       absent |-> stored[section] = NoVal]]
    /\ UNCHANGED <<keys, tenant, tenantCache, stored, override, rows, provider>>

\* The body is validated against the defaults, the merged record again.
update_thresholds(a, body) ==
    LET merged == Merge(Current("thresholds", default_thresholds), body) IN
    /\ Merge(default_thresholds, body).block > Merge(default_thresholds, body).sanitize
    /\ Ordered(merged)
    /\ Edit(a, "thresholds", merged)

update_layers(a, body) == Edit(a, "layers", Merge(Current("layers", default_layers), body))

update_rate_limit(a, body) == Edit(a, "limit", Merge(Current("limit", default_rate_limit), body))

\* The key of the judge's provider is a record of its own that no policy reads.
update_llm_settings(a, body) == Edit(a, "judge", Merge(Current("judge", default_llm), body))

\* Mutant of settings_set: only the names that changed since the read are written.
settings_set_Merged(a) ==
    LET section == admin[a].what
        default == IF section = "thresholds" THEN default_thresholds
                   ELSE IF section = "layers" THEN default_layers
                   ELSE IF section = "judge" THEN default_llm ELSE default_rate_limit
        changed == {n \in DOMAIN admin[a].value : admin[a].value[n] # default[n]} IN
    /\ admin[a].pc = "save"
    /\ section \in Sections
    /\ stored' = [stored EXCEPT ![section] =
                    Merge(Current(section, default), [n \in changed |-> admin[a].value[n]])]
    /\ admin' = [admin EXCEPT ![a] = Idle]
    /\ UNCHANGED <<keys, tenant, tenantCache, override, rows, provider, adminOps>>

\* A first record was inserted meanwhile, and the INSERT of this one fails.
settings_conflict(a) ==
    /\ admin[a].pc = "save"
    /\ admin[a].what \in Sections
    /\ admin[a].absent
    /\ stored[admin[a].what] # NoVal
    /\ admin' = [admin EXCEPT ![a] = Idle]
    /\ UNCHANGED <<keys, tenant, tenantCache, stored, override, rows, provider, adminOps>>

settings_set(a) ==
    /\ admin[a].pc = "save"
    /\ admin[a].what \in Sections
    /\ stored' = [stored EXCEPT ![admin[a].what] = admin[a].value]
    /\ admin' = [admin EXCEPT ![a] = Idle]
    /\ UNCHANGED <<keys, tenant, tenantCache, override, rows, provider, adminOps>>
-----------------------------------------------------------------------------
(* Departments and applications *)

\* Outside the PATCH endpoints a credential in the clear is refused; one that
\* claims to be encrypted is stored as it is.
guard_policy_override(value) ==
    \A s \in ENCRYPTED_SECTIONS : value # NoVal /\ s \in DOMAIN value => value[s].key # "plain"

create_department(value) ==
    /\ Begins
    /\ rows["dept"] = "none"
    /\ guard_policy_override(value)
    /\ rows' = [rows EXCEPT !["dept"] = "active"]
    /\ override' = [override EXCEPT !["dept"] = value]
    /\ UNCHANGED <<keys, tenant, tenantCache, stored, provider, admin>>

create_application(value) ==
    /\ Begins
    /\ rows["app"] = "none"
    /\ found("dept")
    /\ guard_policy_override(value)
    /\ rows' = [rows EXCEPT !["app"] = "active"]
    /\ override' = [override EXCEPT !["app"] = value]
    /\ UNCHANGED <<keys, tenant, tenantCache, stored, provider, admin>>

Replace(level, value) ==
    /\ Begins
    /\ found(level)
    /\ guard_policy_override(value)
    /\ override' = [override EXCEPT ![level] = value]
    /\ UNCHANGED <<keys, tenant, tenantCache, stored, rows, provider, admin>>

\* PUT of a department applies null, PUT of an application ignores it.
update_department(value) == Replace("dept", value)
update_application(value) == value # NoVal /\ Replace("app", value)
set_application_policy(value) == Replace("app", value)
reset_application_policy == Replace("app", NoVal)

\* What a PATCH stores: a section is cleared or merged, an override without
\* sections is none.
encrypted(section) == [section EXCEPT !.key = IF @ = "plain" THEN "good" ELSE @]
Patched(current, name, body) ==
    LET base == IF current = NoVal THEN <<>> ELSE current
        after == IF body = NoVal THEN [n \in DOMAIN base \ {name} |-> base[n]]
                 ELSE deep_merge(base, [n \in {name} |-> encrypted(body)]) IN
    IF DOMAIN after = {} THEN NoVal ELSE after

\* The override is read, and written whole if it changed.
PatchSection(a, level, name, body) ==
    LET value == Patched(override[level], name, body) IN
    /\ Begins
    /\ AdminIdle(a)
    /\ found(level)
    /\ value # override[level]
    /\ admin' = [admin EXCEPT ![a] = [Idle EXCEPT !.pc = "save", !.what = level, !.value = value]]
    /\ UNCHANGED <<keys, tenant, tenantCache, stored, override, rows, provider>>

update_dept_llm_override(a, body) == PatchSection(a, "dept", "judge", body)
update_dept_proxy_override(a, body) == PatchSection(a, "dept", "proxy", body)
update_app_llm_override(a, body) == PatchSection(a, "app", "judge", body)
update_app_proxy_override(a, body) == PatchSection(a, "app", "proxy", body)

\* The repository looks the row up again.
PatchSaved(a, level) ==
    /\ admin[a].pc = "save"
    /\ admin[a].what = level
    /\ override' = IF found(level) THEN [override EXCEPT ![level] = admin[a].value] ELSE override
    /\ admin' = [admin EXCEPT ![a] = Idle]
    /\ UNCHANGED <<keys, tenant, tenantCache, stored, rows, provider, adminOps>>
department_update(a) == PatchSaved(a, "dept")
application_update(a) == PatchSaved(a, "app")

\* A row that is not active is not found any more, so that its override no
\* longer takes part.
Deactivate(level) ==
    /\ Begins
    /\ found(level)
    /\ rows' = [rows EXCEPT ![level] = "gone"]
    /\ UNCHANGED <<keys, tenant, tenantCache, stored, override, provider, admin>>
delete_department == Deactivate("dept")
delete_application == Deactivate("app")

\* Only ollama can do without a key; the default model is not checked.
put_proxy_settings(p) ==
    /\ Begins
    /\ p.key = "plain" \/ (p.key = "absent" /\ p.provider = "ollama")
    /\ provider' = encrypted(p)
    /\ UNCHANGED <<keys, tenant, tenantCache, stored, override, rows, admin>>

\* The processes restart with another secret_key: what was encrypted under the
\* old one cannot be read.
secret_key_changes ==
    LET Stale(s) == [s EXCEPT !.key = IF @ = "good" THEN "stale" ELSE @]
        Reread(o) == [n \in DOMAIN o |-> IF n \in ENCRYPTED_SECTIONS THEN Stale(o[n]) ELSE o[n]] IN
    /\ provider' = IF provider = NoVal THEN NoVal ELSE Stale(provider)
    /\ override' = [l \in Levels |-> IF override[l] = NoVal THEN NoVal ELSE Reread(override[l])]
    /\ <<provider', override'>> # <<provider, override>>
    /\ UNCHANGED <<keys, tenant, tenantCache, stored, rows, admin, adminOps>>

delete_proxy_settings ==
    /\ Begins
    /\ provider # NoVal
    /\ provider' = NoVal
    /\ UNCHANGED <<keys, tenant, tenantCache, stored, override, rows, admin>>
-----------------------------------------------------------------------------
(* Policy resolution *)

system_defaults ==
    [block |-> Env.block, sanitize |-> Env.sanitize, pii_block |-> Env.block,
     pii_sanitize |-> Env.sanitize, rule |-> TRUE, ml |-> TRUE, llm |-> TRUE, limit |-> 60,
     judge |-> [provider |-> Env.judge, key |-> "absent"]]

layered(section) ==
    LET base == IF section \in DOMAIN Platform THEN Platform[section] ELSE <<>> IN
    Merge(base, IF stored[section] = NoVal THEN <<>> ELSE stored[section])

\* Platform and tenant settings; their thresholds are the PII thresholds too.
tenant_policy ==
    LET thresholds == Merge(default_thresholds, layered("thresholds")) IN
    Merge(Merge(Merge(system_defaults, thresholds),
                [pii_block |-> thresholds.block, pii_sanitize |-> thresholds.sanitize]),
          Merge(Merge(layered("layers"), layered("limit")),
                [judge |-> Merge(system_defaults.judge, layered("judge"))]))

level_policy(base, level) ==
    IF found(level) /\ override[level] # NoVal THEN deep_merge(base, override[level]) ELSE base

\* The credentials that overrides brought are decrypted with the policy.
decrypted(p) == \A s \in ENCRYPTED_SECTIONS : s \in DOMAIN p => p[s].key # "stale"

\* Thresholds that are out of order after all overrides give way to the defaults.
valid_policy(p) == IF Ordered(p) THEN p ELSE Merge(p, default_thresholds)
=============================================================================
