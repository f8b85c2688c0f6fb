------------------------------ MODULE MCServices ------------------------------
(***************************************************************************)
(* One instance for TLC of each of the smaller services.  They share no    *)
(* state: in a behavior one of them runs, and the others keep theirs.      *)
(***************************************************************************)
EXTENDS MCAdministrators, Grants, Catalog, Startup, Subscriptions, RateLimiter, Lockout,
        Mail, TokenLifetimes, Uploads, ApiKeys, Products, BackgroundJobs, TLC

CONSTANTS staff, admin, manage, view, m1, k1, k2

MCPuts         == {[items |-> x, owner |-> staff] : x \in {{manage}, {manage, view}, {view}}}
                  \cup {[items |-> x, owner |-> m1] : x \in {{admin, staff}, {staff}}}
MCOrders       == {[keys |-> <<k1>>, kind |-> "create"], [keys |-> <<k1>>, kind |-> "ensure"]}
                  \cup {[keys |-> s, kind |-> "map"] : s \in {<<k1, k2>>, <<k2, k1>>, <<k1, k1>>}}
MCSeedKeys     == <<"roles", "plan">>
MCLimit        == "account" :> 2 @@ "ip" :> 1
MCRoutes       == {<<"account", "ip">>}

VARIABLE service

Services == {"administrators", "grants", "catalog", "startup", "subscriptions", "limiter",
             "lockout", "mail", "lifetimes", "uploads", "keys", "products", "jobs"}

\* The state in which a service that does not run stays, where it has a choice.
Still ==
  /\ service # "administrators" => roleOf = [u \in Accounts |-> "admin"] /\ sole = {}
  /\ service # "grants" => \A o \in Members : links[o] = {}
  /\ service # "catalog" => stored = {}
  /\ service # "startup" => environment = "dev" /\ tables
  /\ service # "limiter" => limiter = "memory"
  /\ service # "uploads" => store = "local"
  /\ service # "keys" => \A k \in ApiKeySet : keyRow[k] = {}

ServicesInit ==
  /\ service \in Services
  /\ AdminsInit /\ GrantsInit /\ CatalogInit /\ StartupInit /\ SubscriptionsInit
  /\ RateLimiterInit /\ LockoutInit /\ MailInit /\ TokenLifetimesInit /\ UploadsInit /\ ApiKeysInit /\ ProductsInit
  /\ Init /\ Still

Alone(s) ==
  /\ service = s /\ service' = s
  /\ s # "administrators" => UNCHANGED evars
  /\ s # "grants" => UNCHANGED gvars
  /\ s # "catalog" => UNCHANGED cvars
  /\ s # "startup" => UNCHANGED bvars
  /\ s # "subscriptions" => UNCHANGED svars
  /\ s # "limiter" => UNCHANGED lvars
  /\ s # "lockout" => UNCHANGED kvars
  /\ s # "mail" => UNCHANGED mvars
  /\ s # "lifetimes" => UNCHANGED tvars
  /\ s # "uploads" => UNCHANGED uvars
  /\ s # "keys" => UNCHANGED qvars
  /\ s # "products" => UNCHANGED pvars
  /\ s # "jobs" => UNCHANGED vars

ServicesNext ==
  \/ Alone("administrators") /\ AdminsNext
  \/ Alone("grants") /\ GrantsNext
  \/ Alone("catalog") /\ CatalogNext
  \/ Alone("startup") /\ StartupNext
  \/ Alone("subscriptions") /\ SubscriptionsNext
  \/ Alone("limiter") /\ RateLimiterNext
  \/ Alone("lockout") /\ LockoutNext
  \/ Alone("mail") /\ MailNext
  \/ Alone("lifetimes") /\ TokenLifetimesNext
  \/ Alone("uploads") /\ UploadsNext
  \/ Alone("keys") /\ ApiKeysNext
  \/ Alone("products") /\ ProductsNext
  \/ Alone("jobs") /\ Next

allvars == <<service, evars, gvars, cvars, bvars, svars, lvars, kvars, mvars, tvars, uvars, qvars, pvars, vars>>

\* What awaits ends: the steps of a request, a boot or a worker are fair.
ServicesSpec ==
  /\ ServicesInit /\ [][ServicesNext]_allvars
  /\ \A r \in Editors : WF_evars(EditStep(r))
  /\ \A r \in Granters : WF_gvars(GrantStep(r))
  /\ \A r \in Makers : WF_cvars(MakerStep(r))
  /\ \A p \in Processes : WF_bvars(service = "startup" /\ BootStep(p))
  /\ \A c \in Clients : WF_svars(ClientStep(c))
  /\ WF_svars(service = "subscriptions" /\ SweepStep)
  /\ \A m \in Mails : WF_mvars(MailStep(m))
  /\ \A r \in Requests : WF_qvars(RequestStep(r))
  /\ \A r \in Staff : WF_pvars(StaffStep(r))
  /\ WF_vars(stopping # None /\ (Stopped \/ Reset))
  /\ \A w \in Workers : WF_vars(Work(w))

\* The variables of every service keep their shape.
ServicesTypeOK ==
  /\ AdminsTypeOK /\ GrantsTypeOK /\ CatalogTypeOK /\ StartupTypeOK /\ SubscriptionsTypeOK
  /\ RateLimiterTypeOK /\ LockoutTypeOK /\ MailTypeOK /\ TokenLifetimesTypeOK /\ UploadsTypeOK /\ ApiKeysTypeOK
  /\ ProductsTypeOK

\* Nothing waits for ever: every request, mail and job ends, in dev every process
\* gets to serve, and a trial that the job expires is told.
ServicesSettle ==
  /\ EditsEnd /\ GrantsEnd /\ MakersEnd /\ MailsEnd /\ RequestsEnd /\ ProductsEnd /\ JobsSettle
  /\ service = "startup" => DevServes
  /\ ExpiredIsTold
=============================================================================
