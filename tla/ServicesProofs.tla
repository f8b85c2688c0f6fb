---------------------------- MODULE ServicesProofs ----------------------------
(***************************************************************************)
(* The smaller services side by side: what is proved of each of them holds *)
(* of all of them in the behaviors of ServicesSpec.                        *)
(***************************************************************************)
EXTENDS MCServices, ClockProofs, RequestProofs, RbacProofs, BackgroundJobsProofs

\* Side by side every service still behaves as its own specification says: a
\* step of one of them is a step of it, and leaves the others as they are.
LEMMA ServicesApart == ServicesSpec =>
  /\ AdminsSpec
  /\ GrantsSpec
  /\ CatalogSpec
  /\ StartupSpec
  /\ SubscriptionsSpec
  /\ RateLimiterSpec
  /\ LockoutSpec
  /\ MailSpec
  /\ TokenLifetimesSpec
  /\ UploadsSpec
  /\ ApiKeysSpec
  /\ ProductsSpec
  /\ Spec
<1>1. ServicesInit =>
        /\ AdminsInit
        /\ GrantsInit
        /\ CatalogInit
        /\ StartupInit
        /\ SubscriptionsInit
        /\ RateLimiterInit
        /\ LockoutInit
        /\ MailInit
        /\ TokenLifetimesInit
        /\ UploadsInit
        /\ ApiKeysInit
        /\ ProductsInit
        /\ Init
  BY DEF ServicesInit
<1>2. [ServicesNext]_allvars =>
        /\ [AdminsNext]_evars
        /\ [GrantsNext]_gvars
        /\ [CatalogNext]_cvars
        /\ [StartupNext]_bvars
        /\ [SubscriptionsNext]_svars
        /\ [RateLimiterNext]_lvars
        /\ [LockoutNext]_kvars
        /\ [MailNext]_mvars
        /\ [TokenLifetimesNext]_tvars
        /\ [UploadsNext]_uvars
        /\ [ApiKeysNext]_qvars
        /\ [ProductsNext]_pvars
        /\ [Next]_vars
  BY DEF ServicesNext, Alone, allvars
<1> QED
  BY <1>1, <1>2, PTL DEF ServicesSpec,
         AdminsSpec, GrantsSpec, CatalogSpec, StartupSpec, SubscriptionsSpec,
         RateLimiterSpec, LockoutSpec, MailSpec, TokenLifetimesSpec, UploadsSpec,
         ApiKeysSpec, ProductsSpec, Spec

\* For all their constants, side by side the services keep the shape of their
\* variables (the type invariants of their modules).
THEOREM ServicesTyped == ServicesSpec => []ServicesTypeOK
<1>1. GrantsSpec => []GrantsTypeOK
  <2>1. GInv => GrantsTypeOK
    BY DEF GInv
  <2> QED
    BY <2>1, GrantsStart, GrantsSteps, PTL DEF GrantsSpec
<1>2. CatalogSpec => []CatalogTypeOK
  <2>1. CInv => CatalogTypeOK
    BY DEF CInv
  <2> QED
    BY <2>1, CatalogStart, CatalogSteps, PTL DEF CatalogSpec
<1>3. StartupSpec => []StartupTypeOK
  <2>1. BootInv => StartupTypeOK
    BY DEF BootInv
  <2> QED
    BY <2>1, StartupStarts, StartupSteps, PTL DEF StartupSpec
<1>4. SubscriptionsSpec => []SubscriptionsTypeOK
  <2>1. SInv => SubscriptionsTypeOK
    BY DEF SInv
  <2> QED
    BY <2>1, SubscriptionsStart, SubscriptionsSteps, PTL DEF SubscriptionsSpec
<1>5. LockoutSpec => []LockoutTypeOK
  <2>1. LockInv => LockoutTypeOK
    BY DEF LockInv
  <2> QED
    BY <2>1, LockoutStarts, LockoutSteps, PTL DEF LockoutSpec
<1>6. MailSpec => []MailTypeOK
  <2>1. MailInv => MailTypeOK
    BY DEF MailInv
  <2> QED
    BY <2>1, MailStarts, MailSteps, PTL DEF MailSpec
<1>7. TokenLifetimesSpec => []TokenLifetimesTypeOK
  <2>1. LifetimesInv => TokenLifetimesTypeOK
    BY DEF LifetimesInv
  <2> QED
    BY <2>1, LifetimesStart, LifetimesSteps, PTL DEF TokenLifetimesSpec
<1>8. UploadsSpec => []UploadsTypeOK
  <2>1. UInv => UploadsTypeOK
    BY DEF UInv
  <2> QED
    BY <2>1, UploadsStart, UploadsSteps, PTL DEF UploadsSpec
<1>9. ApiKeysSpec => []ApiKeysTypeOK
  <2>1. KInv => ApiKeysTypeOK
    BY DEF KInv
  <2> QED
    BY <2>1, ApiKeysStart, ApiKeysSteps, PTL DEF ApiKeysSpec
<1>10. ProductsSpec => []ProductsTypeOK
  <2>1. ProductsInv => ProductsTypeOK
    BY DEF ProductsInv
  <2> QED
    BY <2>1, ProductsStart, ProductsSteps, PTL DEF ProductsSpec
<1> QED
  BY <1>1, <1>2, <1>3, <1>4, <1>5, <1>6, <1>7, <1>8, <1>9, <1>10,
     AdminsTyped, RateLimiterTyped, ServicesApart, PTL DEF ServicesTypeOK

\* And each keeps what it promises: replaced grants, refusals, seeds, conversions,
\* limits, locks, the mail outage, lifetimes, files, revoked keys, products and jobs.
THEOREM ServicesKeepPromises == ServicesSpec =>
  []( /\ KeepsAnAdmin /\ PutsReplace /\ RefusedOnlyInRace /\ ServingIsSeeded
      /\ ConversionsHold /\ LimitIsKept /\ LockIsExact /\ OutageIsOver /\ LifetimesFit
      /\ FilesMatchRows /\ RevokedIsRefused /\ AnnouncedIsKept
      /\ OnePlace /\ RetriedThrice /\ DeadLetterLatest )
BY ServicesApart, AnAdminIsKept, ReplacementsHold, RefusalsAreRaces, SeededWhenServing,
   ConversionLasts, LimitKept, LockHolds, OutageEnds, LifetimesHold, UploadsMatch,
   RevocationLasts, AnnouncementsHold, JobsInOnePlace, JobsRetried, DeadLettersKept, PTL
===============================================================================
