---------------------------- MODULE MCPageLayout ----------------------------
(* Both pages and every number of articles up to MaxSize, with at most one  *)
(* unreadable SEO description; 28 reaches every template at every length.  *)
EXTENDS PageLayout
=============================================================================
