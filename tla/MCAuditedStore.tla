--------------------------- MODULE MCAuditedStore ----------------------------
(***************************************************************************)
(* Small instances of AuditedStore: processes that open one new database,  *)
(* read it and write to it.  The scripts are the shapes the service has: a *)
(* record alone, an attachment and its waiver, a policy.                   *)
(***************************************************************************)
EXTENDS AuditedStore

MCEntities == {"policy", "waiver", "blob"}

Of(entity, content) == [entity |-> entity, content |-> content]

MCScripts ==
  {<< Of("waiver", "new") >>,
   << Of("blob", "new"), Of("waiver", "changed") >>,
   << Of("policy", "changed") >>}

==============================================================================
