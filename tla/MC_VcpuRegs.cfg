\* The register mapper and one thread's VCPU against one tag per physical
\* register; the VCPU has GRP_NUM + REG_LAST slots (spec 4.1).
CONSTANTS
  Phys <- MCPhys
  Views <- MCViews
  RegOrd <- MCRegOrd
  REG_LAST <- MCRegLast
  NSLOTS <- MCSlots
SPECIFICATION Spec
PROPERTIES RefinesRegTags
VIEW MCView
